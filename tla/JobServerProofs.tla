-------------------------- MODULE JobServerProofs --------------------------
(***************************************************************************)
(* What holds of JobServer for every number of jobs, prompts, cancels and  *)
(* faults, proved with TLAPS; last, that it implements JobLifecycle.       *)
(***************************************************************************)
EXTENDS JobServer, FiniteSetTheorems, WellFoundedInduction, TLAPS

\* A request that names a cancel in a later UPDATE also names its job.
CancelNamesJob == \A c \in Cancels : cancel[c] # "new" => target[c] \in Jobs

\* The worker has a job in its hands wherever process_job, or the arm that
\* closes the job, is running; and a prompt id from the reply to its submit on.
HandsFull ==
  /\ at \in Busy \cup {"claim"} => cur \in Jobs
  /\ at \in Holding => prompt \in Prompts

TypeInv == TypeOK /\ CancelNamesJob /\ HandsFull

-----------------------------------------------------------------------------
(* The statements of the jobs table keep its columns in their types.       *)

LEMMA PutType ==
  ASSUME NEW T, NEW column \in [Jobs -> T], NEW hit, NEW v \in T
  PROVE  Put(column, hit, v) \in [Jobs -> T]
  BY DEF Put

LEMMA InsertType ==
  ASSUME RowsTypeOK, NEW j \in Jobs, insert_job(j)
  PROVE  RowsTypeOK'
  BY DEF RowsTypeOK, insert_job, Put, Status, Open, Terminal

LEMMA MarkRunningType ==
  ASSUME RowsTypeOK, NEW j \in Jobs, mark_running(j)
  PROVE  RowsTypeOK'
  BY DEF RowsTypeOK, mark_running, Put, Status, Open, Terminal, ProgressLevels

LEMMA PromptIdType ==
  ASSUME RowsTypeOK, NEW j \in Jobs, NEW p \in Prompts \cup {None},
         update_comfy_prompt_id(j, p)
  PROVE  RowsTypeOK'
  BY DEF RowsTypeOK, update_comfy_prompt_id, Put

LEMMA ProgressType ==
  ASSUME RowsTypeOK, NEW j \in Jobs, write_progress(j, 1)
  PROVE  RowsTypeOK'
  BY DEF RowsTypeOK, write_progress, Put, ProgressLevels

LEMMA MarkDoneType ==
  ASSUME RowsTypeOK, NEW j \in Jobs, NEW p \in Prompts \cup {None}, mark_done(j, p)
  PROVE  RowsTypeOK'
  BY DEF RowsTypeOK, mark_done, Put, Status, Open, Terminal, ProgressLevels

LEMMA MarkFailedType ==
  ASSUME RowsTypeOK, NEW j \in Jobs, NEW c \in Causes \cup {NoError}, mark_failed(j, c)
  PROVE  RowsTypeOK'
  BY DEF RowsTypeOK, mark_failed, Put, Status, Open, Terminal

LEMMA RequeueType ==
  ASSUME RowsTypeOK, NEW j \in Jobs, requeue(j)
  PROVE  RowsTypeOK'
  BY DEF RowsTypeOK, requeue, Put, Status, Open, Terminal, ProgressLevels

LEMMA ResetType ==
  ASSUME RowsTypeOK, reset_running_jobs
  PROVE  RowsTypeOK'
  BY DEF RowsTypeOK, reset_running_jobs, Put, Status, Open, Terminal, ProgressLevels

LEMMA CancelType ==
  ASSUME RowsTypeOK, NEW j \in Jobs, NEW st, cancel_from(j, st)
  PROVE  RowsTypeOK'
  BY DEF RowsTypeOK, cancel_from, Put, Status, Open, Terminal

LEMMA DeletedType ==
  ASSUME RowsTypeOK, NEW j \in Jobs, set_deleted(j, TRUE) \/ set_deleted(j, FALSE)
  PROVE  RowsTypeOK'
  BY DEF RowsTypeOK, set_deleted, Put

LEMMA RowsKept ==
  ASSUME RowsTypeOK, UNCHANGED rowVars
  PROVE  RowsTypeOK'
  BY DEF RowsTypeOK, rowVars

-----------------------------------------------------------------------------
(* What ComfyUI does keeps its own state in its types.                     *)

LEMMA LessInRelation ==
  ASSUME NEW a \in Nat, NEW b \in Nat, a < b
  PROVE  <<a, b>> \in OpToRel(<, Nat)
  BY SMT DEF OpToRel

LEMMA OldestIn ==
  ASSUME NEW S \in SUBSET Nat, S # {}
  PROVE  Oldest(S) \in S
<1>1. PICK n \in S : \A k \in S : <<k, n>> \notin OpToRel(<, Nat)
  BY NatLessThanWellFounded, WFMin
<1>2. \A k \in S : n <= k
  <2>1. SUFFICES ASSUME NEW k \in S, k < n PROVE FALSE
    OBVIOUS
  <2>2. QED
    BY <1>1, <2>1, LessInRelation
<1>3. QED
  BY <1>2 DEF Oldest

LEMMA BackendType ==
  ASSUME BackendTypeOK,
         \/ \E o \in Owners : AcceptPrompt(o)
         \/ StartPrompt
         \/ \E well \in BOOLEAN : EndPrompt(well)
         \/ Interrupt \/ GoAway \/ GoSilent \/ ComeBack
         \/ UNCHANGED backendVars
  PROVE  BackendTypeOK'
<1>. USE DEF BackendTypeOK, backendVars, memory, memory, Prompts
<1>1. ASSUME NEW o \in Owners, AcceptPrompt(o) PROVE BackendTypeOK'
  BY <1>1, NumPromptsAssumption DEF AcceptPrompt, NextPrompt
<1>2. CASE StartPrompt
  <2>1. pending \in SUBSET Nat
    BY NumPromptsAssumption
  <2>2. Oldest(pending) \in pending
    BY <1>2, <2>1, OldestIn DEF StartPrompt
  <2>3. QED
    BY <1>2, <2>2 DEF StartPrompt
<1>3. ASSUME NEW well \in BOOLEAN, EndPrompt(well) PROVE BackendTypeOK'
  BY <1>3 DEF EndPrompt
<1>4. CASE Interrupt
  BY <1>4, <1>3 DEF Interrupt
<1>5. CASE GoAway
  <2>1. outages' \in 0 .. MaxOutages
    BY <1>5, MaxOutagesAssumption DEF GoAway
  <2>2. QED
    BY <1>5, <2>1 DEF GoAway
<1>6. CASE GoSilent
  <2>1. silences' \in 0 .. MaxSilences
    BY <1>6, MaxOutagesAssumption DEF GoSilent
  <2>2. QED
    BY <1>6, <2>1 DEF GoSilent
<1>7. CASE ComeBack
  BY <1>7 DEF ComeBack
<1>8. QED
  BY <1>1, <1>2, <1>3, <1>4, <1>5, <1>6, <1>7

-----------------------------------------------------------------------------
(* Type correctness, one step per action of Next.                          *)

\* What every action of the worker says of the variables around the tables.
LEMMA DrainLoopType ==
  ASSUME TypeInv, DrainLoop
  PROVE  TypeInv'
<1>. USE DEF TypeInv, TypeOK, CancelNamesJob, HandsFull, Holding, WorkerAt, Busy, Calls, Goto, hands,
             Aside, requestVars, processVars, Quiet, Sound, faultVars, LetGo
<1>1. CASE Boot
  BY <1>1, ResetType, BackendType DEF Boot, Silently, Changed
<1>2. CASE BootFails
  BY <1>2, RowsKept, BackendType, BoundsAssumption DEF BootFails, DbFault, RowsIn
<1>3. CASE WorkerStops
  BY <1>3, RowsKept, BackendType DEF WorkerStops
<1>4. CASE fetch_oldest_queued
  <2>1. cur' \in Jobs
    BY <1>4, OldestIn DEF fetch_oldest_queued, Fetchable, Jobs
  <2>2. QED
    BY <1>4, <2>1, RowsKept, BackendType DEF fetch_oldest_queued
<1>5. CASE FetchNothing
  BY <1>5, RowsKept, BackendType DEF FetchNothing
<1>6. CASE FetchFails
  BY <1>6, RowsKept, BackendType, BoundsAssumption DEF FetchFails, DbFault
<1>7. CASE WakeUp
  BY <1>7, RowsKept, BackendType DEF WakeUp
<1>8. CASE IdleTick
  BY <1>8, RowsKept, BackendType DEF IdleTick
<1>9. CASE Announce
  BY <1>9, RowsKept, BackendType DEF Announce, notify_job_change
<1>10. CASE Requeue
  BY <1>10, RequeueType, BackendType DEF Requeue, Silently, Changed
<1>11. CASE RequeueFails
  BY <1>11, RowsKept, BackendType, BoundsAssumption DEF RequeueFails, DbFault, RowsIn
<1>12. CASE Retreat
  BY <1>12, RowsKept, BackendType DEF Retreat, notify_job_change
<1>13. CASE BackoffEnds
  BY <1>13, RowsKept, BackendType DEF BackoffEnds
<1>14. CASE Fail
  BY <1>14, MarkFailedType, BackendType DEF Fail, Silently, Changed
<1>15. CASE FailFails
  BY <1>15, RowsKept, BackendType, BoundsAssumption DEF FailFails, DbFault, RowsIn
<1>16. QED
  BY <1>1, <1>2, <1>3, <1>4, <1>5, <1>6, <1>7, <1>8, <1>9, <1>10, <1>11, <1>12, <1>13,
     <1>14, <1>15 DEF DrainLoop

LEMMA ProcessJobType ==
  ASSUME TypeInv, ProcessJob \/ Progress
  PROVE  TypeInv'
<1>. USE DEF TypeInv, TypeOK, CancelNamesJob, HandsFull, Holding, WorkerAt, Busy, Calls, Goto, hands,
             Aside, requestVars, processVars, Quiet, Sound, faultVars, LetGo, MovesOn, GivesUp,
             Causes
<1>1. CASE Claim
  BY <1>1, MarkRunningType, BackendType DEF Claim, Silently, Changed
<1>2. CASE ClaimLost
  BY <1>2, RowsKept, BackendType DEF ClaimLost
<1>3. CASE AnnounceClaim
  BY <1>3, RowsKept, BackendType DEF AnnounceClaim, notify_job_change
<1>4. CASE Upload
  BY <1>4, RowsKept, BackendType DEF Upload
<1>5. CASE connect_ws
  BY <1>5, RowsKept, BackendType DEF connect_ws
<1>6. CASE submit_prompt
  <2>1. BackendTypeOK' /\ prompt' \in Prompts
    BY <1>6, BackendType, NumPromptsAssumption
       DEF submit_prompt, AcceptPrompt, NextPrompt, Prompts, BackendTypeOK, Owners
  <2>2. QED
    BY <1>6, <2>1, RowsKept DEF submit_prompt
<1>7. CASE SubmitReplyLost
  <2>1. BackendTypeOK'
    BY <1>7, BackendType DEF SubmitReplyLost, Owners
  <2>2. QED
    BY <1>7, <2>1, RowsKept DEF SubmitReplyLost
<1>8. CASE Record
  BY <1>8, PromptIdType, BackendType DEF Record
<1>9. CASE AwaitEnds
  BY <1>9, RowsKept, BackendType DEF AwaitEnds
<1>10. CASE AwaitFails
  BY <1>10, RowsKept, BackendType DEF AwaitFails
<1>11. CASE AwaitTimesOut
  BY <1>11, RowsKept, BackendType DEF AwaitTimesOut
<1>12. CASE InterruptTimedOut
  BY <1>12, RowsKept, BackendType DEF InterruptTimedOut
<1>13. CASE get_history
  BY <1>13, RowsKept, BackendType DEF get_history
<1>14. CASE HistoryFails
  BY <1>14, RowsKept, BackendType DEF HistoryFails
<1>15. CASE view
  BY <1>15, RowsKept, BackendType DEF view
<1>16. CASE finalize_output
  BY <1>16, MarkDoneType, BackendType DEF finalize_output, Silently, Changed
<1>17. CASE Unreachable
  BY <1>17, RowsKept, BackendType DEF Unreachable
<1>18. CASE LocalFails \/ CallRefused \/ CallTimesOut
  BY <1>18, RowsKept, BackendType DEF LocalFails, CallRefused, CallTimesOut
<1>19. CASE CallCut
  BY <1>19, RowsKept, BackendType DEF CallCut
<1>20. CASE StatementFails
  BY <1>20, RowsKept, BackendType, BoundsAssumption DEF StatementFails, DbFault
<1>21. CASE Progress
  BY <1>21, ProgressType, BackendType DEF Progress, notify_job_change
<1>22. QED
  BY <1>1, <1>2, <1>3, <1>4, <1>5, <1>6, <1>7, <1>8, <1>9, <1>10, <1>11, <1>12, <1>13,
     <1>14, <1>15, <1>16, <1>17, <1>18, <1>19, <1>20, <1>21 DEF ProcessJob

LEMMA RequestType ==
  ASSUME TypeInv,
         \/ \E j \in Jobs : submit_job(j) \/ SendWake(j) \/ SubmitDropped(j)
                            \/ delete_job(j) \/ restore_job(j)
         \/ \E c \in Cancels : CancelStep(c) \/ CancelDropped(c)
                               \/ \E j \in Jobs : CancelRunning(c, j)
  PROVE  TypeInv'
<1>. USE DEF TypeInv, TypeOK, CancelNamesJob, HandsFull, Holding, WorkerAt, Busy, Calls, hands,
             requestVars, processVars, faultVars, Quiet, Unworked, Cancelling, CancelGoto,
             CancelAt, Silently, Changed, notify_job_change
<1>1. ASSUME NEW j \in Jobs, submit_job(j) PROVE TypeInv'
  BY <1>1, InsertType, BackendType DEF submit_job
<1>2. ASSUME NEW j \in Jobs, SendWake(j) PROVE TypeInv'
  BY <1>2, RowsKept, BackendType DEF SendWake
<1>3. ASSUME NEW j \in Jobs, delete_job(j) PROVE TypeInv'
  <2>1. RowsTypeOK'
    BY <1>3, DeletedType DEF delete_job
  <2>2. QED
    BY <1>3, <2>1, BackendType DEF delete_job
<1>4. ASSUME NEW j \in Jobs, restore_job(j) PROVE TypeInv'
  <2>1. RowsTypeOK'
    BY <1>4, DeletedType DEF restore_job
  <2>2. QED
    BY <1>4, <2>1, BackendType, BoundsAssumption DEF restore_job
<1>5. ASSUME NEW c \in Cancels, NEW j \in Jobs, CancelRunning(c, j) PROVE TypeInv'
  BY <1>5, CancelType, BackendType DEF CancelRunning
<1>6. ASSUME NEW c \in Cancels, CancelQueued(c) PROVE TypeInv'
  BY <1>6, CancelType, BackendType DEF CancelQueued
<1>7. ASSUME NEW c \in Cancels, CancelClaimed(c) PROVE TypeInv'
  BY <1>7, CancelType, BackendType DEF CancelClaimed
<1>8. ASSUME NEW c \in Cancels, CancelInterrupt(c) PROVE TypeInv'
  BY <1>8, RowsKept, BackendType DEF CancelInterrupt, Frames
<1>9. ASSUME NEW c \in Cancels, CancelAnnounce(c) PROVE TypeInv'
  BY <1>9, RowsKept, BackendType DEF CancelAnnounce
<1>10. ASSUME NEW j \in Jobs, SubmitDropped(j) PROVE TypeInv'
  BY <1>10, RowsKept, BackendType DEF SubmitDropped, Abandon
<1>11. ASSUME NEW c \in Cancels, CancelDropped(c) PROVE TypeInv'
  <2>1. target[c] \in Jobs
    BY <1>11 DEF CancelDropped, InFlight
  <2>2. QED
    BY <1>11, <2>1, RowsKept, BackendType DEF CancelDropped, Abandon, InFlight
<1>12. QED
  BY <1>1, <1>2, <1>3, <1>4, <1>5, <1>6, <1>7, <1>8, <1>9, <1>10, <1>11 DEF CancelStep

LEMMA EnvironmentType ==
  ASSUME TypeInv,
         \/ BackendStarts \/ BackendEnds \/ Outage \/ Silence \/ Recovery
         \/ WarmUp \/ Crash \/ Shutdown \/ Exit \/ Restart
  PROVE  TypeInv'
<1>. USE DEF TypeInv, TypeOK, CancelNamesJob, HandsFull, Holding, WorkerAt, Busy, Calls, Goto, hands,
             requestVars, processVars, faultVars, Beside, CancelAt, InFlight
<1>1. CASE BackendStarts
  BY <1>1, RowsKept, BackendType DEF BackendStarts
<1>2. CASE BackendEnds
  BY <1>2, RowsKept, BackendType DEF BackendEnds, Frames
<1>3. CASE Outage
  BY <1>3, RowsKept, BackendType DEF Outage
<1>4. CASE Silence \/ Recovery
  BY <1>4, RowsKept, BackendType DEF Silence, Recovery
<1>5. CASE WarmUp
  <2>1. BackendTypeOK'
    BY <1>5, BackendType DEF WarmUp, Owners
  <2>2. QED
    BY <1>5, <2>1, RowsKept DEF WarmUp
<1>6. CASE Crash
  <2>1. crashes' \in 0 .. MaxCrashes
    BY <1>6, BoundsAssumption DEF Crash
  <2>2. RowsTypeOK' /\ BackendTypeOK'
    BY <1>6, RowsKept, BackendType DEF Crash, Dies
  <2>3. cancel' \in [Cancels -> CancelAt] /\ CancelNamesJob'
    BY <1>6 DEF Crash, Dies
  <2>4. QED
    BY <1>6, <2>1, <2>2, <2>3 DEF Crash, Dies, LetGo
<1>7. CASE Shutdown
  BY <1>7, RowsKept, BackendType, BoundsAssumption DEF Shutdown
<1>8. CASE Exit
  BY <1>8, RowsKept, BackendType DEF Exit, Dies, LetGo
<1>9. CASE Restart
  BY <1>9, RowsKept, BackendType, WarmupAssumption DEF Restart
<1>10. QED
  BY <1>1, <1>2, <1>3, <1>4, <1>5, <1>6, <1>7, <1>8, <1>9

LEMMA StutterType ==
  ASSUME TypeInv, UNCHANGED vars
  PROVE  TypeInv'
  BY RowsKept, BackendType
     DEF TypeInv, TypeOK, CancelNamesJob, HandsFull, Holding, vars, hands, requestVars, processVars,
         faultVars

LEMMA InitType == Init => TypeInv
<1>. SUFFICES ASSUME Init PROVE TypeInv
  OBVIOUS
<1>1. RowsTypeOK
  BY DEF Init, RowsInit, RowsTypeOK, Status, ProgressLevels
<1>2. BackendTypeOK
  BY MaxOutagesAssumption, NumPromptsAssumption
     DEF Init, BackendInit, BackendTypeOK, Owners
<1>3. crashes \in 0 .. MaxCrashes /\ dbFaults \in 0 .. MaxDbFaults /\ restores \in 0 .. MaxRestores
  BY BoundsAssumption DEF Init
<1>4. cancel \in [Cancels -> CancelAt] /\ target \in [Cancels -> Jobs \cup {None}]
  BY DEF Init, CancelAt
<1>5. CancelNamesJob /\ HandsFull
  BY DEF Init, CancelNamesJob, HandsFull, Holding, Busy, Calls
<1>6. QED
  BY <1>1, <1>2, <1>3, <1>4, <1>5, WarmupAssumption DEF Init, TypeInv, TypeOK, WorkerAt, Busy

\* Every column, and every variable of the worker, the requests, the process and
\* ComfyUI keeps to its type, and the worker never works without a job.
THEOREM TypeCorrect == Spec => []TypeInv
<1>1. TypeInv /\ [Next]_vars => TypeInv'
  BY DrainLoopType, ProcessJobType, RequestType, EnvironmentType, StutterType DEF Next
<1>2. QED
  BY InitType, <1>1, PTL DEF Spec

-----------------------------------------------------------------------------
(* The invariants of the job engine, by the strengthening IInv.            *)

\* mark_done on a running row, column by column.
LEMMA MarkDoneHits ==
  ASSUME NEW j \in Jobs, NEW p, status[j] = "running", mark_done(j, p)
  PROVE  \A k \in Jobs : /\ status'[k] = IF k = j THEN "done" ELSE status[k]
                         /\ output'[k] = IF k = j THEN p ELSE output[k]
                         /\ progress'[k] = IF k = j THEN 2 ELSE progress[k]
<1>1. RowsIn({j}, "running") = {j}
  BY DEF RowsIn
<1>2. QED
  BY <1>1 DEF mark_done, Put

LEMMA DrainLoopInductive ==
  ASSUME TypeInv, IInv, DrainLoop
  PROVE  IInv'
<1>. USE DEF TypeInv, TypeOK, RowsTypeOK, BackendTypeOK, HandsFull, Holding, IInv,
             RunningIsHeld, DoneHasOwnOutput, ProgressMatchesStatus, HandsMatchRow,
             RowsConsistent, Busy, Calls, rowVars, backendVars, memory, hands, Put, RowsIn,
             Goto, Aside, Quiet, Sound, faultVars, LetGo, MovesOn, GivesUp
<1>1. CASE Boot
  BY <1>1 DEF Boot, reset_running_jobs
<1>2. CASE BootFails
  BY <1>2 DEF BootFails, DbFault
<1>3. CASE WorkerStops
  BY <1>3 DEF WorkerStops, Waiting
<1>4. CASE fetch_oldest_queued
  BY <1>4 DEF fetch_oldest_queued
<1>5. CASE FetchNothing
  BY <1>5 DEF FetchNothing
<1>6. CASE FetchFails
  BY <1>6 DEF FetchFails, DbFault
<1>7. CASE WakeUp
  BY <1>7 DEF WakeUp, Waiting
<1>8. CASE IdleTick
  BY <1>8 DEF IdleTick, Waiting
<1>9. CASE Announce
  BY <1>9 DEF Announce
<1>10. CASE Requeue
  BY <1>10 DEF Requeue, requeue
<1>11. CASE RequeueFails
  BY <1>11 DEF RequeueFails, DbFault
<1>12. CASE Retreat
  BY <1>12 DEF Retreat
<1>13. CASE BackoffEnds
  BY <1>13 DEF BackoffEnds
<1>14. CASE Fail
  BY <1>14 DEF Fail, mark_failed
<1>15. CASE FailFails
  BY <1>15 DEF FailFails, DbFault
<1>16. QED
  BY <1>1, <1>2, <1>3, <1>4, <1>5, <1>6, <1>7, <1>8, <1>9, <1>10, <1>11, <1>12, <1>13, <1>14, <1>15 DEF DrainLoop

LEMMA ProcessJobInductive ==
  ASSUME TypeInv, IInv, ProcessJob \/ Progress
  PROVE  IInv'
<1>. USE DEF TypeInv, TypeOK, RowsTypeOK, BackendTypeOK, HandsFull, Holding, IInv,
             RunningIsHeld, DoneHasOwnOutput, ProgressMatchesStatus, HandsMatchRow,
             RowsConsistent, Busy, Calls, rowVars, backendVars, memory, hands, Put, RowsIn,
             Goto, Aside, Quiet, Sound, faultVars, LetGo, MovesOn, GivesUp
<1>1. CASE Claim
  BY <1>1 DEF Claim, mark_running, Claimable
<1>2. CASE ClaimLost
  BY <1>2 DEF ClaimLost
<1>3. CASE AnnounceClaim
  BY <1>3 DEF AnnounceClaim
<1>4. CASE Upload
  BY <1>4 DEF Upload
<1>5. CASE connect_ws
  BY <1>5 DEF connect_ws
<1>6. CASE submit_prompt
  <2>1. accepted' = accepted + 1 /\ prompt' = accepted' /\ owner' = [owner EXCEPT ![accepted'] = cur]
    BY <1>6 DEF submit_prompt, AcceptPrompt, NextPrompt
  <2>2. accepted \in Nat /\ accepted' \in Prompts
    BY <1>6, NumPromptsAssumption DEF submit_prompt, AcceptPrompt, NextPrompt, Prompts
  <2>3. \A p \in Prompts : p <= accepted => owner'[p] = owner[p] /\ p <= accepted'
    BY <2>1, <2>2 DEF Prompts
  <2>4. UNCHANGED <<rowVars, stranded, dbFaults, files, cur>> /\ at = "submit" /\ at' = "record"
    BY <1>6 DEF submit_prompt
  <2>5. HandsMatchRow'
    BY <2>1, <2>2, <2>4
  <2>6. DoneHasOwnOutput' /\ RowsConsistent'
    BY <2>3, <2>4
  <2>7. QED
    BY <2>4, <2>5, <2>6
<1>7. CASE SubmitReplyLost
  <2>1. accepted' = accepted + 1 /\ owner' = [owner EXCEPT ![accepted'] = cur]
    BY <1>7 DEF SubmitReplyLost, AcceptPrompt, NextPrompt
  <2>2. accepted \in Nat /\ accepted' \in Prompts
    BY <1>7, NumPromptsAssumption DEF SubmitReplyLost, AcceptPrompt, NextPrompt, Prompts
  <2>3. \A p \in Prompts : p <= accepted => owner'[p] = owner[p] /\ p <= accepted'
    BY <2>1, <2>2 DEF Prompts
  <2>4. UNCHANGED <<rowVars, stranded, dbFaults, files, cur>> /\ at = "submit" /\ at' = "fail"
    BY <1>7 DEF SubmitReplyLost
  <2>5. DoneHasOwnOutput' /\ RowsConsistent'
    BY <2>3, <2>4
  <2>6. QED
    BY <2>4, <2>5
<1>8. CASE Record
  BY <1>8 DEF Record, update_comfy_prompt_id
<1>9. CASE AwaitEnds
  BY <1>9 DEF AwaitEnds
<1>10. CASE AwaitFails
  BY <1>10 DEF AwaitFails
<1>11. CASE AwaitTimesOut
  BY <1>11 DEF AwaitTimesOut
<1>12. CASE InterruptTimedOut
  BY <1>12 DEF InterruptTimedOut, Interrupt, EndPrompt
<1>13. CASE get_history
  BY <1>13 DEF get_history
<1>14. CASE HistoryFails
  BY <1>14 DEF HistoryFails
<1>15. CASE view
  BY <1>15 DEF view
<1>16. CASE finalize_output
  <2>1. at = "finish" /\ at' = "announce" /\ cur \in Jobs /\ prompt \in Prompts
    BY <1>16 DEF finalize_output
  <2>2. UNCHANGED <<backendVars, files, stranded, dbFaults, promptId, error, deleted>>
    BY <1>16 DEF finalize_output, mark_done
  <2>3. CASE status[cur] = "running"
    <3>1. \A j \in Jobs : /\ status'[j] = IF j = cur THEN "done" ELSE status[j]
                          /\ output'[j] = IF j = cur THEN prompt ELSE output[j]
                          /\ progress'[j] = IF j = cur THEN 2 ELSE progress[j]
      BY <1>16, <2>1, <2>3, MarkDoneHits DEF finalize_output
    <3>2. prompt # None /\ prompt \in files /\ prompt <= accepted
          /\ owner[prompt] = cur /\ promptId[cur] = prompt
      BY <2>1 DEF Prompts, None
    <3>3. ASSUME NEW j \in Jobs, j # cur
          PROVE  status'[j] = status[j] /\ output'[j] = output[j] /\ progress'[j] = progress[j]
      BY <3>1, <3>3
    <3>4. status'[cur] = "done" /\ output'[cur] = prompt /\ progress'[cur] = 2
      BY <2>1, <3>1
    <3>5. DoneHasOwnOutput'
      BY <2>1, <2>2, <3>2, <3>3, <3>4
    <3>6. ProgressMatchesStatus'
      BY <2>1, <2>2, <3>3, <3>4
    <3>7. RowsConsistent' /\ RunningIsHeld' /\ HandsMatchRow'
      BY <2>1, <2>2, <3>2, <3>3, <3>4
    <3>8. QED
      BY <3>5, <3>6, <3>7
  <2>4. CASE status[cur] # "running"
    <3>1. UNCHANGED rowVars
      BY <1>16, <2>1, <2>4 DEF finalize_output, mark_done
    <3>2. QED
      BY <2>1, <2>2, <2>4, <3>1
  <2>5. QED
    BY <2>3, <2>4
<1>17. CASE Unreachable
  BY <1>17 DEF Unreachable
<1>18. CASE LocalFails \/ CallRefused \/ CallTimesOut
  BY <1>18 DEF LocalFails, CallRefused, CallTimesOut
<1>19. CASE CallCut
  BY <1>19 DEF CallCut
<1>20. CASE StatementFails
  BY <1>20 DEF StatementFails, DbFault
<1>21. CASE Progress
  BY <1>21 DEF Progress, write_progress, notify_job_change
<1>22. QED
  BY <1>1, <1>2, <1>3, <1>4, <1>5, <1>6, <1>7, <1>8, <1>9, <1>10, <1>11, <1>12, <1>13, <1>14, <1>15, <1>16, <1>17, <1>18, <1>19, <1>20, <1>21 DEF ProcessJob

LEMMA RequestInductive ==
  ASSUME TypeInv, IInv,
         \/ \E j \in Jobs : submit_job(j) \/ SendWake(j) \/ SubmitDropped(j)
                            \/ delete_job(j) \/ restore_job(j)
         \/ \E c \in Cancels : CancelStep(c) \/ CancelDropped(c)
                               \/ \E j \in Jobs : CancelRunning(c, j)
  PROVE  IInv'
<1>. USE DEF TypeInv, TypeOK, RowsTypeOK, BackendTypeOK, HandsFull, Holding, IInv,
             RunningIsHeld, DoneHasOwnOutput, ProgressMatchesStatus, HandsMatchRow,
             RowsConsistent, Busy, Calls, rowVars, backendVars, memory, hands, Put, RowsIn,
             Quiet, Unworked, Cancelling, CancelGoto, faultVars, processVars
<1>1. ASSUME NEW j \in Jobs, submit_job(j) PROVE IInv'
  BY <1>1 DEF submit_job, insert_job
<1>2. ASSUME NEW j \in Jobs, SendWake(j) PROVE IInv'
  BY <1>2 DEF SendWake
<1>3. ASSUME NEW j \in Jobs, delete_job(j) PROVE IInv'
  BY <1>3 DEF delete_job, set_deleted
<1>4. ASSUME NEW j \in Jobs, restore_job(j) PROVE IInv'
  BY <1>4 DEF restore_job, set_deleted
<1>5. ASSUME NEW c \in Cancels, NEW j \in Jobs, CancelRunning(c, j) PROVE IInv'
  BY <1>5 DEF CancelRunning, cancel_from
<1>6. ASSUME NEW c \in Cancels, CancelQueued(c) PROVE IInv'
  BY <1>6 DEF CancelQueued, cancel_from
<1>7. ASSUME NEW c \in Cancels, CancelClaimed(c) PROVE IInv'
  BY <1>7 DEF CancelClaimed, cancel_from
<1>8. ASSUME NEW c \in Cancels, CancelInterrupt(c) PROVE IInv'
  BY <1>8 DEF CancelInterrupt, Interrupt, EndPrompt
<1>9. ASSUME NEW c \in Cancels, CancelAnnounce(c) PROVE IInv'
  BY <1>9 DEF CancelAnnounce
<1>10. ASSUME NEW j \in Jobs, SubmitDropped(j) PROVE IInv'
  BY <1>10 DEF SubmitDropped
<1>11. ASSUME NEW c \in Cancels, CancelDropped(c) PROVE IInv'
  BY <1>11 DEF CancelDropped
<1>12. QED
  BY <1>1, <1>2, <1>3, <1>4, <1>5, <1>6, <1>7, <1>8, <1>9, <1>10, <1>11 DEF CancelStep

LEMMA EnvironmentInductive ==
  ASSUME TypeInv, IInv,
         \/ BackendStarts \/ BackendEnds \/ Outage \/ Silence \/ Recovery
         \/ WarmUp \/ Crash \/ Shutdown \/ Exit \/ Restart
  PROVE  IInv'
<1>. USE DEF TypeInv, TypeOK, RowsTypeOK, BackendTypeOK, HandsFull, Holding, IInv,
             RunningIsHeld, DoneHasOwnOutput, ProgressMatchesStatus, HandsMatchRow,
             RowsConsistent, Busy, Calls, rowVars, backendVars, memory, hands, Put, RowsIn,
             Beside, Goto, LetGo, Dies, faultVars, processVars
<1>1. CASE BackendStarts
  BY <1>1 DEF BackendStarts, StartPrompt
<1>2. CASE BackendEnds
  BY <1>2 DEF BackendEnds, EndPrompt
<1>3. CASE Outage
  BY <1>3 DEF Outage, GoAway
<1>4. CASE Silence \/ Recovery
  BY <1>4 DEF Silence, GoSilent, Recovery, ComeBack
<1>5. CASE WarmUp
  <2>1. accepted' = accepted + 1 /\ owner' = [owner EXCEPT ![accepted'] = Warmup]
    BY <1>5 DEF WarmUp, AcceptPrompt, NextPrompt
  <2>2. accepted \in Nat /\ accepted' \in Prompts
    BY <1>5, NumPromptsAssumption DEF WarmUp, AcceptPrompt, NextPrompt, Prompts
  <2>3. \A p \in Prompts : p <= accepted => owner'[p] = owner[p] /\ p <= accepted'
    BY <2>1, <2>2 DEF Prompts
  <2>4. UNCHANGED <<rowVars, stranded, dbFaults, files, cur, prompt, at>>
    BY <1>5 DEF WarmUp
  <2>5. DoneHasOwnOutput' /\ RowsConsistent' /\ HandsMatchRow'
    BY <2>3, <2>4
  <2>6. QED
    BY <2>4, <2>5
<1>6. CASE Crash
  BY <1>6 DEF Crash
<1>7. CASE Shutdown
  BY <1>7 DEF Shutdown
<1>8. CASE Exit
  BY <1>8 DEF Exit
<1>9. CASE Restart
  BY <1>9 DEF Restart
<1>10. QED
  BY <1>1, <1>2, <1>3, <1>4, <1>5, <1>6, <1>7, <1>8, <1>9

LEMMA StutterInductive ==
  ASSUME TypeInv, IInv, UNCHANGED vars
  PROVE  IInv'
  BY DEF TypeInv, IInv, RunningIsHeld, DoneHasOwnOutput, ProgressMatchesStatus, HandsMatchRow,
         RowsConsistent, vars, rowVars, backendVars, memory, hands, faultVars

LEMMA InitInductive == Init => IInv
  BY DEF Init, RowsInit, BackendInit, IInv, RunningIsHeld, DoneHasOwnOutput,
         ProgressMatchesStatus, HandsMatchRow, RowsConsistent, Busy, Calls, Holding

\* The inductive invariant: single flight, and the agreement of the rows with
\* the files, with ComfyUI's prompts and with what the worker holds.
THEOREM Inductive == Spec => []IInv
<1>1. TypeInv /\ IInv /\ [Next]_vars => IInv'
  BY DrainLoopInductive, ProcessJobInductive, RequestInductive, EnvironmentInductive,
     StutterInductive DEF Next
<1>2. QED
  BY InitInductive, TypeCorrect, <1>1, PTL DEF Spec

\* A `running` row is in the worker's hands, waits for the boot's reset, or was
\* left behind by a failed statement.
THEOREM SingleFlight == Spec => []RunningIsHeld
<1>1. IInv => RunningIsHeld
  BY DEF IInv
<1>2. QED
  BY Inductive, <1>1, PTL

\* A finished job has the image of its own attempt on disk, and no other has.
THEOREM OutputIsOwn == Spec => []DoneHasOwnOutput
<1>1. IInv => DoneHasOwnOutput
  BY DEF IInv
<1>2. QED
  BY Inductive, <1>1, PTL

\* Nothing of an attempt survives in a row that is back on the queue.
THEOREM ProgressIsHonest == Spec => []ProgressMatchesStatus
<1>1. IInv => ProgressMatchesStatus
  BY DEF IInv
<1>2. QED
  BY Inductive, <1>1, PTL

\* The state of the rows, the worker, the requests and ComfyUI stays well formed.
THEOREM TypesKept == Spec => []TypeOK
<1>1. TypeInv => TypeOK
  BY DEF TypeInv
<1>2. QED
  BY TypeCorrect, <1>1, PTL

-----------------------------------------------------------------------------
(* The prompt in the worker's hands, and what an outage does to it.        *)

\* Prompts are numbered as they are accepted, none is queued and executing, and
\* the prompt the worker holds is its own from the reply to its submit on; once
\* it has heard of the end of that prompt, the prompt is over.
PromptInv ==
  /\ \A p \in pending : p <= accepted
  /\ executing <= accepted /\ executing \notin pending
  /\ prompt <= accepted
  /\ at \notin Holding \cup {"fail", "requeue"} => prompt = None
  /\ inbox # "none" \/ at = "history" =>
       /\ prompt # None /\ prompt \notin pending /\ prompt # executing
       /\ outages = 0 => prompt \in succeeded \cup broken

\* Jobs that failed with a lost connection, and the job in hand as soon as an
\* outage has cut its connection or lost its prompt.
Disconnected == {j \in Jobs : error[j] = "disconnected"}
Suffers ==
  \/ link = "cut" \/ cause = "disconnected"
  \/ prompt # None /\ prompt \notin pending \cup {executing} \cup succeeded \cup broken
OutageInv ==
  /\ Cardinality(Disconnected) <= outages
  /\ Suffers => Cardinality(Disconnected) + 1 <= outages

LEMMA LetGoPrompt ==
  ASSUME TypeInv, PromptInv, LetGo, UNCHANGED backendVars, at' # "history"
  PROVE  PromptInv'
  BY NumPromptsAssumption DEF TypeInv, TypeOK, BackendTypeOK, PromptInv, LetGo, backendVars, memory, None

LEMMA DrainLoopPrompt ==
  ASSUME TypeInv, IInv, PromptInv, DrainLoop
  PROVE  PromptInv'
<1>. USE DEF TypeInv, TypeOK, BackendTypeOK, PromptInv, Holding, backendVars, memory, hands, Goto, LetGo, None
<1>1. CASE Requeue \/ RequeueFails \/ Fail \/ FailFails
  BY <1>1, LetGoPrompt DEF Requeue, RequeueFails, Fail, FailFails
<1>2. CASE fetch_oldest_queued
  BY <1>2 DEF fetch_oldest_queued
<1>3. CASE \/ Boot \/ BootFails \/ WorkerStops \/ FetchNothing \/ FetchFails
           \/ WakeUp \/ IdleTick \/ Announce \/ Retreat \/ BackoffEnds
  BY <1>3 DEF Boot, BootFails, WorkerStops, FetchNothing, FetchFails, WakeUp, IdleTick,
              Announce, Retreat, BackoffEnds, Waiting
<1>4. QED
  BY <1>1, <1>2, <1>3 DEF DrainLoop

LEMMA ProcessJobPrompt ==
  ASSUME TypeInv, IInv, PromptInv, ProcessJob \/ Progress
  PROVE  PromptInv'
<1>. USE NumPromptsAssumption
     DEF TypeInv, TypeOK, BackendTypeOK, HandsFull, PromptInv, Holding, Calls, backendVars, memory, hands, Goto, LetGo, MovesOn,
         GivesUp, None, Prompts
<1>1. CASE Claim \/ AnnounceClaim \/ Upload \/ connect_ws
  BY <1>1 DEF Claim, AnnounceClaim, Upload, connect_ws
<1>2. CASE ClaimLost \/ finalize_output
  <2>1. LetGo /\ UNCHANGED backendVars /\ at' # "history"
    BY <1>2 DEF ClaimLost, finalize_output
  <2>2. QED
    BY <2>1, LetGoPrompt
<1>3. CASE submit_prompt
  BY <1>3 DEF submit_prompt, AcceptPrompt, NextPrompt
<1>4. CASE SubmitReplyLost
  BY <1>4 DEF SubmitReplyLost, AcceptPrompt, NextPrompt
<1>5. CASE Record \/ Progress \/ AwaitTimesOut
  BY <1>5 DEF Record, Progress, AwaitTimesOut
<1>6. CASE AwaitEnds
  BY <1>6 DEF AwaitEnds
<1>7. CASE InterruptTimedOut
  <2>1. at' = "fail" /\ UNCHANGED <<prompt, inbox>>
    BY <1>7 DEF InterruptTimedOut
  <2>2. EndPrompt(FALSE) \/ UNCHANGED backendVars
    BY <1>7 DEF InterruptTimedOut, Interrupt
  <2>3. CASE EndPrompt(FALSE)
    BY <2>1, <2>3 DEF EndPrompt
  <2>4. CASE UNCHANGED backendVars
    BY <2>1, <2>4
  <2>5. QED
    BY <2>2, <2>3, <2>4
<1>8. CASE get_history \/ view
  BY <1>8 DEF get_history, view
<1>9. CASE \/ AwaitFails \/ HistoryFails \/ Unreachable \/ LocalFails \/ CallRefused
           \/ CallTimesOut \/ CallCut \/ StatementFails
  BY <1>9 DEF AwaitFails, HistoryFails, Unreachable, LocalFails, CallRefused, CallTimesOut, CallCut, StatementFails
<1>10. QED
  BY <1>1, <1>2, <1>3, <1>4, <1>5, <1>6, <1>7, <1>8, <1>9 DEF ProcessJob

\* A request that is not an interrupt leaves ComfyUI and the worker as they are.
LEMMA RequestSpares ==
  ASSUME \/ \E j \in Jobs : submit_job(j) \/ SendWake(j) \/ SubmitDropped(j)
                            \/ delete_job(j) \/ restore_job(j)
         \/ \E c \in Cancels : CancelStep(c) \/ CancelDropped(c)
                               \/ \E j \in Jobs : CancelRunning(c, j)
  PROVE  \/ \E c \in Cancels : CancelInterrupt(c)
         \/ UNCHANGED <<backendVars, at, hands, error>>
BY DEF submit_job, insert_job, SendWake, SubmitDropped, delete_job, restore_job, set_deleted,
       CancelStep, CancelDropped, CancelRunning, CancelQueued, CancelClaimed, CancelAnnounce,
       cancel_from, Cancelling, Unworked, Quiet, rowVars

\* The end of a prompt, and the frame it sends to whoever waits for it.
LEMMA FramesPrompt ==
  ASSUME TypeInv, PromptInv, NEW well \in BOOLEAN, EndPrompt(well), Frames(well),
         UNCHANGED <<at, prompt>>
  PROVE  PromptInv'
<1>. USE DEF TypeInv, TypeOK, BackendTypeOK, HandsFull, PromptInv, Holding, EndPrompt, None, Prompts
<1>1. CASE executing = prompt /\ prompt # None
  BY <1>1
<1>2. CASE ~(executing = prompt /\ prompt # None)
  BY <1>2 DEF Frames
<1>3. QED
  BY <1>1, <1>2

LEMMA RequestPrompt ==
  ASSUME TypeInv, PromptInv,
         \/ \E j \in Jobs : submit_job(j) \/ SendWake(j) \/ SubmitDropped(j)
                            \/ delete_job(j) \/ restore_job(j)
         \/ \E c \in Cancels : CancelStep(c) \/ CancelDropped(c)
                               \/ \E j \in Jobs : CancelRunning(c, j)
  PROVE  PromptInv'
<1>1. ASSUME NEW c \in Cancels, CancelInterrupt(c), up, executing # None PROVE PromptInv'
  BY <1>1, FramesPrompt DEF CancelInterrupt, Interrupt
<1>2. ASSUME NEW c \in Cancels, CancelInterrupt(c), ~up \/ executing = None PROVE PromptInv'
  <2>1. UNCHANGED <<backendVars, inbox, at, prompt>>
    BY <1>2 DEF CancelInterrupt, Interrupt
  <2>2. QED
    BY <2>1 DEF PromptInv, backendVars, memory, Holding
<1>3. CASE UNCHANGED <<backendVars, at, hands, error>>
  BY <1>3 DEF PromptInv, backendVars, memory, hands, Holding
<1>4. QED
  BY <1>1, <1>2, <1>3, RequestSpares

LEMMA EnvironmentPrompt ==
  ASSUME TypeInv, PromptInv,
         \/ BackendStarts \/ BackendEnds \/ Outage \/ Silence \/ Recovery
         \/ WarmUp \/ Crash \/ Shutdown \/ Exit \/ Restart
  PROVE  PromptInv'
<1>. USE DEF TypeInv, TypeOK, BackendTypeOK, HandsFull, PromptInv, Holding, backendVars, memory, hands,
             None, Prompts, Beside
<1>1. CASE BackendStarts
  <2>1. Oldest(pending) \in pending
    BY <1>1, OldestIn, NumPromptsAssumption DEF BackendStarts, StartPrompt
  <2>2. QED
    BY <1>1, <2>1 DEF BackendStarts, StartPrompt
<1>2. CASE BackendEnds
  BY <1>2, FramesPrompt DEF BackendEnds
<1>3. CASE Outage
  BY <1>3, MaxOutagesAssumption, NumPromptsAssumption DEF Outage, GoAway
<1>4. CASE Silence \/ Recovery
  BY <1>4 DEF Silence, GoSilent, Recovery, ComeBack
<1>5. CASE WarmUp
  BY <1>5, NumPromptsAssumption DEF WarmUp, AcceptPrompt, NextPrompt
<1>6. CASE Crash \/ Exit
  <2>1. LetGo /\ UNCHANGED backendVars /\ at' # "history"
    BY <1>6 DEF Crash, Exit, Dies
  <2>2. QED
    BY <2>1, LetGoPrompt
<1>7. CASE Shutdown \/ Restart
  BY <1>7 DEF Shutdown, Restart, Goto
<1>8. QED
  BY <1>1, <1>2, <1>3, <1>4, <1>5, <1>6, <1>7

LEMMA PromptHolds == Spec => []PromptInv
<1>1. Init => PromptInv
  BY NumPromptsAssumption DEF Init, BackendInit, PromptInv, None, Holding
<1>2. TypeInv /\ IInv /\ PromptInv /\ [Next]_vars => PromptInv'
  <2>1. PromptInv /\ UNCHANGED vars => PromptInv'
    BY DEF PromptInv, vars, backendVars, memory, hands, Holding
  <2>2. QED
    BY <2>1, DrainLoopPrompt, ProcessJobPrompt, RequestPrompt, EnvironmentPrompt DEF Next
<1>3. QED
  BY <1>1, <1>2, TypeCorrect, Inductive, PTL DEF Spec

\* Whatever else ComfyUI runs or is told to stop, what the worker hears, or acts
\* on, is the end of the very prompt it holds.
THEOREM EndIsOwn == Spec => []EndsWithOwnPrompt
<1>1. PromptInv => EndsWithOwnPrompt
  BY DEF PromptInv, EndsWithOwnPrompt
<1>2. QED
  BY <1>1, PromptHolds, PTL

-----------------------------------------------------------------------------
(* The cost of an outage.                                                  *)

LEMMA DisconnectedFinite ==
  IsFiniteSet(Disconnected) /\ Cardinality(Disconnected) \in Nat
<1>1. IsFiniteSet(Jobs)
  BY FS_Interval, NumJobsAssumption DEF Jobs
<1>2. IsFiniteSet(Disconnected)
  BY <1>1, FS_Subset DEF Disconnected
<1>3. QED
  BY <1>2, FS_CardinalityType

\* What neither fails a job nor makes the job in hand suffer costs nothing.
LEMMA NoCost ==
  ASSUME TypeInv, OutageInv, UNCHANGED outages,
         Disconnected' \subseteq Disconnected, Suffers' => Suffers
  PROVE  OutageInv'
<1>1. Cardinality(Disconnected') <= Cardinality(Disconnected)
      /\ Cardinality(Disconnected') \in Nat
  BY DisconnectedFinite, FS_Subset, FS_CardinalityType
<1>2. outages \in Nat /\ Cardinality(Disconnected) \in Nat
  BY DisconnectedFinite, MaxOutagesAssumption DEF TypeInv, TypeOK, BackendTypeOK
<1>3. Cardinality(Disconnected)' = Cardinality(Disconnected')
  OBVIOUS
<1>4. QED
  BY <1>1, <1>2, <1>3 DEF OutageInv

\* A job let go does not suffer.
LEMMA LetGoSuffersNot == LetGo => ~Suffers'
  BY DEF LetGo, Suffers, NoError

\* The failure of a job that has suffered: one more, and nobody suffers.
LEMMA FailCost ==
  ASSUME TypeInv, OutageInv, Fail
  PROVE  OutageInv'
<1>1. LetGo /\ UNCHANGED outages /\ mark_failed(cur, cause)
  BY DEF Fail, backendVars, memory
<1>2. ~Suffers'
  BY <1>1, LetGoSuffersNot
<1>3. CASE cause = "disconnected"
  <2>1. Disconnected' \subseteq Disconnected \cup {cur}
    BY <1>1 DEF mark_failed, Put, RowsIn, Disconnected
  <2>2. IsFiniteSet(Disconnected \cup {cur})
        /\ Cardinality(Disconnected \cup {cur}) <= Cardinality(Disconnected) + 1
        /\ Cardinality(Disconnected \cup {cur}) \in Nat
    <3>1. Cardinality(Disconnected \cup {cur}) =
            IF cur \in Disconnected THEN Cardinality(Disconnected) ELSE Cardinality(Disconnected) + 1
      BY DisconnectedFinite, FS_AddElement
    <3>2. QED
      BY <3>1, DisconnectedFinite, FS_AddElement
  <2>3. Cardinality(Disconnected') <= Cardinality(Disconnected \cup {cur})
        /\ Cardinality(Disconnected') \in Nat
    BY <2>1, <2>2, FS_Subset, FS_CardinalityType
  <2>4. Cardinality(Disconnected) + 1 <= outages
    BY <1>3 DEF OutageInv, Suffers
  <2>5. outages \in Nat /\ Cardinality(Disconnected) \in Nat
    BY DisconnectedFinite, MaxOutagesAssumption DEF TypeInv, TypeOK, BackendTypeOK
  <2>6. Cardinality(Disconnected') <= outages
    BY <2>2, <2>3, <2>4, <2>5
  <2>7. QED
    BY <1>1, <1>2, <2>6 DEF OutageInv
<1>4. CASE cause # "disconnected"
  <2>1. Disconnected' \subseteq Disconnected
    BY <1>1, <1>4 DEF mark_failed, Put, RowsIn, Disconnected
  <2>2. QED
    BY <1>1, <1>2, <2>1, NoCost
<1>5. QED
  BY <1>3, <1>4

LEMMA DrainLoopCost ==
  ASSUME TypeInv, OutageInv, DrainLoop
  PROVE  OutageInv'
<1>1. CASE Fail
  BY <1>1, FailCost
<1>2. CASE Boot
  <2>1. UNCHANGED <<backendVars, hands>> /\ Disconnected' \subseteq Disconnected
    BY <1>2 DEF Boot, reset_running_jobs, Put, RowsIn, Disconnected, NoError
  <2>2. QED
    BY <2>1, NoCost DEF Suffers, backendVars, memory, hands
<1>3. CASE Requeue \/ RequeueFails \/ FailFails
  <2>1. LetGo /\ UNCHANGED <<backendVars, error>>
    BY <1>3 DEF Requeue, requeue, RequeueFails, FailFails, Quiet, rowVars
  <2>2. QED
    BY <2>1, LetGoSuffersNot, NoCost DEF backendVars, memory, Disconnected
<1>4. CASE \/ BootFails \/ WorkerStops \/ fetch_oldest_queued \/ FetchNothing \/ FetchFails
           \/ WakeUp \/ IdleTick \/ Announce \/ Retreat \/ BackoffEnds
  <2>1. UNCHANGED <<backendVars, error, prompt, link, cause>>
    BY <1>4 DEF BootFails, WorkerStops, fetch_oldest_queued, FetchNothing, FetchFails, WakeUp,
                IdleTick, Announce, Retreat, BackoffEnds, Quiet, rowVars, hands
  <2>2. QED
    BY <2>1, NoCost DEF backendVars, memory, Disconnected, Suffers
<1>5. QED
  BY <1>1, <1>2, <1>3, <1>4 DEF DrainLoop

LEMMA ProcessJobCost ==
  ASSUME TypeInv, PromptInv, OutageInv, ProcessJob \/ Progress
  PROVE  OutageInv'
<1>1. UNCHANGED <<error, outages>>
  BY DEF ProcessJob, Progress, Claim, mark_running, ClaimLost, AnnounceClaim, Upload, connect_ws,
         submit_prompt, SubmitReplyLost, Record, update_comfy_prompt_id, AwaitEnds, AwaitFails,
         AwaitTimesOut, InterruptTimedOut, get_history, HistoryFails, view, finalize_output,
         mark_done, Unreachable, LocalFails, CallRefused, CallTimesOut, CallCut, StatementFails, write_progress, GivesUp,
         Quiet, rowVars, backendVars, memory, AcceptPrompt, Interrupt, EndPrompt
<1>2. Suffers' => Suffers
  <2>. USE DEF TypeInv, TypeOK, BackendTypeOK, HandsFull, Suffers, Holding, Calls, Goto, MovesOn,
               GivesUp, backendVars, memory, hands, None, Prompts
  <2>1. CASE Claim \/ AnnounceClaim \/ Upload \/ connect_ws \/ Record \/ Progress \/ AwaitTimesOut
             \/ AwaitEnds \/ get_history \/ view \/ Unreachable
    BY <2>1 DEF Claim, AnnounceClaim, Upload, connect_ws, Record, Progress, AwaitTimesOut,
                AwaitEnds, get_history, view, Unreachable
  <2>2. CASE ClaimLost \/ finalize_output
    BY <2>2, LetGoSuffersNot DEF ClaimLost, finalize_output
  <2>3. CASE submit_prompt
    BY <2>3 DEF submit_prompt, AcceptPrompt, NextPrompt
  <2>4. CASE SubmitReplyLost
    BY <2>4 DEF SubmitReplyLost, AcceptPrompt, NextPrompt
  <2>5. CASE AwaitFails \/ LocalFails \/ CallRefused \/ CallTimesOut \/ CallCut \/ StatementFails
    BY <2>5 DEF AwaitFails, LocalFails, CallRefused, CallTimesOut, CallCut, StatementFails
  <2>6. CASE HistoryFails
    BY <2>6 DEF HistoryFails, PromptInv
  <2>7. CASE InterruptTimedOut
    <3>1. UNCHANGED <<prompt, link>> /\ cause' = "timeout"
      BY <2>7 DEF InterruptTimedOut
    <3>2. pending' \cup {executing'} \cup succeeded' \cup broken' \cup {None} =
            pending \cup {executing} \cup succeeded \cup broken \cup {None}
      BY <2>7 DEF InterruptTimedOut, Interrupt, EndPrompt
    <3>3. QED
      BY <3>1, <3>2
  <2>8. QED
    BY <2>1, <2>2, <2>3, <2>4, <2>5, <2>6, <2>7 DEF ProcessJob
<1>3. QED
  BY <1>1, <1>2, NoCost DEF Disconnected

LEMMA RequestCost ==
  ASSUME TypeInv, OutageInv,
         \/ \E j \in Jobs : submit_job(j) \/ SendWake(j) \/ SubmitDropped(j)
                            \/ delete_job(j) \/ restore_job(j)
         \/ \E c \in Cancels : CancelStep(c) \/ CancelDropped(c)
                               \/ \E j \in Jobs : CancelRunning(c, j)
  PROVE  OutageInv'
<1>1. ASSUME NEW c \in Cancels, CancelInterrupt(c) PROVE OutageInv'
  <2>1. UNCHANGED <<prompt, link, cause, error, outages>>
    BY <1>1 DEF CancelInterrupt, rowVars, Interrupt, EndPrompt, backendVars, memory
  <2>2. pending' \cup {executing'} \cup succeeded' \cup broken' \cup {None} =
          pending \cup {executing} \cup succeeded \cup broken \cup {None}
    BY <1>1 DEF CancelInterrupt, Interrupt, EndPrompt, backendVars, memory
  <2>3. QED
    BY <2>1, <2>2, NoCost DEF Suffers, Disconnected
<1>2. CASE UNCHANGED <<backendVars, at, hands, error>>
  BY <1>2, NoCost DEF backendVars, memory, hands, Suffers, Disconnected
<1>3. QED
  BY <1>1, <1>2, RequestSpares

LEMMA EnvironmentCost ==
  ASSUME TypeInv, OutageInv,
         \/ BackendStarts \/ BackendEnds \/ Outage \/ Silence \/ Recovery
         \/ WarmUp \/ Crash \/ Shutdown \/ Exit \/ Restart
  PROVE  OutageInv'
<1>. USE DEF backendVars, memory, hands, rowVars, Beside
<1>1. CASE Outage
  <2>1. outages' = outages + 1 /\ Disconnected' = Disconnected
    BY <1>1 DEF Outage, GoAway, Disconnected
  <2>2. outages \in Nat /\ Cardinality(Disconnected) \in Nat
    BY DisconnectedFinite, MaxOutagesAssumption DEF TypeInv, TypeOK, BackendTypeOK
  <2>3. Cardinality(Disconnected) <= outages
    BY DEF OutageInv
  <2>4. Cardinality(Disconnected) + 1 <= outages + 1 /\ Cardinality(Disconnected) <= outages + 1
    BY <2>2, <2>3
  <2>5. QED
    BY <2>1, <2>4 DEF OutageInv
<1>2. CASE BackendStarts
  <2>1. Oldest(pending) \in pending
    BY <1>2, OldestIn, NumPromptsAssumption
       DEF BackendStarts, StartPrompt, TypeInv, TypeOK, BackendTypeOK, Prompts
  <2>2. Suffers' => Suffers
    BY <1>2, <2>1 DEF BackendStarts, StartPrompt, Suffers
  <2>3. QED
    BY <1>2, <2>2, NoCost DEF BackendStarts, StartPrompt, Disconnected
<1>3. CASE BackendEnds
  <2>1. UNCHANGED <<prompt, link, cause, error, outages>>
    BY <1>3 DEF BackendEnds, EndPrompt
  <2>2. pending' \cup {executing'} \cup succeeded' \cup broken' \cup {None} =
          pending \cup {executing} \cup succeeded \cup broken \cup {None}
    BY <1>3 DEF BackendEnds, EndPrompt
  <2>3. QED
    BY <2>1, <2>2, NoCost DEF Suffers, Disconnected
<1>4. CASE WarmUp
  BY <1>4, NoCost DEF WarmUp, AcceptPrompt, Disconnected, Suffers
<1>5. CASE Crash \/ Exit
  <2>1. LetGo /\ UNCHANGED <<backendVars, error>>
    BY <1>5 DEF Crash, Exit, Dies
  <2>2. QED
    BY <2>1, LetGoSuffersNot, NoCost DEF Disconnected
<1>6. CASE Silence \/ Recovery \/ Shutdown \/ Restart
  BY <1>6, NoCost DEF Silence, GoSilent, Recovery, ComeBack, Shutdown, Restart, Disconnected, Suffers
<1>7. QED
  BY <1>1, <1>2, <1>3, <1>4, <1>5, <1>6

\* Without a silence of ComfyUI no job meets one.
NoneSilenced == net # "silent" /\ cause # "silence" /\ \A j \in Jobs : error[j] # "silence"
SilenceInv == silences = 0 => NoneSilenced

LEMMA NoSilenceStep ==
  ASSUME TypeInv, [Next]_vars, silences' = 0
  PROVE  silences = 0 /\ ~GoSilent
<1>1. silences \in Nat
  BY MaxOutagesAssumption DEF TypeInv, TypeOK, BackendTypeOK
<1>2. GoSilent => silences' = silences + 1
  BY DEF GoSilent
<1>3. UNCHANGED silences \/ GoSilent
  BY DEF Next, vars, backendVars, MovesOn, GivesUp, Unworked, Cancelling, Beside, Dies,
         DrainLoop, Boot, BootFails, WorkerStops, fetch_oldest_queued, FetchNothing, FetchFails,
         WakeUp, IdleTick, Announce, Requeue, RequeueFails, Retreat, BackoffEnds, Fail, FailFails,
         ProcessJob, Progress, Claim, ClaimLost, AnnounceClaim, Upload, connect_ws, submit_prompt,
         SubmitReplyLost, Record, AwaitEnds, AwaitFails, AwaitTimesOut, InterruptTimedOut,
         get_history, HistoryFails, view, finalize_output, Unreachable, LocalFails, CallRefused,
         CallTimesOut, CallCut, StatementFails, AcceptPrompt, Interrupt, EndPrompt, StartPrompt,
         GoAway, ComeBack, submit_job, SendWake, SubmitDropped, delete_job, restore_job,
         CancelStep, CancelDropped, CancelRunning, CancelQueued, CancelClaimed, CancelAnnounce,
         CancelInterrupt, BackendStarts, BackendEnds, Outage, Silence, Recovery, WarmUp, Crash,
         Shutdown, Exit, Restart
<1>4. QED
  BY <1>1, <1>2, <1>3

\* Only mark_failed writes an error, and it writes the one process_job returned.
LEMMA ErrorIsCause ==
  ASSUME TypeInv, [Next]_vars, NEW j \in Jobs
  PROVE  error'[j] \in {error[j], NoError, cause}
<1>. USE DEF TypeInv, TypeOK, RowsTypeOK, Put
<1>1. CASE Fail
  BY <1>1 DEF Fail, mark_failed
<1>2. CASE Boot
  BY <1>2 DEF Boot, reset_running_jobs
<1>3. ASSUME NEW k \in Jobs, submit_job(k) PROVE error'[j] \in {error[j], NoError, cause}
  BY <1>3 DEF submit_job, insert_job
<1>4. CASE DrainLoop /\ ~Fail /\ ~Boot
  BY <1>4 DEF DrainLoop, BootFails, WorkerStops, fetch_oldest_queued, FetchNothing, FetchFails,
         WakeUp, IdleTick, Announce, Requeue, requeue, RequeueFails, Retreat, BackoffEnds,
         FailFails, Quiet, rowVars
<1>5. CASE ProcessJob \/ Progress
  BY <1>5 DEF ProcessJob, Progress, Claim, mark_running, ClaimLost, AnnounceClaim, Upload,
         connect_ws, submit_prompt, SubmitReplyLost, Record, update_comfy_prompt_id, AwaitEnds,
         AwaitFails, AwaitTimesOut, InterruptTimedOut, get_history, HistoryFails, view,
         finalize_output, mark_done, Unreachable, LocalFails, CallRefused, CallTimesOut, CallCut,
         StatementFails, write_progress, GivesUp, Quiet, rowVars
<1>6. ASSUME NEW k \in Jobs, SendWake(k) \/ SubmitDropped(k) \/ delete_job(k) \/ restore_job(k)
      PROVE  error'[j] \in {error[j], NoError, cause}
  BY <1>6 DEF SendWake, SubmitDropped, delete_job, restore_job, set_deleted, Quiet, rowVars
<1>7. ASSUME NEW c \in Cancels,
             CancelStep(c) \/ CancelDropped(c) \/ \E k \in Jobs : CancelRunning(c, k)
      PROVE  error'[j] \in {error[j], NoError, cause}
  BY <1>7 DEF CancelStep, CancelDropped, CancelRunning, CancelQueued, CancelClaimed,
         CancelAnnounce, CancelInterrupt, cancel_from, Quiet, rowVars
<1>8. CASE \/ BackendStarts \/ BackendEnds \/ Outage \/ Silence \/ Recovery
           \/ WarmUp \/ Crash \/ Shutdown \/ Exit \/ Restart \/ UNCHANGED vars
  BY <1>8 DEF BackendStarts, BackendEnds, Outage, Silence, Recovery, Beside, WarmUp, Crash,
         Shutdown, Exit, Restart, Dies, rowVars, vars
<1>9. QED
  BY <1>1, <1>2, <1>3, <1>4, <1>5, <1>6, <1>7, <1>8 DEF Next

LEMMA CauseIsOwn ==
  ASSUME [Next]_vars, net # "silent"
  PROVE  cause' \in {cause, NoError} \cup (Causes \ {"silence"})
BY DEF Causes, Next, vars, hands, LetGo, MovesOn, GivesUp, Unworked, Cancelling, Beside, Dies,
       DrainLoop, Boot, BootFails, WorkerStops, fetch_oldest_queued, FetchNothing, FetchFails,
       WakeUp, IdleTick, Announce, Requeue, RequeueFails, Retreat, BackoffEnds, Fail, FailFails,
       ProcessJob, Progress, Claim, ClaimLost, AnnounceClaim, Upload, connect_ws, submit_prompt,
       SubmitReplyLost, Record, AwaitEnds, AwaitFails, AwaitTimesOut, InterruptTimedOut,
       get_history, HistoryFails, view, finalize_output, Unreachable, LocalFails, CallRefused,
       CallTimesOut, CallCut, StatementFails, submit_job, SendWake, SubmitDropped, delete_job,
       restore_job, CancelStep, CancelDropped, CancelRunning, CancelQueued, CancelClaimed,
       CancelAnnounce, CancelInterrupt, BackendStarts, BackendEnds, Outage, Silence, Recovery,
       WarmUp, Crash, Shutdown, Exit, Restart

LEMMA NetGoesSilent ==
  ASSUME [Next]_vars, net # "silent", ~GoSilent
  PROVE  net' # "silent"
BY DEF Next, vars, backendVars, MovesOn, GivesUp, Unworked, Cancelling, Beside, Dies,
       DrainLoop, Boot, BootFails, WorkerStops, fetch_oldest_queued, FetchNothing, FetchFails,
       WakeUp, IdleTick, Announce, Requeue, RequeueFails, Retreat, BackoffEnds, Fail, FailFails,
       ProcessJob, Progress, Claim, ClaimLost, AnnounceClaim, Upload, connect_ws, submit_prompt,
       SubmitReplyLost, Record, AwaitEnds, AwaitFails, AwaitTimesOut, InterruptTimedOut,
       get_history, HistoryFails, view, finalize_output, Unreachable, LocalFails, CallRefused,
       CallTimesOut, CallCut, StatementFails, AcceptPrompt, Interrupt, EndPrompt, StartPrompt,
       GoAway, ComeBack, submit_job, SendWake, SubmitDropped, delete_job, restore_job,
       CancelStep, CancelDropped, CancelRunning, CancelQueued, CancelClaimed, CancelAnnounce,
       CancelInterrupt, BackendStarts, BackendEnds, Outage, Silence, Recovery, WarmUp, Crash,
       Shutdown, Exit, Restart

LEMMA SilenceHolds == Spec => []SilenceInv
<1>1. Init => SilenceInv
  BY DEF Init, RowsInit, BackendInit, SilenceInv, NoneSilenced, NoError
<1>2. TypeInv /\ SilenceInv /\ [Next]_vars => SilenceInv'
  <2>. SUFFICES ASSUME TypeInv, SilenceInv, [Next]_vars, silences' = 0 PROVE NoneSilenced'
    BY DEF SilenceInv
  <2>1. ~GoSilent /\ NoneSilenced
    BY NoSilenceStep DEF SilenceInv
  <2>2. net' # "silent"
    BY <2>1, NetGoesSilent DEF NoneSilenced
  <2>3. cause' # "silence"
    BY <2>1, CauseIsOwn DEF NoneSilenced, NoError
  <2>4. \A j \in Jobs : error'[j] # "silence"
    BY <2>1, ErrorIsCause DEF NoneSilenced, NoError
  <2>5. QED
    BY <2>2, <2>3, <2>4 DEF NoneSilenced
<1>3. QED
  BY <1>1, <1>2, TypeCorrect, PTL DEF Spec

\* Every job that fails with a lost connection is paid for by an outage of its
\* own: no outage costs two jobs, however long it lasts; and no job fails by a call
\* that timed out on it unless ComfyUI has hung.
THEOREM OutageIsCheap == Spec => []OutageFailsAtMostOne
<1>1. Init => OutageInv
  <2>. SUFFICES ASSUME Init PROVE OutageInv
    OBVIOUS
  <2>1. Disconnected = {} /\ outages = 0 /\ ~Suffers
    BY DEF Init, RowsInit, BackendInit, Disconnected, Suffers, NoError
  <2>2. QED
    BY <2>1, FS_EmptySet DEF OutageInv
<1>2. TypeInv /\ PromptInv /\ OutageInv /\ [Next]_vars => OutageInv'
  <2>. SUFFICES ASSUME TypeInv, PromptInv, OutageInv, [Next]_vars PROVE OutageInv'
    OBVIOUS
  <2>1. CASE UNCHANGED vars
    BY <2>1, NoCost DEF vars, rowVars, backendVars, memory, hands, Disconnected, Suffers
  <2>2. QED
    BY <2>1, DrainLoopCost, ProcessJobCost, RequestCost, EnvironmentCost DEF Next
<1>3. OutageInv /\ SilenceInv => OutageFailsAtMostOne
  BY DEF OutageInv, Disconnected, SilenceInv, NoneSilenced, OutageFailsAtMostOne
<1>4. QED
  BY <1>1, <1>2, <1>3, TypeCorrect, PromptHolds, SilenceHolds, PTL DEF Spec

-----------------------------------------------------------------------------
(* The wake-up of the worker.                                              *)

\* The jobs a worker that found the queue empty could start: it has been told of
\* them, or will be.
Startable == Fetchable \ abandoned
Told == wake \/ Startable \subseteq sending
WakeInv == at = "idle" /\ restores = 0 => Told

\* A step to a state without a restore is from one, and is no restore.
LEMMA NoRestoreStep ==
  ASSUME TypeInv, [Next]_vars, restores' = 0
  PROVE  restores = 0 /\ \A j \in Jobs : ~restore_job(j)
<1>1. restores \in Nat
  BY BoundsAssumption DEF TypeInv, TypeOK
<1>2. ASSUME NEW j \in Jobs, restore_job(j) PROVE restores' = restores + 1
  BY <1>2 DEF restore_job
<1>3. UNCHANGED restores \/ restores' = restores + 1
  BY DEF Next, vars, requestVars, Aside, MovesOn, GivesUp, Unworked, Cancelling, Beside, Dies,
         DrainLoop, Boot, BootFails, WorkerStops, fetch_oldest_queued, FetchNothing, FetchFails,
         WakeUp, IdleTick, Announce, Requeue, RequeueFails, Retreat, BackoffEnds, Fail, FailFails,
         ProcessJob, Progress, Claim, ClaimLost, AnnounceClaim, Upload, connect_ws, submit_prompt,
         SubmitReplyLost, Record, AwaitEnds, AwaitFails, AwaitTimesOut, InterruptTimedOut,
         get_history, HistoryFails, view, finalize_output, Unreachable, LocalFails, CallRefused,
         CallTimesOut, CallCut, StatementFails, submit_job, SendWake, SubmitDropped, delete_job,
         restore_job, CancelStep, CancelDropped, CancelRunning, CancelQueued, CancelClaimed,
         CancelAnnounce, CancelInterrupt,
         BackendStarts, BackendEnds, Outage, Silence, Recovery, WarmUp, Crash, Shutdown, Exit, Restart
<1>4. QED
  BY <1>1, <1>2, <1>3

LEMMA RequestTold ==
  ASSUME TypeInv, Told, \A j \in Jobs : ~restore_job(j),
         \/ \E j \in Jobs : submit_job(j) \/ SendWake(j) \/ SubmitDropped(j)
                            \/ delete_job(j) \/ restore_job(j)
         \/ \E c \in Cancels : CancelStep(c) \/ CancelDropped(c)
                               \/ \E j \in Jobs : CancelRunning(c, j)
  PROVE  Told'
<1>. USE DEF TypeInv, TypeOK, RowsTypeOK, Told, Startable, Fetchable, Quiet, rowVars, Put, RowsIn
<1>1. ASSUME NEW j \in Jobs, submit_job(j) PROVE Told'
  BY <1>1 DEF submit_job, insert_job
<1>2. ASSUME NEW j \in Jobs, SendWake(j) PROVE Told'
  BY <1>2 DEF SendWake
<1>3. ASSUME NEW j \in Jobs, SubmitDropped(j) PROVE Told'
  BY <1>3 DEF SubmitDropped, Abandon
<1>4. ASSUME NEW j \in Jobs, delete_job(j) PROVE Told'
  BY <1>4 DEF delete_job, set_deleted, requestVars
<1>5. ASSUME NEW c \in Cancels, CancelDropped(c) PROVE Told'
  BY <1>5 DEF CancelDropped, Abandon
<1>6. ASSUME NEW c \in Cancels, CancelStep(c) PROVE Told'
  BY <1>6 DEF CancelStep, CancelQueued, CancelClaimed, CancelInterrupt, CancelAnnounce, cancel_from,
              Cancelling
<1>7. ASSUME NEW c \in Cancels, NEW j \in Jobs, CancelRunning(c, j) PROVE Told'
  BY <1>7 DEF CancelRunning, cancel_from, Cancelling
<1>8. QED
  BY <1>1, <1>2, <1>3, <1>4, <1>5, <1>6, <1>7

LEMMA IdleTold ==
  ASSUME TypeInv, [Next]_vars, \A j \in Jobs : ~restore_job(j), at = "idle" => Told, at' = "idle"
  PROVE  Told'
<1>1. ASSUME DrainLoop PROVE FetchNothing
  BY <1>1 DEF DrainLoop, Goto, Boot, BootFails, WorkerStops, fetch_oldest_queued,
        FetchFails, WakeUp, IdleTick, Announce, Requeue, RequeueFails, Retreat, BackoffEnds, Fail, FailFails
<1>2. ~(ProcessJob \/ Progress)
  BY DEF ProcessJob, Progress, Goto, MovesOn, GivesUp, Claim, ClaimLost, AnnounceClaim, Upload,
        connect_ws, submit_prompt, SubmitReplyLost, Record, AwaitEnds, AwaitFails, AwaitTimesOut,
        InterruptTimedOut, get_history, HistoryFails, view, finalize_output, Unreachable,
        LocalFails, CallRefused, CallTimesOut, CallCut, StatementFails
<1>3. CASE FetchNothing
  <2>1. Fetchable' = Fetchable /\ Fetchable = {}
    BY <1>3 DEF FetchNothing, Quiet, rowVars, Fetchable
  <2>2. QED
    BY <2>1 DEF Told, Startable
<1>4. CASE \/ \E j \in Jobs : submit_job(j) \/ SendWake(j) \/ SubmitDropped(j)
                              \/ delete_job(j) \/ restore_job(j)
           \/ \E c \in Cancels : CancelStep(c) \/ CancelDropped(c)
                                 \/ \E j \in Jobs : CancelRunning(c, j)
  <2>1. at = "idle"
    BY <1>4, RequestSpares DEF CancelInterrupt
  <2>2. QED
    BY <1>4, <2>1, RequestTold
<1>5. CASE \/ BackendStarts \/ BackendEnds \/ Outage \/ Silence \/ Recovery
           \/ WarmUp \/ Crash \/ Shutdown \/ Exit \/ Restart \/ UNCHANGED vars
  <2>1. UNCHANGED <<at, rowVars, wake, sending, abandoned>>
    BY <1>5 DEF BackendStarts, BackendEnds, Outage, Silence, Recovery, Beside, WarmUp, Crash, Shutdown,
        Exit, Restart, Dies, Goto, requestVars, vars
  <2>2. QED
    BY <2>1 DEF Told, Startable, Fetchable, rowVars
<1>6. QED
  BY <1>1, <1>2, <1>3, <1>4, <1>5 DEF Next

\* A worker that found the queue empty does not wait beside a job it could start and
\* was not told of: for any number of submits, the one slot of the channel is enough.
THEOREM WakeIsNotLost == Spec => []NoWakeLost
<1>1. Init => WakeInv
  BY DEF Init, WakeInv
<1>2. TypeInv /\ WakeInv /\ [Next]_vars => WakeInv'
  <2>. SUFFICES ASSUME TypeInv, WakeInv, [Next]_vars, at' = "idle", restores' = 0 PROVE Told'
    BY DEF WakeInv
  <2>1. restores = 0 /\ \A j \in Jobs : ~restore_job(j)
    BY NoRestoreStep
  <2>2. QED
    BY <2>1, IdleTold DEF WakeInv
<1>3. WakeInv => NoWakeLost
  BY DEF WakeInv, Told, Startable, NoWakeLost
<1>4. QED
  BY <1>1, <1>2, <1>3, TypeCorrect, PTL DEF Spec

-----------------------------------------------------------------------------
(* The announcements: the safety behind EveryChangeIsAnnounced.            *)

\* A change nobody has been told of is owed a notify: the worker is on its way to
\* one, or the request that made the change is; or the job is on the queue (a boot
\* put it back), where its claim will be told; or its request was dropped.
Notifying == {"claimed", "announce", "retreat"}
Owed(j) ==
  \/ at \in Notifying
  \/ \E c \in Cancels : target[c] = j /\ cancel[c] \in {"interrupt", "announce"}
  \/ j \in Fetchable
  \/ j \in abandoned
ChangesAreOwed == \A j \in unannounced : Owed(j)

\* Who writes no row, and leaves no place a notify follows, owes what was owed.
LEMMA OwedStays ==
  ASSUME ChangesAreOwed, Quiet, at \in Notifying => at' \in Notifying,
         UNCHANGED <<cancel, target, abandoned>>
  PROVE  ChangesAreOwed'
  BY DEF ChangesAreOwed, Owed, Quiet, rowVars, Fetchable

\* The worker notifies after every write of its own.
LEMMA WorkerOwes ==
  ASSUME ChangesAreOwed, at' \in Notifying
  PROVE  ChangesAreOwed'
  BY DEF ChangesAreOwed, Owed

LEMMA NotifyPays ==
  ASSUME notify_job_change
  PROVE  ChangesAreOwed'
  BY DEF notify_job_change, ChangesAreOwed

LEMMA DrainLoopOwes ==
  ASSUME TypeInv, ChangesAreOwed, DrainLoop
  PROVE  ChangesAreOwed'
<1>. USE DEF Goto, Aside, requestVars, Notifying
<1>1. CASE Boot
  <2>1. UNCHANGED <<cancel, target, abandoned, deleted>> /\ at = "boot"
    BY <1>1 DEF Boot, reset_running_jobs
  <2>2. status' = [j \in Jobs |-> IF status[j] = "running" THEN "queued" ELSE status[j]]
    BY <1>1 DEF Boot, reset_running_jobs, Put, RowsIn
  <2>3. Fetchable \subseteq Fetchable' /\ Changed \subseteq Fetchable'
    BY <2>1, <2>2 DEF Fetchable, Changed
  <2>4. unannounced' = unannounced \cup Changed
    BY <1>1 DEF Boot, Silently
  <2>5. QED
    BY <2>1, <2>3, <2>4 DEF ChangesAreOwed, Owed
<1>2. CASE Announce \/ Retreat
  BY <1>2, NotifyPays DEF Announce, Retreat
<1>3. CASE Requeue \/ RequeueFails \/ Fail \/ FailFails
  BY <1>3, WorkerOwes DEF Requeue, RequeueFails, Fail, FailFails
<1>4. CASE \/ BootFails \/ WorkerStops \/ fetch_oldest_queued \/ FetchNothing \/ FetchFails
           \/ IdleTick \/ BackoffEnds
  BY <1>4, OwedStays DEF BootFails, WorkerStops, fetch_oldest_queued, FetchNothing, FetchFails,
                         IdleTick, BackoffEnds, Waiting
<1>5. CASE WakeUp
  BY <1>5, OwedStays DEF WakeUp, Waiting
<1>6. QED
  BY <1>1, <1>2, <1>3, <1>4, <1>5 DEF DrainLoop

LEMMA ProcessJobOwes ==
  ASSUME TypeInv, ChangesAreOwed, ProcessJob \/ Progress
  PROVE  ChangesAreOwed'
<1>. USE DEF Goto, Aside, requestVars, Notifying, Calls
<1>1. CASE Claim \/ ClaimLost \/ finalize_output
  BY <1>1, WorkerOwes DEF Claim, MovesOn, ClaimLost, finalize_output
<1>2. CASE AnnounceClaim \/ Progress
  BY <1>2, NotifyPays DEF AnnounceClaim, Progress
<1>3. CASE Upload \/ connect_ws \/ submit_prompt \/ AwaitEnds \/ AwaitTimesOut \/ get_history \/ view
  BY <1>3, OwedStays DEF Upload, connect_ws, submit_prompt, AwaitEnds, AwaitTimesOut, get_history,
                         view, MovesOn
<1>4. CASE \/ SubmitReplyLost \/ AwaitFails \/ InterruptTimedOut \/ HistoryFails \/ LocalFails
           \/ CallRefused \/ CallTimesOut
           \/ CallCut \/ StatementFails
  BY <1>4, OwedStays DEF SubmitReplyLost, AwaitFails, InterruptTimedOut, HistoryFails, LocalFails,
                         CallRefused, CallTimesOut,
                         CallCut, StatementFails, GivesUp
<1>5. CASE Unreachable
  BY <1>5, OwedStays DEF Unreachable
<1>6. CASE Record
  <2>1. UNCHANGED <<status, deleted, unannounced, cancel, target, abandoned>> /\ at = "record"
    BY <1>6 DEF Record, MovesOn, update_comfy_prompt_id
  <2>2. QED
    BY <2>1 DEF ChangesAreOwed, Owed, Fetchable
<1>7. QED
  BY <1>1, <1>2, <1>3, <1>4, <1>5, <1>6 DEF ProcessJob

\* The UPDATE of a cancel that hits a row leaves that request a notify to send.
LEMMA CancelOwes ==
  ASSUME TypeInv, ChangesAreOwed, NEW c \in Cancels, NEW j \in Jobs, NEW st,
         cancel_from(j, st), Silently, UNCHANGED <<at, abandoned>>,
         target' = [target EXCEPT ![c] = j],
         cancel[c] \notin {"interrupt", "announce"},
         NEW l \in CancelAt, CancelGoto(c, l),
         status[j] = st => l \in {"interrupt", "announce"}
  PROVE  ChangesAreOwed'
<1>1. cancel \in [Cancels -> CancelAt] /\ target \in [Cancels -> Jobs \cup {None}]
  BY DEF TypeInv, TypeOK
<1>2. /\ target'[c] = j /\ cancel'[c] = l
      /\ \A d \in Cancels \ {c} : target'[d] = target[d] /\ cancel'[d] = cancel[d]
  BY <1>1 DEF CancelGoto
<1>3. /\ deleted' = deleted
      /\ \A k \in Jobs : k # j \/ status[j] # st => status'[k] = status[k]
  BY DEF cancel_from, Put, RowsIn
<1>4. unannounced' = unannounced \cup Changed /\ unannounced \subseteq Jobs
  BY DEF Silently, TypeInv, TypeOK
<1>5. ASSUME NEW k \in unannounced' PROVE Owed(k)'
  <2>1. CASE k = j /\ status[j] = st
    BY <1>2, <2>1 DEF Owed
  <2>2. CASE ~(k = j /\ status[j] = st)
    <3>1. k \in Jobs /\ status'[k] = status[k]
      BY <1>3, <1>4, <2>2 DEF Changed
    <3>2. k \in unannounced
      BY <1>4, <3>1 DEF Changed
    <3>3. k \in Fetchable => k \in Fetchable'
      BY <1>3, <3>1 DEF Fetchable
    <3>4. ASSUME NEW d \in Cancels, target[d] = k, cancel[d] \in {"interrupt", "announce"}
          PROVE  target'[d] = k /\ cancel'[d] \in {"interrupt", "announce"}
      BY <1>2, <3>4
    <3>5. QED
      BY <3>2, <3>3, <3>4 DEF ChangesAreOwed, Owed
  <2>3. QED
    BY <2>1, <2>2
<1>6. QED
  BY <1>5 DEF ChangesAreOwed

LEMMA RequestOwes ==
  ASSUME TypeInv, ChangesAreOwed,
         \/ \E j \in Jobs : submit_job(j) \/ SendWake(j) \/ SubmitDropped(j)
                            \/ delete_job(j) \/ restore_job(j)
         \/ \E c \in Cancels : CancelStep(c) \/ CancelDropped(c)
                               \/ \E j \in Jobs : CancelRunning(c, j)
  PROVE  ChangesAreOwed'
<1>. USE DEF Unworked, Cancelling
<1>0. cancel \in [Cancels -> CancelAt] /\ target \in [Cancels -> Jobs \cup {None}]
  BY DEF TypeInv, TypeOK
<1>1. ASSUME NEW j \in Jobs, submit_job(j) PROVE ChangesAreOwed'
  <2>1. UNCHANGED <<at, cancel, target, abandoned, deleted>> /\ status[j] = "absent"
    BY <1>1 DEF submit_job, insert_job
  <2>2. \A k \in Jobs : k # j => status'[k] = status[k]
    BY <1>1 DEF submit_job, insert_job, Put
  <2>3. Changed = {} /\ Fetchable \subseteq Fetchable'
    BY <2>1, <2>2 DEF Changed, Fetchable
  <2>4. unannounced' = unannounced
    BY <1>1, <2>3 DEF submit_job, Silently
  <2>5. QED
    BY <2>1, <2>3, <2>4 DEF ChangesAreOwed, Owed
<1>2. ASSUME NEW j \in Jobs, SendWake(j) PROVE ChangesAreOwed'
  BY <1>2, OwedStays DEF SendWake
<1>3. ASSUME NEW j \in Jobs, SubmitDropped(j) PROVE ChangesAreOwed'
  BY <1>3 DEF SubmitDropped, Abandon, Quiet, rowVars, ChangesAreOwed, Owed, Fetchable
<1>4. ASSUME NEW j \in Jobs, delete_job(j) \/ restore_job(j) PROVE ChangesAreOwed'
  BY <1>4, NotifyPays DEF delete_job, restore_job
<1>5. ASSUME NEW c \in Cancels, NEW j \in Jobs, CancelRunning(c, j) PROVE ChangesAreOwed'
  BY <1>5, CancelOwes DEF CancelRunning, CancelAt
<1>6. ASSUME NEW c \in Cancels, CancelQueued(c) PROVE ChangesAreOwed'
  <2>1. target[c] \in Jobs /\ target' = [target EXCEPT ![c] = target[c]]
    BY <1>0, <1>6 DEF CancelQueued, TypeInv, CancelNamesJob
  <2>2. QED
    BY <1>6, <2>1, CancelOwes DEF CancelQueued, CancelAt
<1>7. ASSUME NEW c \in Cancels, CancelClaimed(c) PROVE ChangesAreOwed'
  <2>1. target[c] \in Jobs /\ target' = [target EXCEPT ![c] = target[c]]
    BY <1>0, <1>7 DEF CancelClaimed, TypeInv, CancelNamesJob
  <2>2. QED
    BY <1>7, <2>1, CancelOwes DEF CancelClaimed, CancelAt
<1>8. ASSUME NEW c \in Cancels, CancelInterrupt(c) PROVE ChangesAreOwed'
  <2>1. UNCHANGED <<rowVars, at, target, abandoned, unannounced>>
    BY <1>8 DEF CancelInterrupt
  <2>2. cancel' = [cancel EXCEPT ![c] = "announce"]
    BY <1>8 DEF CancelInterrupt, CancelGoto
  <2>3. \A d \in Cancels : cancel[d] \in {"interrupt", "announce"}
                             => cancel'[d] \in {"interrupt", "announce"}
    BY <1>0, <2>2
  <2>4. QED
    BY <2>1, <2>3 DEF ChangesAreOwed, Owed, Fetchable, rowVars
<1>9. ASSUME NEW c \in Cancels, CancelAnnounce(c) PROVE ChangesAreOwed'
  BY <1>9, NotifyPays DEF CancelAnnounce
<1>10. ASSUME NEW c \in Cancels, CancelDropped(c) PROVE ChangesAreOwed'
  <2>1. UNCHANGED <<rowVars, at, target, unannounced>> /\ abandoned' = abandoned \cup {target[c]}
    BY <1>10 DEF CancelDropped, Abandon, Quiet
  <2>2. \A d \in Cancels \ {c} : cancel'[d] = cancel[d]
    BY <1>0, <1>10 DEF CancelDropped, CancelGoto
  <2>3. QED
    BY <2>1, <2>2 DEF ChangesAreOwed, Owed, Fetchable, rowVars
<1>11. QED
  BY <1>1, <1>2, <1>3, <1>4, <1>5, <1>6, <1>7, <1>8, <1>9, <1>10 DEF CancelStep

LEMMA EnvironmentOwes ==
  ASSUME TypeInv, ChangesAreOwed,
         \/ BackendStarts \/ BackendEnds \/ Outage \/ Silence \/ Recovery
         \/ WarmUp \/ Crash \/ Shutdown \/ Exit \/ Restart \/ UNCHANGED vars
  PROVE  ChangesAreOwed'
<1>1. CASE BackendStarts \/ BackendEnds \/ Outage \/ Silence \/ Recovery
  BY <1>1, OwedStays DEF BackendStarts, BackendEnds, Outage, Silence, Recovery, Beside, requestVars, Quiet
<1>2. CASE WarmUp \/ Shutdown \/ UNCHANGED vars
  BY <1>2, OwedStays DEF WarmUp, Shutdown, vars, requestVars, Quiet
<1>3. CASE Restart
  BY <1>3, OwedStays DEF Restart, Goto, requestVars, Quiet, Notifying
<1>4. CASE Crash \/ Exit
  BY <1>4 DEF Crash, Exit, Dies, ChangesAreOwed
<1>5. QED
  BY <1>1, <1>2, <1>3, <1>4

\* No change of a job's status is forgotten: until the long-polls are told of it,
\* a notify is on its way, whatever crashes, dropped requests and failing
\* statements there are.  What is left to fairness is that the one who owes it runs.
THEOREM ChangesAreTold == Spec => []ChangesAreOwed
<1>1. Init => ChangesAreOwed
  BY DEF Init, ChangesAreOwed
<1>2. TypeInv /\ ChangesAreOwed /\ [Next]_vars => ChangesAreOwed'
  BY DrainLoopOwes, ProcessJobOwes, RequestOwes, EnvironmentOwes DEF Next
<1>3. QED
  BY <1>1, <1>2, TypeCorrect, PTL DEF Spec

-----------------------------------------------------------------------------
(* JobServer implements JobLifecycle, and what follows from every step     *)
(* being one statement of the jobs table: the action properties.           *)

\* Every write of the jobs table is one of these statements, on one job.
Statement ==
  \/ UNCHANGED rowVars
  \/ reset_running_jobs
  \/ \E j \in Jobs :
       \/ insert_job(j) \/ mark_running(j) \/ write_progress(j, 1) \/ requeue(j)
       \/ \E p \in Prompts : update_comfy_prompt_id(j, p) \/ mark_done(j, p)
       \/ \E c \in Causes \cup {NoError} : mark_failed(j, c)
       \/ cancel_from(j, "running") \/ cancel_from(j, "queued")
       \/ set_deleted(j, TRUE) \/ set_deleted(j, FALSE)

LEMMA DrainLoopStatement ==
  ASSUME TypeInv, DrainLoop
  PROVE  Statement
<1>1. CASE Boot
  BY <1>1 DEF Boot, Statement
<1>2. CASE Requeue
  BY <1>2 DEF Requeue, Statement, TypeInv, HandsFull, Busy
<1>3. CASE Fail
  BY <1>3 DEF Fail, Statement, TypeInv, TypeOK, HandsFull, Busy
<1>4. CASE Announce \/ Retreat
  BY <1>4 DEF Announce, Retreat, Statement
<1>5. CASE BootFails \/ WorkerStops \/ fetch_oldest_queued \/ FetchNothing \/ FetchFails
           \/ WakeUp \/ IdleTick \/ RequeueFails \/ BackoffEnds \/ FailFails
  <2>1. Quiet
    BY <1>5 DEF BootFails, WorkerStops, fetch_oldest_queued, FetchNothing, FetchFails,
                WakeUp, IdleTick, RequeueFails, BackoffEnds, FailFails
  <2>2. QED
    BY <2>1 DEF Quiet, Statement
<1>6. QED
  BY <1>1, <1>2, <1>3, <1>4, <1>5 DEF DrainLoop

LEMMA ProcessJobStatement ==
  ASSUME TypeInv, ProcessJob \/ Progress
  PROVE  Statement
<1>. USE DEF TypeInv, HandsFull, Busy, Calls, Holding
<1>1. CASE Claim
  BY <1>1 DEF Claim, MovesOn, Statement
<1>2. CASE Record
  BY <1>2 DEF Record, MovesOn, Statement
<1>3. CASE finalize_output
  BY <1>3 DEF finalize_output, Statement
<1>4. CASE Progress
  BY <1>4 DEF Progress, MovesOn, Statement
<1>5. CASE AnnounceClaim
  BY <1>5 DEF AnnounceClaim, Statement
<1>6. CASE ClaimLost \/ Upload \/ connect_ws \/ submit_prompt \/ SubmitReplyLost
           \/ AwaitEnds \/ AwaitFails \/ AwaitTimesOut \/ InterruptTimedOut
           \/ get_history \/ HistoryFails \/ view
           \/ Unreachable \/ LocalFails \/ CallRefused \/ CallTimesOut \/ CallCut \/ StatementFails
  <2>1. Quiet
    BY <1>6 DEF ClaimLost, Upload, connect_ws, submit_prompt, SubmitReplyLost, AwaitEnds,
                AwaitFails, AwaitTimesOut, InterruptTimedOut, get_history, HistoryFails,
                view, Unreachable, LocalFails, CallRefused, CallTimesOut, CallCut, StatementFails, GivesUp
  <2>2. QED
    BY <2>1 DEF Quiet, Statement
<1>7. QED
  BY <1>1, <1>2, <1>3, <1>4, <1>5, <1>6 DEF ProcessJob

LEMMA RequestStatement ==
  ASSUME TypeInv,
         \/ \E j \in Jobs : submit_job(j) \/ SendWake(j) \/ SubmitDropped(j)
                            \/ delete_job(j) \/ restore_job(j)
         \/ \E c \in Cancels : CancelStep(c) \/ CancelDropped(c)
                               \/ \E j \in Jobs : CancelRunning(c, j)
  PROVE  Statement
<1>1. ASSUME NEW j \in Jobs, submit_job(j) PROVE Statement
  BY <1>1 DEF submit_job, Statement
<1>2. ASSUME NEW j \in Jobs, SendWake(j) PROVE Statement
  BY <1>2 DEF SendWake, Quiet, Statement
<1>3. ASSUME NEW j \in Jobs, delete_job(j) \/ restore_job(j) PROVE Statement
  BY <1>3 DEF delete_job, restore_job, Statement
<1>4. ASSUME NEW c \in Cancels, NEW j \in Jobs, CancelRunning(c, j) PROVE Statement
  BY <1>4 DEF CancelRunning, Statement
<1>5. ASSUME NEW c \in Cancels, CancelQueued(c) \/ CancelClaimed(c) PROVE Statement
  <2>1. target[c] \in Jobs
    BY <1>5 DEF CancelQueued, CancelClaimed, TypeInv, CancelNamesJob
  <2>2. QED
    BY <1>5, <2>1 DEF CancelQueued, CancelClaimed, Statement
<1>6. ASSUME NEW c \in Cancels, CancelInterrupt(c) \/ CancelAnnounce(c) PROVE Statement
  BY <1>6 DEF CancelInterrupt, CancelAnnounce, Statement, rowVars
<1>7. ASSUME NEW j \in Jobs, SubmitDropped(j) PROVE Statement
  BY <1>7 DEF SubmitDropped, Quiet, Statement
<1>8. ASSUME NEW c \in Cancels, CancelDropped(c) PROVE Statement
  BY <1>8 DEF CancelDropped, Quiet, Statement
<1>9. QED
  BY <1>1, <1>2, <1>3, <1>4, <1>5, <1>6, <1>7, <1>8 DEF CancelStep

LEMMA EnvironmentStatement ==
  ASSUME \/ BackendStarts \/ BackendEnds \/ Outage \/ Silence \/ Recovery
         \/ WarmUp \/ Crash \/ Shutdown \/ Exit \/ Restart
         \/ UNCHANGED vars
  PROVE  Statement
  BY DEF BackendStarts, BackendEnds, Outage, Silence, Recovery, Beside, WarmUp, Crash, Shutdown, Exit,
         Dies, Restart, vars, rowVars, Statement

LEMMA StepIsStatement ==
  ASSUME TypeInv, [Next]_vars
  PROVE  Statement
  BY DrainLoopStatement, ProcessJobStatement, RequestStatement, EnvironmentStatement DEF Next

-----------------------------------------------------------------------------
\* What one statement does to a row that is final, or deleted.
LEMMA StatementSparesFinal ==
  ASSUME RowsTypeOK, Statement, NEW j \in Jobs, status[j] \in Terminal
  PROVE  status'[j] = status[j] /\ output'[j] = output[j] /\ error'[j] = error[j]
  BY DEF RowsTypeOK, Statement, Terminal, Put, RowsIn, rowVars, reset_running_jobs, insert_job,
         mark_running, Claimable, write_progress, requeue, update_comfy_prompt_id, mark_done,
         mark_failed, cancel_from, set_deleted

LEMMA StatementSparesDeleted ==
  ASSUME RowsTypeOK, Statement, NEW j \in Jobs, deleted[j], status[j] = "queued"
  PROVE  status'[j] # "running"
  BY DEF RowsTypeOK, Statement, Put, RowsIn, rowVars, reset_running_jobs, insert_job,
         mark_running, Claimable, write_progress, requeue, update_comfy_prompt_id, mark_done,
         mark_failed, cancel_from, set_deleted

\* No step of anyone changes the outcome of a job that is done, failed or cancelled.
THEOREM FinalIsFinal == Spec => TerminalIsFinal
<1>1. TypeInv /\ [Next]_vars =>
        [\A j \in Jobs : status[j] \in Terminal =>
           status'[j] = status[j] /\ output'[j] = output[j] /\ error'[j] = error[j]]_vars
  BY StepIsStatement, StatementSparesFinal DEF TypeInv, TypeOK
<1>2. QED
  BY TypeCorrect, <1>1, PTL DEF Spec, TerminalIsFinal

\* No step starts a job its client has deleted.
THEOREM DeletedStaysIdle == Spec => DeletedNeverStarts
<1>1. TypeInv /\ [Next]_vars =>
        [\A j \in Jobs : deleted[j] /\ status[j] = "queued" => status'[j] # "running"]_vars
  BY StepIsStatement, StatementSparesDeleted DEF TypeInv, TypeOK
<1>2. QED
  BY TypeCorrect, <1>1, PTL DEF Spec, DeletedNeverStarts

-----------------------------------------------------------------------------
(* Refinement: statement by statement, a row moves as JobLifecycle allows. *)

LStep == [Lifecycle!Next]_(Lifecycle!vars)

LEMMA CloseMaps ==
  ASSUME RowsTypeOK, UNCHANGED stranded, NEW j \in Jobs,
         \/ \E p \in Prompts : mark_done(j, p)
         \/ \E c \in Causes \cup {NoError} : mark_failed(j, c)
         \/ requeue(j)
         \/ cancel_from(j, "running") \/ cancel_from(j, "queued")
  PROVE  LStep
<1>. USE DEF RowsTypeOK, LStep, Lifecycle!Next, Lifecycle!vars, Lifecycle!Becomes, Put, RowsIn
<1>1. ASSUME NEW p \in Prompts, mark_done(j, p) PROVE LStep
  <2>1. CASE status[j] = "running"
    <3>1. Lifecycle!Finish(j, p)
      BY <1>1, <2>1 DEF mark_done, Lifecycle!Finish
    <3>2. QED
      BY <3>1
  <2>2. CASE status[j] # "running"
    BY <1>1, <2>2 DEF mark_done
  <2>3. QED
    BY <2>1, <2>2
<1>2. ASSUME NEW c \in Causes \cup {NoError}, mark_failed(j, c) PROVE LStep
  <2>1. CASE status[j] = "running"
    <3>1. Lifecycle!Fail(j)
      BY <1>2, <2>1 DEF mark_failed, Lifecycle!Fail
    <3>2. QED
      BY <3>1
  <2>2. CASE status[j] # "running"
    BY <1>2, <2>2 DEF mark_failed
  <2>3. QED
    BY <2>1, <2>2
<1>3. CASE requeue(j)
  <2>1. CASE status[j] = "running"
    <3>1. Lifecycle!Retry(j)
      BY <1>3, <2>1 DEF requeue, Lifecycle!Retry
    <3>2. QED
      BY <3>1
  <2>2. CASE status[j] # "running"
    BY <1>3, <2>2 DEF requeue
  <2>3. QED
    BY <2>1, <2>2
<1>4. ASSUME NEW st \in {"running", "queued"}, cancel_from(j, st) PROVE LStep
  <2>1. CASE status[j] = st
    <3>1. Lifecycle!Cancel(j)
      BY <1>4, <2>1 DEF cancel_from, Lifecycle!Cancel
    <3>2. QED
      BY <3>1
  <2>2. CASE status[j] # st
    BY <1>4, <2>2 DEF cancel_from
  <2>3. QED
    BY <2>1, <2>2
<1>5. QED
  BY <1>1, <1>2, <1>3, <1>4

\* A step that writes no row and strands none is a stutter; so is one that
\* writes only columns the lifecycle does not have.
LEMMA StutterMaps ==
  ASSUME UNCHANGED <<status, deleted, output, stranded>>
  PROVE  LStep
  BY DEF LStep, Lifecycle!vars

LEMMA StrandMaps ==
  ASSUME UNCHANGED <<status, deleted, output>>, MaxDbFaults > 0, stranded' \subseteq Jobs
  PROVE  LStep
<1>1. Lifecycle!Lose
  BY DEF Lifecycle!Lose
<1>2. QED
  BY <1>1 DEF LStep, Lifecycle!Next

LEMMA DrainLoopMaps ==
  ASSUME TypeInv, IInv, DrainLoop
  PROVE  LStep
<1>. USE DEF TypeInv, TypeOK, HandsFull, Busy, Quiet, Sound, faultVars, rowVars
<1>1. CASE Boot
  <2>1. Lifecycle!Recover
    BY <1>1 DEF Boot, reset_running_jobs, Put, RowsIn, Lifecycle!Recover, Lifecycle!Running
  <2>2. QED
    BY <2>1 DEF LStep, Lifecycle!Next
<1>2. CASE Requeue
  BY <1>2, CloseMaps DEF Requeue
<1>3. CASE Fail
  BY <1>3, CloseMaps DEF Fail
<1>4. CASE BootFails \/ RequeueFails \/ FailFails
  <2>1. MaxDbFaults > 0
    BY <1>4, BoundsAssumption DEF BootFails, RequeueFails, FailFails, DbFault
  <2>2. stranded' \subseteq Jobs
    BY <1>4 DEF BootFails, RequeueFails, FailFails, RowsIn
  <2>3. UNCHANGED <<status, deleted, output>>
    BY <1>4 DEF BootFails, RequeueFails, FailFails
  <2>4. QED
    BY <2>1, <2>2, <2>3, StrandMaps
<1>5. CASE WorkerStops \/ fetch_oldest_queued \/ FetchNothing \/ FetchFails
           \/ WakeUp \/ IdleTick \/ Announce \/ Retreat \/ BackoffEnds
  BY <1>5, StutterMaps DEF WorkerStops, fetch_oldest_queued, FetchNothing, FetchFails,
     WakeUp, IdleTick, Announce, Retreat, BackoffEnds
<1>6. QED
  BY <1>1, <1>2, <1>3, <1>4, <1>5 DEF DrainLoop

LEMMA ProcessJobMaps ==
  ASSUME TypeInv, IInv, ProcessJob \/ Progress
  PROVE  LStep
<1>. USE DEF TypeInv, TypeOK, HandsFull, Busy, Calls, Holding, Quiet, Sound, faultVars, rowVars,
             MovesOn, GivesUp
<1>1. CASE Claim
  <2>1. Lifecycle!Running \subseteq stranded
    BY <1>1 DEF Claim, IInv, RunningIsHeld, Lifecycle!Running
  <2>2. cur \in Jobs /\ status[cur] = "queued" /\ ~deleted[cur]
    BY <1>1 DEF Claim, Claimable
  <2>3. Lifecycle!Start(cur)
    BY <1>1, <2>1, <2>2 DEF Claim, mark_running, Claimable, Put, RowsTypeOK,
       Lifecycle!Start, Lifecycle!Becomes
  <2>4. QED
    BY <2>2, <2>3 DEF LStep, Lifecycle!Next
<1>2. CASE finalize_output
  BY <1>2, CloseMaps DEF finalize_output
<1>3. CASE Record \/ Progress
  BY <1>3, StutterMaps DEF Record, Progress, update_comfy_prompt_id, write_progress
<1>4. CASE ClaimLost \/ AnnounceClaim \/ Upload \/ connect_ws \/ submit_prompt
           \/ SubmitReplyLost \/ AwaitEnds \/ AwaitFails \/ AwaitTimesOut \/ InterruptTimedOut
           \/ get_history \/ HistoryFails \/ view
           \/ Unreachable \/ LocalFails \/ CallRefused \/ CallTimesOut \/ CallCut \/ StatementFails
  <2>1. UNCHANGED <<status, deleted, output, stranded>>
    BY <1>4 DEF ClaimLost, AnnounceClaim, Upload, connect_ws, submit_prompt,
       SubmitReplyLost, AwaitEnds, AwaitFails, AwaitTimesOut, InterruptTimedOut, get_history,
       HistoryFails, view, Unreachable, LocalFails, CallRefused, CallTimesOut, CallCut, StatementFails
  <2>2. QED
    BY <2>1, StutterMaps
<1>5. QED
  BY <1>1, <1>2, <1>3, <1>4 DEF ProcessJob

LEMMA RequestMaps ==
  ASSUME TypeInv, IInv,
         \/ \E j \in Jobs : submit_job(j) \/ SendWake(j) \/ SubmitDropped(j)
                            \/ delete_job(j) \/ restore_job(j)
         \/ \E c \in Cancels : CancelStep(c) \/ CancelDropped(c)
                               \/ \E j \in Jobs : CancelRunning(c, j)
  PROVE  LStep
<1>. USE DEF TypeInv, TypeOK, Quiet, Unworked, Cancelling, faultVars, rowVars
<1>1. ASSUME NEW j \in Jobs, submit_job(j) PROVE LStep
  <2>1. Lifecycle!Submit(j)
    BY <1>1 DEF submit_job, insert_job, Put, RowsTypeOK, Lifecycle!Submit, Lifecycle!Becomes
  <2>2. QED
    BY <2>1 DEF LStep, Lifecycle!Next
<1>2. ASSUME NEW j \in Jobs, SendWake(j) PROVE LStep
  BY <1>2, StutterMaps DEF SendWake
<1>3. ASSUME NEW j \in Jobs, delete_job(j) \/ restore_job(j) PROVE LStep
  <2>1. status[j] # "absent"
    BY <1>3 DEF delete_job, restore_job, IInv, RowsConsistent
  <2>2. deleted' = [deleted EXCEPT ![j] = ~deleted[j]]
    BY <1>3 DEF delete_job, restore_job, set_deleted, Put, RowsTypeOK
  <2>3. Lifecycle!Hide(j)
    BY <1>3, <2>1, <2>2 DEF delete_job, restore_job, set_deleted, Lifecycle!Hide
  <2>4. QED
    BY <2>3 DEF LStep, Lifecycle!Next
<1>4. ASSUME NEW c \in Cancels, NEW j \in Jobs, CancelRunning(c, j) PROVE LStep
  BY <1>4, CloseMaps DEF CancelRunning
<1>5. ASSUME NEW c \in Cancels, CancelQueued(c) \/ CancelClaimed(c) PROVE LStep
  <2>1. target[c] \in Jobs
    BY <1>5 DEF CancelQueued, CancelClaimed, CancelNamesJob
  <2>2. QED
    BY <1>5, <2>1, CloseMaps DEF CancelQueued, CancelClaimed
<1>6. ASSUME NEW c \in Cancels, CancelInterrupt(c) \/ CancelAnnounce(c) PROVE LStep
  BY <1>6, StutterMaps DEF CancelInterrupt, CancelAnnounce
<1>7. ASSUME NEW j \in Jobs, SubmitDropped(j) PROVE LStep
  BY <1>7, StutterMaps DEF SubmitDropped, Unworked
<1>8. ASSUME NEW c \in Cancels, CancelDropped(c) PROVE LStep
  BY <1>8, StutterMaps DEF CancelDropped, Unworked
<1>9. QED
  BY <1>1, <1>2, <1>3, <1>4, <1>5, <1>6, <1>7, <1>8 DEF CancelStep

LEMMA EnvironmentMaps ==
  ASSUME TypeInv, IInv,
         \/ BackendStarts \/ BackendEnds \/ Outage \/ Silence \/ Recovery
         \/ WarmUp \/ Crash \/ Shutdown \/ Exit \/ Restart
         \/ UNCHANGED vars
  PROVE  LStep
<1>. USE DEF faultVars, rowVars
<1>1. CASE Crash \/ Exit
  <2>1. UNCHANGED <<status, deleted, output>> /\ stranded' = {}
    BY <1>1 DEF Crash, Exit, Dies
  <2>2. CASE stranded = {}
    BY <2>1, <2>2, StutterMaps
  <2>3. CASE stranded # {}
    <3>1. MaxDbFaults > 0
      BY <2>3, BoundsAssumption DEF TypeInv, TypeOK, IInv, RowsConsistent
    <3>2. QED
      BY <2>1, <3>1, StrandMaps
  <2>4. QED
    BY <2>2, <2>3
<1>2. CASE \/ BackendStarts \/ BackendEnds \/ Outage \/ Silence \/ Recovery
           \/ WarmUp \/ Shutdown \/ Restart \/ UNCHANGED vars
  BY <1>2, StutterMaps DEF BackendStarts, BackendEnds, Outage, Silence, Recovery, Beside, WarmUp,
     Shutdown, Restart, vars
<1>3. QED
  BY <1>1, <1>2

\* The rows follow the lifecycle promised to clients: one job runs at a time, a
\* deleted one never starts, done means an image, and nothing leaves a final state.
THEOREM ImplementsLifecycle == Spec => FollowsLifecycle
<1>1. Init => Lifecycle!Init
  BY DEF Init, RowsInit, Lifecycle!Init
<1>2. TypeInv /\ IInv /\ [Next]_vars => [Lifecycle!Next]_(Lifecycle!vars)
  BY DrainLoopMaps, ProcessJobMaps, RequestMaps, EnvironmentMaps DEF Next, LStep
<1>3. QED
  BY TypeCorrect, Inductive, <1>1, <1>2, PTL DEF Spec, FollowsLifecycle, Lifecycle!Spec
=============================================================================
