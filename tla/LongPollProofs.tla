--------------------------- MODULE LongPollProofs ---------------------------
(***************************************************************************)
(* What holds of LongPoll for every number of polls, progress levels and   *)
(* requeues, proved with TLAPS: no wake-up is lost, and an early answer is *)
(* news.                                                                   *)
(***************************************************************************)
EXTENDS LongPoll, TLAPS

-----------------------------------------------------------------------------
(* Types.                                                                  *)

LEMMA ViewParts ==
  ASSUME view \in Views
  PROVE  /\ view[1] \in {"queued", "running", "done", "failed", "cancelled"}
         /\ view[2] \in 0 .. Levels
  BY DEF Views

LEMMA WriteType ==
  ASSUME TypeOK, NEW w \in Writers,
         NEW st \in {"queued", "running", "done", "failed", "cancelled"},
         NEW level \in 0 .. Levels,
         Write(w, st, level), requeues' \in 0 .. MaxRequeues
  PROVE  TypeOK'
  BY DEF TypeOK, Write, Owes, Views, pollVars

LEMMA WritersType ==
  ASSUME TypeOK, Claim \/ Progress \/ Close \/ Requeue \/ Cancel
  PROVE  TypeOK'
  <1> USE DEF Writers, Requesters
  <1>1. view[2] \in 0 .. Levels /\ requeues \in 0 .. MaxRequeues /\ 0 \in 0 .. Levels
        /\ Levels \in 0 .. Levels
    BY ViewParts, LevelsAssumption DEF TypeOK
  <1>2. CASE Claim
    BY <1>1, <1>2, WriteType DEF Claim
  <1>3. CASE Progress
    <2>1. PICK level \in 0 .. Levels : Write("progress", "running", level)
      BY <1>3 DEF Progress
    <2> QED BY <1>1, <1>3, <2>1, WriteType DEF Progress
  <1>4. CASE Close
    BY <1>1, <1>4, WriteType DEF Close
  <1>5. CASE Requeue
    <2>1. requeues' \in 0 .. MaxRequeues
      BY <1>1, <1>5, LevelsAssumption DEF Requeue
    <2> QED BY <1>1, <1>5, <2>1, WriteType DEF Requeue
  <1>6. CASE Cancel
    BY <1>1, <1>6, WriteType DEF Cancel
  <1> QED BY <1>2, <1>3, <1>4, <1>5, <1>6

LEMMA SignalsType ==
  ASSUME TypeOK,
         \/ \E w \in Writers : notify_job_change(w) \/ Dropped(w)
         \/ SetHidden(TRUE) \/ SetHidden(FALSE) \/ NotifyOther
  PROVE  TypeOK'
  BY DEF TypeOK, Writers, Requesters, Owes, pollVars, notify_job_change, Dropped, SetHidden,
         NotifyOther, Signal, Subscribed

LEMMA PollType ==
  ASSUME TypeOK, NEW p \in Polls, get_job(p) \/ Elapse(p)
  PROVE  TypeOK'
  <1> USE DEF TypeOK, Goto, Answer, PollAt, Held, rowVars
  <1>1. CASE FirstRead(p)
    BY <1>1 DEF FirstRead
  <1>2. CASE Subscribe(p)
    BY <1>2 DEF Subscribe
  <1>3. CASE Top(p)
    BY <1>3 DEF Top
  <1>4. CASE WakeOnChange(p) \/ WakeOnTime(p)
    BY <1>4 DEF WakeOnChange, WakeOnTime
  <1>5. CASE Reread(p)
    BY <1>5 DEF Reread
  <1>6. CASE Elapse(p)
    BY <1>6 DEF Elapse
  <1> QED BY <1>1, <1>2, <1>3, <1>4, <1>5, <1>6 DEF get_job

\* The row, its writers and the polls keep to their types.
THEOREM LongPollTypes == Spec => []TypeOK
  <1>1. Init => TypeOK
    <2> SUFFICES ASSUME Init PROVE TypeOK
      OBVIOUS
    <2>1. 0 \in 0 .. Levels /\ 0 \in 0 .. MaxRequeues
      BY LevelsAssumption
    <2> QED BY <2>1 DEF Init, TypeOK, Views, PollAt, Held
  <1>2. TypeOK /\ [Next]_vars => TypeOK'
    <2> SUFFICES ASSUME TypeOK, [Next]_vars PROVE TypeOK'
      OBVIOUS
    <2>1. CASE UNCHANGED vars
      BY <2>1 DEF TypeOK, vars, rowVars, pollVars
    <2> QED BY <2>1, WritersType, SignalsType, PollType DEF Next
  <1> QED BY <1>1, <1>2, PTL DEF Spec

-----------------------------------------------------------------------------
(* The two hazards of a watch channel: a change between the read and the   *)
(* subscription, and a wake-up that has nothing to say.                    *)

\* A committed write leaves the polls alone, and a notify owed.
LEMMA WritersOwe ==
  ASSUME Claim \/ Progress \/ Close \/ Requeue \/ Cancel \/ SetHidden(TRUE) \/ SetHidden(FALSE)
  PROVE  pending' # {} /\ UNCHANGED pollVars
  BY DEF Claim, Progress, Close, Requeue, Cancel, Write, SetHidden, Owes

\* A notify, of this job or another, reaches every poll that is held.
LEMMA SignalsReach ==
  ASSUME NotifyOther \/ \E w \in Writers : notify_job_change(w)
  PROVE  /\ ready' = ready \cup Subscribed /\ missed' = missed \ Subscribed
         /\ UNCHANGED <<view, hidden, at, initial, answer, over>>
  BY DEF notify_job_change, NotifyOther, Signal

\* Of a request that is dropped before its notify, whoever had news missed it.
LEMMA DropsMiss ==
  ASSUME NEW w \in Writers, Dropped(w)
  PROVE  /\ missed' = missed \cup {p \in Subscribed : News(p)}
         /\ UNCHANGED <<view, hidden, at, initial, answer, ready, over>>
  BY DEF Dropped

LEMMA SignalKept ==
  ASSUME TypeOK, NoSignalLost, [Next]_vars
  PROVE  NoSignalLost'
  <1> USE DEF NoSignalLost, News
  <1>1. CASE Claim \/ Progress \/ Close \/ Requeue \/ Cancel \/ SetHidden(TRUE) \/ SetHidden(FALSE)
    BY <1>1, WritersOwe
  <1>2. CASE NotifyOther \/ \E w \in Writers : notify_job_change(w)
    BY <1>2, SignalsReach DEF Subscribed, Held
  <1>3. CASE \E w \in Writers : Dropped(w)
    BY <1>3, DropsMiss DEF Subscribed, Held
  <1>4. ASSUME NEW p \in Polls, get_job(p) PROVE NoSignalLost'
    <2> USE DEF TypeOK, Goto, Answer, rowVars
    <2>1. CASE FirstRead(p)
      BY <2>1 DEF FirstRead
    <2>2. CASE Subscribe(p)
      BY <2>2 DEF Subscribe
    <2>3. CASE Top(p)
      BY <2>3 DEF Top
    <2>4. CASE WakeOnChange(p) \/ WakeOnTime(p)
      BY <2>4 DEF WakeOnChange, WakeOnTime
    <2>5. CASE Reread(p)
      BY <2>5 DEF Reread
    <2> QED BY <1>4, <2>1, <2>2, <2>3, <2>4, <2>5 DEF get_job
  <1>5. ASSUME NEW p \in Polls, Elapse(p) PROVE NoSignalLost'
    BY <1>5 DEF Elapse, rowVars
  <1>6. CASE UNCHANGED vars
    BY <1>6 DEF vars, rowVars, pollVars
  <1> QED BY <1>1, <1>2, <1>3, <1>4, <1>5, <1>6 DEF Next

\* A poll held beside a row it has not seen is woken: it has the signal, or the
\* writer that committed still owes it, for any number of polls and writes; but
\* for a change that came between its first read and its subscription, and one
\* whose request was dropped before its notify.
THEOREM NoWakeUpIsLost == Spec => []NoSignalLost
  <1>1. Init => NoSignalLost
    BY DEF Init, NoSignalLost
  <1>2. TypeOK /\ NoSignalLost /\ [Next]_vars => NoSignalLost'
    BY SignalKept
  <1> QED BY <1>1, <1>2, LongPollTypes, PTL DEF Spec

LEMMA AnswerKept ==
  ASSUME TypeOK, EarlyAnswerIsNews, [Next]_vars
  PROVE  EarlyAnswerIsNews'
  <1> USE DEF EarlyAnswerIsNews
  <1>1. CASE UNCHANGED <<at, initial, answer, over>>
    BY <1>1
  <1>2. ASSUME NEW p \in Polls, get_job(p) PROVE EarlyAnswerIsNews'
    <2> USE DEF TypeOK, Goto, Answer, rowVars
    <2>1. CASE FirstRead(p)
      BY <2>1 DEF FirstRead
    <2>2. CASE Subscribe(p)
      BY <2>2 DEF Subscribe
    <2>3. CASE Top(p)
      BY <2>3 DEF Top
    <2>4. CASE WakeOnChange(p) \/ WakeOnTime(p)
      BY <2>4 DEF WakeOnChange, WakeOnTime
    <2>5. CASE Reread(p)
      BY <2>5 DEF Reread
    <2> QED BY <1>2, <2>1, <2>2, <2>3, <2>4, <2>5 DEF get_job
  <1>3. ASSUME NEW p \in Polls, Elapse(p) PROVE EarlyAnswerIsNews'
    BY <1>3 DEF Elapse
  <1>4. UNCHANGED <<at, initial, answer, over>> \/ \E p \in Polls : get_job(p) \/ Elapse(p)
    BY WritersOwe, SignalsReach, DropsMiss DEF Next, vars, pollVars
  <1> QED BY <1>1, <1>2, <1>3, <1>4

\* Inside its window a poll answers only with a row other than the one it read
\* first, whatever woke it.
THEOREM EarlyAnswersAreNews == Spec => []EarlyAnswerIsNews
  <1>1. Init => EarlyAnswerIsNews
    BY DEF Init, EarlyAnswerIsNews
  <1>2. TypeOK /\ EarlyAnswerIsNews /\ [Next]_vars => EarlyAnswerIsNews'
    BY AnswerKept
  <1> QED BY <1>1, <1>2, LongPollTypes, PTL DEF Spec
=============================================================================
