-------------------------- MODULE JobAttemptProofs --------------------------
(***************************************************************************)
(* What holds of JobAttempt for every number of attempts, outages, kills   *)
(* and prompts, and every template, proved with TLAPS: the budget of GPU   *)
(* time, what is sent, what is requeued, that the client underneath is     *)
(* ComfyClient, what redact_internal makes of any text, and what a failed  *)
(* job tells.                                                              *)
(***************************************************************************)
EXTENDS JobAttempt, SequenceTheorems, WellFoundedInduction, TLAPS

-----------------------------------------------------------------------------
(* The client on its own, for every MaxAttempts and MaxOutages: its types,  *)
(* that only the last try of a submit reaches ComfyUI, and that            *)
(* submit_prompt implements CallPromise.                                   *)

\* The client backs off only when it has a try left.
TriesLeft == phase = "backoff" => tries < MaxAttempts

TypeInv == ClientTypeOK /\ TriesLeft

\* How a try ends in an error: with a backoff, if the call is one to repeat and
\* has tries left, or with the call.
LEMMA FailsAlternatives ==
  ASSUME NEW e \in Errors, Fails(e)
  PROVE  \/ /\ tries < MaxAttempts /\ should_retry(e, Idempotency(call))
            /\ phase' = "backoff" /\ error' = error
         \/ phase' = "over" /\ error' = e
  BY DEF Fails

\* submit_prompt repeats a try only when it got no connection.
LEMMA SubmitRetriesConnect ==
  ASSUME NEW e \in Errors, call = "submit", should_retry(e, Idempotency(call))
  PROVE  e = "connect"
  BY DEF should_retry, Idempotency

LEMMA TypeInit ==
  ASSUME ClientInit
  PROVE  TypeInv
  <1>1. tries \in 1 .. MaxAttempts /\ outages \in 0 .. MaxOutages
    BY AttemptsAssumption, NetOutagesAssumption DEF ClientInit
  <1> QED BY <1>1 DEF ClientInit, TypeInv, TriesLeft, ClientTypeOK, Phases

LEMMA FailsKeepsType ==
  ASSUME TypeInv, NEW e \in Errors, Fails(e), UNCHANGED netVars,
         late' \in Nat, UNCHANGED accepted
  PROVE  TypeInv'
  <1>1. phase' \in Phases /\ error' \in Errors \cup {NoError}
    BY FailsAlternatives DEF TypeInv, ClientTypeOK, Phases, InFlight
  <1>2. UNCHANGED <<call, tries, served>>
    BY DEF Fails
  <1>3. TriesLeft'
    BY <1>2, FailsAlternatives DEF TriesLeft
  <1> QED BY <1>1, <1>2, <1>3 DEF TypeInv, ClientTypeOK, netVars

LEMMA TypeStep ==
  ASSUME TypeInv, [ClientNext]_clientVars
  PROVE  TypeInv'
  <1> USE AttemptsAssumption, NetOutagesAssumption DEF TypeInv, TriesLeft
  <1>1. ASSUME NEW c \in Calls, Begin(c) PROVE TypeInv'
    <2>1. accepted' \in Nat
      BY <1>1 DEF Begin, ClientTypeOK
    <2>2. tries' \in 1 .. MaxAttempts /\ phase' = "connecting"
      BY <1>1 DEF Begin
    <2>3. /\ call' \in Calls /\ error' = NoError /\ served' = FALSE
          /\ UNCHANGED <<net, outages, late>>
      BY <1>1 DEF Begin, netVars
    <2> QED BY <2>1, <2>2, <2>3 DEF ClientTypeOK, Phases
  <1>2. CASE Connects
    BY <1>2 DEF Connects, ClientTypeOK, Phases, InFlight, netVars
  <1>3. CASE Refused
    BY <1>3, FailsKeepsType DEF Refused, ClientTypeOK, netVars, Errors
  <1>4. CASE TimesOut
    <2>1. late' \in Nat
      BY <1>4 DEF TimesOut, ClientTypeOK
    <2> QED BY <2>1, <1>4, FailsKeepsType DEF TimesOut, ClientTypeOK, netVars, Errors
  <1>5. CASE CutNoticed
    BY <1>5, FailsKeepsType DEF CutNoticed, ClientTypeOK, netVars, Errors
  <1>6. CASE BackoffEnds
    <2>1. tries' \in 1 .. MaxAttempts
      BY <1>6 DEF BackoffEnds, ClientTypeOK
    <2> QED BY <2>1, <1>6 DEF BackoffEnds, ClientTypeOK, Phases, InFlight, netVars
  <1>7. CASE Answered
    BY <1>7 DEF Answered, ClientTypeOK, Phases, InFlight, netVars
  <1>8. CASE Rejected
    <2>1. PICK e \in {"busy", "rejected", "garbage"} : Fails(e)
      BY <1>8 DEF Rejected
    <2> QED BY <2>1, <1>8, FailsKeepsType DEF Rejected, ClientTypeOK, netVars, Errors
  <1>9. CASE Breaks
    <2>1. late' \in Nat
      BY <1>9 DEF Breaks, ClientTypeOK
    <2> QED BY <2>1, <1>9, FailsKeepsType DEF Breaks, ClientTypeOK, netVars, Errors
  <1>10. CASE Serve
    BY <1>10 DEF Serve, ClientTypeOK, Phases, InFlight, netVars
  <1>11. CASE ServeLate
    <2>1. late' \in Nat /\ accepted' \in Nat
      BY <1>11 DEF ServeLate, ClientTypeOK
    <2> QED BY <2>1, <1>11 DEF ServeLate, ClientTypeOK, netVars, callVars
  <1>12. ASSUME NEW how \in {"refusing", "silent"}, GoAway(how) PROVE TypeInv'
    BY <1>12 DEF GoAway, ClientTypeOK, Phases, InFlight
  <1>13. CASE ComeBack
    BY <1>13 DEF ComeBack, ClientTypeOK, callVars
  <1>14. CASE Abandon
    <2>1. late' \in Nat
      BY <1>14 DEF Abandon, ClientTypeOK
    <2>2. tries' \in 1 .. MaxAttempts /\ phase' = "over"
      BY <1>14 DEF Abandon
    <2> QED BY <2>1, <2>2, <1>14 DEF Abandon, ClientTypeOK, Phases, netVars
  <1>15. CASE UNCHANGED clientVars
    BY <1>15 DEF clientVars, netVars, callVars, ClientTypeOK
  <1> QED BY <1>1, <1>2, <1>3, <1>4, <1>5, <1>6, <1>7, <1>8, <1>9, <1>10, <1>11,
             <1>12, <1>13, <1>14, <1>15 DEF ClientNext, Try, Own

\* Every variable of the client keeps its type: tries never exceed MAX_ATTEMPTS.
THEOREM ClientTypeCorrect == ClientSpec => []ClientTypeOK
  <1>1. ClientInit => TypeInv
    BY TypeInit
  <1>2. TypeInv /\ [ClientNext]_clientVars => TypeInv'
    BY TypeStep
  <1>3. TypeInv => ClientTypeOK
    BY DEF TypeInv
  <1> QED BY <1>1, <1>2, <1>3, PTL DEF ClientSpec

-----------------------------------------------------------------------------
(* Only the last try of a submit reaches ComfyUI.                          *)

LEMMA LastTryStep ==
  ASSUME TypeInv, OnlyLastTryReaches, [ClientNext]_clientVars
  PROVE  OnlyLastTryReaches'
  <1> USE DEF OnlyLastTryReaches
  <1> DEFINE Broke(e) == Fails(e) /\ call = "submit"
  <1>a. ASSUME NEW e \in Errors, Broke(e), phase # "over", e = "connect" => ~served
        PROVE  OnlyLastTryReaches'
    <2>1. UNCHANGED <<call, served>>
      BY <1>a DEF Fails
    <2>2. CASE phase' = "backoff" /\ error' = error /\ should_retry(e, Idempotency(call))
      <3>1. ~served
        BY <2>2, <1>a, SubmitRetriesConnect
      <3> QED BY <2>1, <2>2, <3>1, <1>a
    <2>3. CASE phase' = "over" /\ error' = e
      BY <2>1, <2>3, <1>a DEF Errors, NoError
    <2> QED BY <1>a, <2>2, <2>3, FailsAlternatives
  <1>b. ASSUME NEW e \in Errors, Fails(e), call # "submit" PROVE OnlyLastTryReaches'
    BY <1>b DEF Fails
  <1>1. ASSUME NEW c \in Calls, Begin(c) PROVE OnlyLastTryReaches'
    BY <1>1 DEF Begin, NoError
  <1>2. CASE Connects
    BY <1>2 DEF Connects
  <1>3. CASE Refused
    BY <1>3, <1>a, <1>b DEF Refused, Errors
  <1>4. CASE TimesOut
    BY <1>4, <1>a, <1>b DEF TimesOut, Errors, InFlight
  <1>5. CASE CutNoticed
    BY <1>5, <1>a, <1>b DEF CutNoticed, Errors
  <1>6. CASE BackoffEnds
    BY <1>6 DEF BackoffEnds
  <1>7. CASE Answered
    BY <1>7 DEF Answered, NoError
  <1>8. CASE Rejected
    BY <1>8, <1>a, <1>b DEF Rejected, Errors, InFlight
  <1>9. CASE Breaks
    BY <1>9, <1>a, <1>b DEF Breaks, Errors, InFlight
  <1>10. CASE Serve
    BY <1>10 DEF Serve
  <1>11. CASE ServeLate
    BY <1>11 DEF ServeLate, callVars
  <1>12. ASSUME NEW how \in {"refusing", "silent"}, GoAway(how) PROVE OnlyLastTryReaches'
    BY <1>12 DEF GoAway, InFlight
  <1>13. CASE ComeBack
    BY <1>13 DEF ComeBack, callVars
  <1>14. CASE Abandon
    BY <1>14 DEF Abandon, NoCall
  <1>15. CASE UNCHANGED clientVars
    BY <1>15 DEF clientVars, callVars
  <1> QED BY <1>1, <1>2, <1>3, <1>4, <1>5, <1>6, <1>7, <1>8, <1>9, <1>10, <1>11,
             <1>12, <1>13, <1>14, <1>15 DEF ClientNext, Try, Own

\* A try of submit_prompt that is followed by another never reached ComfyUI.
THEOREM LastTryOnly == ClientSpec => []OnlyLastTryReaches
  <1>1. ClientInit => TypeInv /\ OnlyLastTryReaches
    BY TypeInit DEF ClientInit, OnlyLastTryReaches, NoCall
  <1>2. TypeInv /\ OnlyLastTryReaches /\ [ClientNext]_clientVars
          => (TypeInv /\ OnlyLastTryReaches)'
    BY TypeStep, LastTryStep
  <1> QED BY <1>1, <1>2, PTL DEF ClientSpec

-----------------------------------------------------------------------------
(* submit_prompt implements CallPromise.                                   *)

Mine == IF ~Submitting THEN "none" ELSE IF served THEN "accepted" ELSE "open"
Result == IF call # "submit" \/ phase # "over" THEN "none"
          ELSE IF error = NoError THEN "ok"
          ELSE IF is_unreachable(call, error) THEN "unreachable" ELSE "error"
PromiseVars == <<Mine, late, accepted, Result>>

LEMMA PromiseVarsAre == UNCHANGED PromiseVars => UNCHANGED Promise!vars
  BY DEF PromiseVars, Mine, Result, Promise!vars

\* Outside of submit_prompt nothing of the promise is at stake.
LEMMA OtherCallsStutter ==
  ASSUME call # "submit", UNCHANGED <<call, late, accepted>>
  PROVE  UNCHANGED Promise!vars
  <1>1. UNCHANGED PromiseVars
    BY DEF PromiseVars, Mine, Result, Submitting
  <1> QED BY <1>1, PromiseVarsAre

\* A submit that ends in an error other than "connect" answers "error", and owes
\* its prompt if it was given up on in flight.
LEMMA SubmitErrs ==
  ASSUME TypeInv, OnlyLastTryReaches, call = "submit", phase # "over",
         NEW e \in Errors \ {"connect"}, Fails(e), UNCHANGED accepted,
         late' = late \/ (~served /\ late' = late + 1)
  PROVE  Promise!Error
  <1>1. phase' = "over" /\ error' = e /\ UNCHANGED <<call, served>>
    BY FailsAlternatives, SubmitRetriesConnect DEF Fails
  <1>2. Mine # "none" /\ Mine' = "none" /\ Result' = "error"
    BY <1>1 DEF Mine, Result, Submitting, is_unreachable, Errors, NoError
  <1>3. late' \in {late, late + (IF Mine = "open" THEN 1 ELSE 0)}
    BY DEF Mine, Submitting
  <1> QED BY <1>2, <1>3 DEF Promise!Error, Mine, Result

\* How a try of submit_prompt may end in an error: the three promises it keeps.
LEMMA RefusedKeepsPromise ==
  ASSUME TypeInv, OnlyLastTryReaches, call = "submit", Refused
  PROVE  [Promise!Next]_Promise!vars
  <1>1. /\ phase = "connecting" /\ ~served /\ error = NoError
        /\ Fails("connect") /\ UNCHANGED <<call, served, late, accepted>>
    BY DEF Refused, Fails, OnlyLastTryReaches
  <1>2. CASE phase' = "backoff" /\ error' = error
    <2>1. UNCHANGED PromiseVars
      BY <1>1, <1>2 DEF PromiseVars, Mine, Result, Submitting
    <2> QED BY <2>1, PromiseVarsAre
  <1>3. CASE phase' = "over" /\ error' = "connect"
    <2>1. Mine = "open" /\ Mine' = "none" /\ Result' = "unreachable"
      BY <1>1, <1>3 DEF Mine, Result, Submitting, is_unreachable, NoError
    <2> QED BY <2>1, <1>1 DEF Promise!Next, Promise!Unreachable, Mine, Result
  <1> QED BY <1>1, <1>2, <1>3, FailsAlternatives DEF Errors

LEMMA PromiseStep ==
  ASSUME TypeInv, OnlyLastTryReaches, [ClientNext]_clientVars
  PROVE  [Promise!Next]_Promise!vars
  <1> USE DEF Promise!Next
  <1>1. CASE Begin("submit")
    <2>1. Mine = "none" /\ Mine' = "open" /\ accepted' = 0 /\ Result' = "none" /\ late' = late
      BY <1>1 DEF Begin, Mine, Result, Submitting
    <2> QED BY <2>1 DEF Promise!Ask, Mine, Result
  <1>2. ASSUME NEW c \in Calls \ {"submit"}, Begin(c) PROVE Promise!MoveOn
    <2>1. Mine' = "none" /\ Result' = "none" /\ late' = late /\ accepted' = accepted
      BY <1>2 DEF Begin, Mine, Result, Submitting
    <2> QED BY <2>1 DEF Promise!MoveOn, Mine, Result
  <1>3. CASE Connects \/ BackoffEnds \/ ComeBack \/ GoAway("silent") \/ UNCHANGED clientVars
    <2>1. /\ UNCHANGED <<call, error, served, late, accepted>>
          /\ phase = "over" <=> phase' = "over"
      BY <1>3 DEF Connects, BackoffEnds, ComeBack, GoAway, clientVars, callVars
    <2>2. UNCHANGED PromiseVars
      BY <2>1 DEF PromiseVars, Mine, Result, Submitting
    <2> QED BY <2>2, PromiseVarsAre
  <1>4. CASE Refused
    <2>1. UNCHANGED <<call, late, accepted>>
      BY <1>4 DEF Refused, Fails
    <2> QED BY <1>4, <2>1, RefusedKeepsPromise, OtherCallsStutter
  <1>5. CASE TimesOut \/ CutNoticed \/ Rejected \/ Breaks
    <2>1. PICK e \in Errors \ {"connect"} : Fails(e) /\ phase # "over" /\ UNCHANGED accepted
      BY <1>5 DEF TimesOut, CutNoticed, Rejected, Breaks, Errors, InFlight
    <2>2. call = "submit" => late' = late \/ (~served /\ late' = late + 1)
      BY <1>5 DEF TimesOut, CutNoticed, Rejected, Breaks, OnlyLastTryReaches
    <2>3. call # "submit" => UNCHANGED <<call, late>>
      BY <1>5 DEF TimesOut, CutNoticed, Rejected, Breaks, Fails
    <2> QED BY <2>1, <2>2, <2>3, SubmitErrs, OtherCallsStutter
  <1>6. CASE Answered
    <2>1. UNCHANGED <<call, error, served, late, accepted>> /\ phase = "served" /\ phase' = "over"
      BY <1>6 DEF Answered
    <2>2. CASE call = "submit"
      <3>1. Mine = "accepted" /\ Mine' = "none" /\ Result' = "ok"
        BY <2>1, <2>2 DEF Mine, Result, Submitting, OnlyLastTryReaches
      <3> QED BY <3>1, <2>1 DEF Promise!Ok, Mine, Result
    <2> QED BY <2>1, <2>2, OtherCallsStutter
  <1>7. CASE Serve
    <2>1. CASE call = "submit"
      <3>1. /\ Mine = "open" /\ Mine' = "accepted" /\ accepted' = accepted + 1
            /\ late' = late /\ Result' = Result
        BY <1>7, <2>1 DEF Serve, Mine, Result, Submitting, OnlyLastTryReaches
      <3> QED BY <3>1 DEF Promise!Accept, Mine, Result
    <2>2. CASE call # "submit"
      BY <1>7, <2>2, OtherCallsStutter DEF Serve
    <2> QED BY <2>1, <2>2
  <1>8. CASE ServeLate
    <2>1. UNCHANGED <<Mine, Result>>
      BY <1>8 DEF ServeLate, callVars, Mine, Result, Submitting
    <2> QED BY <1>8, <2>1 DEF ServeLate, Promise!AcceptLate, Mine, Result
  <1>9. CASE GoAway("refusing")
    <2>1. UNCHANGED <<Mine, Result, accepted>> /\ late' = 0
      BY <1>9 DEF GoAway, InFlight, Mine, Result, Submitting
    <2>2. CASE late > 0
      BY <2>1, <2>2 DEF Promise!Forget, Mine, Result
    <2>3. CASE late = 0
      BY <2>1, <2>3, PromiseVarsAre DEF PromiseVars
    <2> QED BY <2>2, <2>3 DEF TypeInv, ClientTypeOK
  <1>10. CASE Abandon
    <2>1. Mine' = "none" /\ Result' = "none" /\ accepted' = accepted
      BY <1>10 DEF Abandon, Mine, Result, Submitting, NoCall
    <2>2. late' \in {late, late + (IF Mine = "open" THEN 1 ELSE 0)}
      BY <1>10 DEF Abandon, Mine, Submitting, OnlyLastTryReaches
    <2> QED BY <2>1, <2>2 DEF Promise!MoveOn, Mine, Result
  <1> QED BY <1>1, <1>2, <1>3, <1>4, <1>5, <1>6, <1>7, <1>8, <1>9, <1>10
          DEF ClientNext, Try, Own

\* submit_prompt keeps its promise, whatever the network does and however many
\* tries it is given: at most one prompt for a call, one behind every "ok", and
\* none, now or later, behind an "unreachable", for which the worker requeues.
THEOREM SubmitImplementsPromise == ClientSpec => SubmitKeepsPromise
  <1>1. ClientInit => TypeInv /\ OnlyLastTryReaches /\ Promise!Init
    BY TypeInit DEF ClientInit, OnlyLastTryReaches, NoCall, Promise!Init, Submitting
  <1>2. TypeInv /\ OnlyLastTryReaches /\ [ClientNext]_clientVars
          => (TypeInv /\ OnlyLastTryReaches)' /\ [Promise!Next]_Promise!vars
    BY TypeStep, LastTryStep, PromiseStep
  <1> QED BY <1>1, <1>2, PTL DEF ClientSpec, SubmitKeepsPromise, Promise!Spec

-----------------------------------------------------------------------------
(* The client of the worker is ComfyClient, whose theorems hold of it.     *)

LEMMA WorkerUsesClient ==
  ASSUME Worker
  PROVE  (\E c \in Calls : Begin(c)) \/ UNCHANGED clientVars
  <1>1. CASE ReadInput
    BY <1>1 DEF ReadInput, Calls
  <1>2. CASE Uploaded
    BY <1>2 DEF Uploaded, NextCall, Calls
  <1>3. CASE Connected
    BY <1>3 DEF Connected, NextCall, Calls
  <1>4. CASE AwaitEnds
    BY <1>4 DEF AwaitEnds, Calls
  <1>5. CASE HistoryTells
    BY <1>5 DEF HistoryTells, NextCall, FailsWith, Resting, Calls
  <1>6. CASE Claim \/ InputMissing \/ Submitted \/ AwaitFails \/ AwaitTimesOut \/ Interrupted
    BY <1>6 DEF Claim, InputMissing, Submitted, AwaitFails, AwaitTimesOut, Interrupted,
                FailsWith, Resting
  <1>7. CASE Done \/ CallFails \/ Requeue \/ MarkFailed \/ MessagePanics \/ Restart
    BY <1>7 DEF Done, CallFails, Requeue, MarkFailed, MessagePanics, Restart, Resting
  <1> QED BY <1>1, <1>2, <1>3, <1>4, <1>5, <1>6, <1>7 DEF Worker

LEMMA StepIsClientStep ==
  ASSUME [Next]_vars
  PROVE  [ClientNext]_clientVars
  <1>1. CASE Worker
    BY <1>1, WorkerUsesClient DEF ClientNext
  <1>2. CASE Trying
    BY <1>2 DEF Trying, ClientNext
  <1>3. CASE NetGoes
    BY <1>3 DEF NetGoes, ClientNext
  <1>4. CASE NetReturns
    BY <1>4 DEF NetReturns, ClientNext
  <1>5. CASE Kill
    BY <1>5 DEF Kill, ClientNext
  <1>6. CASE UNCHANGED vars
    BY <1>6 DEF vars
  <1> QED BY <1>1, <1>2, <1>3, <1>4, <1>5, <1>6 DEF Next

\* Whatever the worker does with it, its client behaves as ComfyClient.
THEOREM WorkerRunsClient == Spec => ClientSpec
  <1>1. Init => ClientInit
    BY DEF Init
  <1>2. [Next]_vars => [ClientNext]_clientVars
    BY StepIsClientStep
  <1> QED BY <1>1, <1>2, PTL DEF Spec, ClientSpec

\* In the worker's hands, too, submit_prompt keeps its promise.
THEOREM WorkerSubmitsOnce == Spec => SubmitKeepsPromise
  BY WorkerRunsClient, SubmitImplementsPromise

-----------------------------------------------------------------------------
(* What is sent.                                                           *)

\* The two passes of build_edit_workflow fill every placeholder, and only those,
\* unless the second finds the seed's placeholder in what the first has put in.
LEMMA BuildFills ==
  ASSUME NEW template, NEW prompt, NEW image, NEW prefix, NEW seed,
         prompt # SEED, image # SEED, prefix # SEED
  PROVE  build_edit_workflow(template, prompt, image, prefix, seed)
           = Filled(template, prompt, image, prefix, seed)
  <1> DEFINE once == build_without_seed(template, prompt, image, prefix, seed)
  <1>1. once = [l \in DOMAIN template |->
                  IF template[l] = PROMPT THEN prompt
                  ELSE IF template[l] = INPUT_IMAGE THEN image
                  ELSE IF template[l] = FILENAME_PREFIX THEN prefix ELSE template[l]]
    BY DEF build_without_seed, patch_placeholders, PROMPT, INPUT_IMAGE, FILENAME_PREFIX
  <1>2. build_edit_workflow(template, prompt, image, prefix, seed)
          = [l \in DOMAIN template |-> IF once[l] = SEED THEN seed ELSE once[l]]
    BY <1>1 DEF build_edit_workflow, patch_seed_placeholder
  <1>3. ASSUME NEW l \in DOMAIN template
        PROVE  (IF once[l] = SEED THEN seed ELSE once[l])
                 = Filled(template, prompt, image, prefix, seed)[l]
    BY <1>1 DEF Filled, PROMPT, INPUT_IMAGE, FILENAME_PREFIX, SEED
  <1> QED BY <1>2, <1>3 DEF Filled

\* ComfyUI is sent the template with the user's prompt, image, prefix and seed in
\* their places, whatever the template and whatever the user typed, but for the
\* name of the seed's placeholder.
THEOREM TypedIsSent == Spec => []SentAsTyped
  <1> USE DEF SentAsTyped
  <1>1. Init => SentAsTyped
    BY DEF Init
  <1>2. SentAsTyped /\ [Next]_vars => SentAsTyped'
    <2> SUFFICES ASSUME SentAsTyped, [Next]_vars PROVE SentAsTyped'
      OBVIOUS
    <2>1. CASE Connected
      <3>1. sent' = build_edit_workflow(Template, text.name, Image, Prefix, Seed)
        BY <2>1 DEF Connected
      <3>2. text' = text
        BY <2>1 DEF Connected, NextCall, Rest
      <3> QED BY <3>1, <3>2, BuildFills DEF Image, Prefix, SEED
    <2>2. CASE UNCHANGED <<sent, text>>
      BY <2>2
    <2>3. Connected \/ UNCHANGED <<sent, text>>
      BY DEF Next, Worker, Claim, ReadInput, InputMissing, Uploaded, Submitted, AwaitEnds,
             AwaitFails, AwaitTimesOut, Interrupted, HistoryTells, Done, CallFails, Requeue,
             MarkFailed, MessagePanics, Restart, Kill, Trying, NetGoes, NetReturns, NextCall,
             FailsWith, Rest, vars, jobVars
    <2> QED BY <2>1, <2>2, <2>3
  <1> QED BY <1>1, <1>2, PTL DEF Spec

-----------------------------------------------------------------------------
(* Where the job is when its calls end, and what the network has done.     *)

\* The call under way is the one the worker is at, a request in flight has a
\* backend to go to, and an attempt that got no further than a silent backend
\* knows.
Placed ==
  /\ TypeInv
  /\ at \in At /\ credit \in Int
  /\ at \in Calls => call = at
  /\ at \notin Calls => phase = "over"
  /\ phase # "over" => error = NoError
  /\ phase \in InFlight => net # "refusing"
  /\ at \notin {"idle", "down"} /\ net = "silent" => mute
  /\ phase \in {"flight", "served", "cut"} => reached
  /\ at \in Calls /\ error \notin {NoError, "connect"} => reached \/ mute
  /\ at = "fail" /\ why \in Errors => reached \/ mute

LEMMA PlacedInit ==
  ASSUME Init
  PROVE  Placed
  <1>1. TypeInv
    BY TypeInit DEF Init
  <1>2. at = "idle" /\ credit = 1 /\ phase = "over"
    BY DEF Init, ClientInit
  <1> QED BY <1>1, <1>2 DEF Placed, At, Calls, InFlight

LEMMA WorkerKeepsPlaces ==
  ASSUME Placed, TypeInv', Worker
  PROVE  Placed'
  <1> USE DEF Placed, At, Goto
  <1>a. ASSUME NEW c \in Calls, NEW from \in At \ {"idle", "down"},
               at = from, Goto(c), Begin(c), UNCHANGED <<reached, mute, credit>>
        PROVE  Placed'
    BY <1>a DEF Begin, netVars, Calls, InFlight
  <1>b. ASSUME NEW e \in Whys, FailsWith(e), at \notin {"idle", "down"}, phase = "over",
               e \notin Errors
        PROVE  Placed'
    BY <1>b DEF FailsWith, Resting, Rest, clientVars, netVars, callVars, Calls, InFlight,
                TypeInv, ClientTypeOK
  <1>1. CASE Claim
    BY <1>1 DEF Claim, Resting, Rest, clientVars, netVars, callVars, Calls, InFlight, Errors, NoError
  <1>2. CASE ReadInput
    BY <1>2, <1>a DEF ReadInput, Rest, Calls
  <1>3. CASE Uploaded \/ Connected
    BY <1>3, <1>a DEF Uploaded, Connected, NextCall, Ok, Returned, Rest, Calls
  <1>4. CASE AwaitEnds
    BY <1>4, <1>a DEF AwaitEnds, Rest, Calls
  <1>5. CASE InputMissing
    BY <1>5, <1>b DEF InputMissing, Whys, Errors, Calls
  <1>6. CASE AwaitFails
    BY <1>6, <1>b DEF AwaitFails, Whys, Errors, Calls
  <1>7. CASE Interrupted
    BY <1>7, <1>b DEF Interrupted, Whys, Errors, Calls
  <1>8. CASE HistoryTells
    <2>1. CASE NextCall("history", "view")
      BY <2>1, <1>a DEF NextCall, Ok, Returned, Rest, Calls
    <2>2. CASE Ok("history") /\ FailsWith("history")
      BY <2>2, <1>b DEF Ok, Returned, Whys, Errors
    <2> QED BY <1>8, <2>1, <2>2 DEF HistoryTells
  <1>9. CASE CallFails
    <2>1. phase = "over" /\ at \in Calls /\ error # NoError
      BY <1>9 DEF CallFails, Returned
    <2>2. at' = "fail" => error # "connect"
      BY <1>9 DEF CallFails, is_unreachable
    <2>3. at' \in {"fail", "requeue"} /\ why' = error
      BY <1>9 DEF CallFails
    <2>4. UNCHANGED <<clientVars, reached, mute, credit>>
      BY <1>9 DEF CallFails, Resting, Rest
    <2> QED BY <2>1, <2>2, <2>3, <2>4 DEF clientVars, netVars, callVars, Calls, InFlight
  <1>10. CASE Submitted \/ AwaitTimesOut \/ Done
    BY <1>10 DEF Submitted, AwaitTimesOut, Done, Ok, Returned, Resting, Rest, clientVars,
                 netVars, callVars, Calls, InFlight
  <1>11. CASE Requeue \/ MarkFailed \/ MessagePanics \/ Restart
    <2>1. UNCHANGED <<clientVars, reached, mute>> /\ at' \in {"idle", "down"}
      BY <1>11 DEF Requeue, MarkFailed, MessagePanics, Restart, Resting
    <2>2. credit' \in Int
      <3>1. credit' = credit \/ credit' = credit + 1
        BY <1>11 DEF Requeue, MarkFailed, MessagePanics, Restart, Rest
      <3> QED BY <3>1
    <2>3. at \notin Calls
      BY <1>11 DEF Requeue, MarkFailed, MessagePanics, Restart, Calls
    <2> QED BY <2>1, <2>2, <2>3 DEF clientVars, netVars, callVars, Calls, InFlight
  <1> QED BY <1>1, <1>2, <1>3, <1>4, <1>5, <1>6, <1>7, <1>8, <1>9, <1>10, <1>11 DEF Worker

LEMMA TryingKeepsPlaces ==
  ASSUME Placed, TypeInv', Trying
  PROVE  Placed'
  <1> USE DEF Placed
  <1>1. at' = at /\ mute' = mute /\ why' = why /\ reached' = (reached \/ phase' = "flight")
    BY DEF Trying
  <1>2. credit' \in Int
    BY DEF Trying, Spend, TypeInv, ClientTypeOK
  <1>a. ASSUME NEW e \in Errors, Fails(e), at \in Calls, phase # "over", UNCHANGED net,
               e # "connect" => reached \/ mute
        PROVE  Placed'
    <2>1. call' = call
      BY <1>a DEF Fails
    <2>2. \/ phase' = "backoff" /\ error' = error
          \/ phase' = "over" /\ error' = e
      BY <1>a, FailsAlternatives
    <2> QED BY <1>1, <1>2, <1>a, <2>1, <2>2 DEF At, Calls, InFlight
  <1>3. CASE phase # "over"
    <2>1. at \in Calls /\ at \notin {"idle", "down"}
      BY <1>3 DEF Calls
    <2>2. CASE Connects \/ BackoffEnds \/ Answered \/ Serve
      BY <1>1, <1>2, <2>1, <2>2 DEF Connects, BackoffEnds, Answered, Serve, netVars, InFlight, Calls
    <2>3. CASE Refused
      BY <1>a, <2>1, <2>3 DEF Refused, netVars, Errors
    <2>4. CASE TimesOut
      BY <1>a, <2>1, <2>4 DEF TimesOut, netVars, Errors, InFlight
    <2>5. CASE CutNoticed
      BY <1>a, <2>1, <2>5 DEF CutNoticed, netVars, Errors
    <2>6. CASE Rejected
      <3>1. PICK e \in {"busy", "rejected", "garbage"} : Fails(e)
        BY <2>6 DEF Rejected
      <3> QED BY <1>a, <2>1, <2>6, <3>1 DEF Rejected, netVars, Errors, InFlight
    <2>7. CASE Breaks
      BY <1>a, <2>1, <2>7 DEF Breaks, netVars, Errors, InFlight
    <2>8. CASE ServeLate
      BY <1>1, <1>2, <2>1, <2>8 DEF ServeLate, netVars, callVars, InFlight, Calls
    <2> QED BY <2>2, <2>3, <2>4, <2>5, <2>6, <2>7, <2>8 DEF Trying, Try, Own
  <1>4. CASE phase = "over"
    <2>1. UNCHANGED <<net, call, phase, error>>
      BY <1>4 DEF Trying, Try, Own, Connects, Refused, TimesOut, CutNoticed, BackoffEnds,
                  Answered, Rejected, Breaks, Serve, ServeLate, netVars, callVars, InFlight
    <2> QED BY <1>1, <1>2, <1>4, <2>1 DEF InFlight
  <1> QED BY <1>3, <1>4

LEMMA PlacedStep ==
  ASSUME Placed, [Next]_vars
  PROVE  Placed'
  <1>1. TypeInv'
    BY StepIsClientStep, TypeStep DEF Placed
  <1>2. CASE NetGoes
    <2>1. PICK how \in {"refusing", "silent"} :
                 GoAway(how) /\ (mute \/ how = "silent" => mute')
      BY <1>2 DEF NetGoes
    <2>2. UNCHANGED <<at, why, reached>> /\ credit' = credit + 1
      BY <1>2 DEF NetGoes
    <2>3. UNCHANGED <<call, error>> /\ net' = how
      BY <2>1 DEF GoAway
    <2>4. phase' = IF how = "refusing" /\ phase \in InFlight THEN "cut" ELSE phase
      BY <2>1 DEF GoAway
    <2>5. credit' \in Int
      BY <2>2 DEF Placed
    <2> QED BY <1>1, <2>1, <2>2, <2>3, <2>4, <2>5 DEF Placed, InFlight, Calls
  <1>3. CASE NetReturns
    BY <1>1, <1>3 DEF NetReturns, ComeBack, callVars, jobVars, Placed, InFlight
  <1>4. CASE Kill
    BY <1>1, <1>4 DEF Kill, Abandon, netVars, Goto, Placed, At, Calls, InFlight
  <1>5. CASE UNCHANGED vars
    BY <1>1, <1>5 DEF vars, jobVars, clientVars, netVars, callVars, Placed, InFlight
  <1> QED BY <1>1, <1>2, <1>3, <1>4, <1>5, WorkerKeepsPlaces, TryingKeepsPlaces DEF Next

\* The invariant the theorems below rest on.
THEOREM PlacedAlways == Spec => []Placed
  <1>1. Init => Placed
    BY PlacedInit
  <1>2. Placed /\ [Next]_vars => Placed'
    BY PlacedStep
  <1> QED BY <1>1, <1>2, PTL DEF Spec

\* An attempt that never got a connection fails its job only if ComfyUI was silent
\* while it ran: what cannot be reached costs no job its attempt.
THEOREM UnreachedIsRequeued == Spec => []NeverReachedIsRequeued
  <1>1. Placed => NeverReachedIsRequeued
    BY DEF Placed, NeverReachedIsRequeued
  <1> QED BY <1>1, PlacedAlways, PTL

-----------------------------------------------------------------------------
(* The budget of GPU time.                                                 *)

\* The job may have its prompt given to ComfyUI once more without another outage
\* or death of the process: it is on its way to a submit, or will be requeued.
MaySubmit ==
  \/ at \in {"idle", "down"} /\ status \in {"queued", "running"}
  \/ at \in {"claimed", "upload", "connect", "requeue"}
  \/ at = "submit" /\ phase \in {"connecting", "flight", "backoff"}
  \/ at \in {"submit", "history", "view"} /\ phase = "over" /\ error = "connect"
  \/ at \in {"submit", "await", "history", "view"} /\ net = "refusing"

\* What is still to come, late requests and the next submit, is paid for.
Budget ==
  /\ credit >= late
  /\ MaySubmit => credit >= late + 1

LEMMA PaidForOneMore ==
  ASSUME NEW c \in Int, NEW l \in Nat, NEW m \in Nat, c >= l,
         m <= l \/ (m = l + 1 /\ c >= l + 1)
  PROVE  c + 1 >= m /\ c + 1 >= m + 1
  OBVIOUS

LEMMA SpentOne ==
  ASSUME NEW c \in Int, NEW l \in Int, NEW a \in Nat, c >= l
  PROVE  c - ((a + 1) - a) >= l - 1 /\ c - (a - a) = c
  OBVIOUS

LEMMA OneLess ==
  ASSUME NEW l \in Nat
  PROVE  (l + 1) - 1 = l /\ l - 1 + 1 = l /\ l + 1 \in Int
  OBVIOUS

LEMMA BudgetUnspent ==
  ASSUME Placed, Budget, MaySubmit' => MaySubmit, UNCHANGED <<late, credit>>
  PROVE  Budget'
  BY DEF Budget

\* An outage or the death of the process pays for one prompt more: a late request
\* of this attempt, or the next attempt's.
LEMMA BudgetPaid ==
  ASSUME Placed, Budget, credit' = credit + 1, late' \in Nat,
         late' <= late \/ (MaySubmit /\ late' = late + 1)
  PROVE  Budget'
  <1>1. late \in Nat /\ credit \in Int
    BY DEF Placed, TypeInv, ClientTypeOK
  <1>2. credit >= late /\ (late' <= late \/ (late' = late + 1 /\ credit >= late + 1))
    BY DEF Budget
  <1>3. credit + 1 >= late' /\ credit + 1 >= late' + 1
    BY <1>1, <1>2, PaidForOneMore
  <1> QED BY <1>3 DEF Budget

LEMMA WorkerKeepsBudget ==
  ASSUME Placed, Budget, Worker
  PROVE  Budget'
  <1> USE DEF Goto
  <1>1. CASE MessagePanics
    <2>1. credit' = credit + 1 /\ UNCHANGED late
      BY <1>1 DEF MessagePanics, Resting, clientVars
    <2>2. late \in Nat
      BY DEF Placed, TypeInv, ClientTypeOK
    <2> QED BY <2>1, <2>2, BudgetPaid
  <1>2. CASE Claim \/ ReadInput \/ Uploaded \/ Connected
    <2>1. MaySubmit /\ UNCHANGED <<late, credit>>
      BY <1>2 DEF Claim, ReadInput, Uploaded, Connected, NextCall, Ok, Returned, Begin,
                  Resting, Rest, clientVars, MaySubmit
    <2> QED BY <2>1, BudgetUnspent
  <1>3. CASE AwaitEnds
    <2>1. ~MaySubmit' /\ UNCHANGED <<late, credit>>
      BY <1>3 DEF AwaitEnds, Begin, Rest, netVars, MaySubmit
    <2> QED BY <2>1, BudgetUnspent
  <1>4. CASE InputMissing \/ AwaitFails \/ AwaitTimesOut \/ Interrupted
    <2>1. ~MaySubmit' /\ UNCHANGED <<late, credit>>
      BY <1>4 DEF InputMissing, AwaitFails, AwaitTimesOut, Interrupted, FailsWith, Resting,
                  Rest, clientVars, MaySubmit
    <2> QED BY <2>1, BudgetUnspent
  <1>5. CASE HistoryTells
    <2>1. CASE NextCall("history", "view")
      <3>1. (MaySubmit' => MaySubmit) /\ UNCHANGED <<late, credit>>
        BY <2>1 DEF NextCall, Ok, Returned, Begin, Rest, netVars, MaySubmit
      <3> QED BY <3>1, BudgetUnspent
    <2>2. CASE FailsWith("history")
      <3>1. ~MaySubmit' /\ UNCHANGED <<late, credit>>
        BY <2>2 DEF FailsWith, Resting, Rest, clientVars, MaySubmit
      <3> QED BY <3>1, BudgetUnspent
    <2> QED BY <1>5, <2>1, <2>2 DEF HistoryTells
  <1>6. CASE Submitted
    <2>1. at = "submit" /\ at' = "await" /\ UNCHANGED <<net, late, credit>>
      BY <1>6 DEF Submitted, Ok, Returned, Resting, Rest, clientVars, netVars
    <2> QED BY <2>1, BudgetUnspent DEF MaySubmit
  <1>7. CASE Done \/ MarkFailed
    <2>1. at' = "idle" /\ status' \in {"done", "failed"} /\ UNCHANGED <<late, credit>>
      BY <1>7 DEF Done, MarkFailed, Resting, Rest, clientVars
    <2> QED BY <2>1, BudgetUnspent DEF MaySubmit
  <1>8. CASE CallFails
    <2>1. /\ at \in Calls /\ phase = "over" /\ at' \in {"requeue", "fail"}
          /\ at' = "requeue" => error = "connect" \/ at = "connect"
          /\ UNCHANGED <<late, credit>>
      BY <1>8 DEF CallFails, Returned, is_unreachable, Resting, Rest, clientVars
    <2> QED BY <2>1, BudgetUnspent DEF MaySubmit, Calls
  <1>9. CASE Requeue
    <2>1. at = "requeue" /\ UNCHANGED <<late, credit>>
      BY <1>9 DEF Requeue, Resting, Rest, clientVars
    <2> QED BY <2>1, BudgetUnspent DEF MaySubmit
  <1>10. CASE Restart
    <2>1. /\ at = "down" /\ at' = "idle" /\ UNCHANGED <<late, credit>>
          /\ status' = IF status = "running" THEN "queued" ELSE status
      BY <1>10 DEF Restart, Resting, Rest, clientVars
    <2> QED BY <2>1, BudgetUnspent DEF MaySubmit
  <1> QED BY <1>1, <1>2, <1>3, <1>4, <1>5, <1>6, <1>7, <1>8, <1>9, <1>10 DEF Worker

\* A try that ends in an error leaves a submit nothing to come but what it owes.
LEMMA FailedTryKeepsBudget ==
  ASSUME Placed, Budget, NEW e \in Errors \ {"connect"}, Fails(e), phase # "over",
         UNCHANGED <<net, at, status, credit>>,
         late' = IF phase = "flight" /\ call = "submit" THEN late + 1 ELSE late
  PROVE  Budget'
  <1>1. at \in Calls /\ call = at
    BY DEF Placed
  <1>2. \/ phase' = "backoff" /\ error' = error /\ at # "submit"
        \/ phase' = "over" /\ error' = e
    BY <1>1, FailsAlternatives, SubmitRetriesConnect
  <1>3. MaySubmit' => MaySubmit
    BY <1>1, <1>2 DEF MaySubmit, Calls
  <1>4. CASE phase = "flight" /\ at = "submit"
    <2>1. ~MaySubmit' /\ MaySubmit
      BY <1>2, <1>4 DEF MaySubmit, Placed, InFlight
    <2>2. credit >= late + 1 /\ late' = late + 1
      BY <1>1, <1>4, <2>1 DEF Budget
    <2> QED BY <2>1, <2>2 DEF Budget
  <1>5. CASE ~(phase = "flight" /\ at = "submit")
    BY <1>1, <1>3, <1>5, BudgetUnspent
  <1> QED BY <1>4, <1>5

LEMMA TryingKeepsBudget ==
  ASSUME Placed, Budget, Trying
  PROVE  Budget'
  <1>1. /\ at' = at /\ status' = status
        /\ credit' = credit - (accepted' - accepted)
        /\ late \in Nat /\ accepted \in Nat /\ credit \in Int
    BY DEF Trying, Spend, Placed, TypeInv, ClientTypeOK
  <1>2. ASSUME accepted' = accepted PROVE credit' = credit
    BY <1>1, <1>2, SpentOne
  <1>3. phase # "over" => at \in Calls /\ call = at /\ error = NoError
    BY DEF Placed
  <1>4. CASE Connects \/ BackoffEnds \/ Answered
    <2>1. UNCHANGED <<net, call, error, late, accepted>> /\ phase # "over"
      BY <1>4 DEF Connects, BackoffEnds, Answered, netVars
    <2>2. MaySubmit' => MaySubmit
      BY <1>1, <1>3, <1>4, <2>1 DEF Connects, BackoffEnds, Answered, MaySubmit, NoError
    <2> QED BY <1>2, <2>1, <2>2, BudgetUnspent
  <1>5. CASE Refused
    <2>1. phase = "connecting" /\ net = "refusing" /\ UNCHANGED <<net, late, accepted>>
      BY <1>5 DEF Refused, netVars
    <2>2. MaySubmit
      BY <1>3, <2>1 DEF MaySubmit, Calls
    <2> QED BY <1>2, <2>1, <2>2, BudgetUnspent
  <1>6. CASE TimesOut \/ CutNoticed \/ Rejected \/ Breaks
    <2>1. PICK e \in Errors \ {"connect"} : Fails(e) /\ phase # "over"
      BY <1>6 DEF TimesOut, CutNoticed, Rejected, Breaks, Errors, InFlight
    <2>2. UNCHANGED <<net, accepted>>
      BY <1>6 DEF TimesOut, CutNoticed, Rejected, Breaks, netVars
    <2>3. CASE late' = IF phase = "flight" /\ call = "submit" THEN late + 1 ELSE late
      BY <1>1, <1>2, <2>1, <2>2, <2>3, FailedTryKeepsBudget
    <2>4. CASE Rejected
      <3>1. UNCHANGED late /\ net = "up"
        BY <2>4 DEF Rejected
      <3>2. MaySubmit' => MaySubmit
        <4>1. \/ phase' = "backoff" /\ at # "submit" /\ error' = error
              \/ phase' = "over" /\ error' = e
          BY <1>3, <2>1, FailsAlternatives, SubmitRetriesConnect
        <4> QED BY <1>1, <1>3, <2>1, <2>2, <3>1, <4>1 DEF MaySubmit, Calls
      <3> QED BY <1>2, <2>2, <3>1, <3>2, BudgetUnspent
    <2> QED BY <1>6, <2>3, <2>4 DEF TimesOut, CutNoticed, Breaks
  <1>7. CASE Serve
    <2>1. phase = "flight" /\ phase' = "served" /\ net' = "up" /\ UNCHANGED late /\ call = at
      BY <1>3, <1>7 DEF Serve, netVars
    <2>2. CASE at = "submit"
      <3>1. MaySubmit /\ ~MaySubmit'
        BY <1>1, <2>1, <2>2 DEF MaySubmit
      <3>2. credit >= late + 1 /\ accepted' = accepted + 1
        BY <1>7, <2>1, <2>2, <3>1 DEF Serve, Budget
      <3>3. credit' >= late'
        BY <1>1, <2>1, <3>2, SpentOne, OneLess
      <3> QED BY <3>1, <3>3 DEF Budget
    <2>3. CASE at # "submit"
      <3>1. accepted' = accepted /\ error' = error /\ net' = net
        BY <1>7, <2>1, <2>3 DEF Serve, netVars
      <3>2. MaySubmit' => MaySubmit
        BY <1>1, <2>1, <2>3, <3>1 DEF MaySubmit
      <3> QED BY <1>2, <2>1, <3>1, <3>2, BudgetUnspent
    <2> QED BY <2>2, <2>3
  <1>8. CASE ServeLate
    <2>1. late' = late - 1 /\ accepted' = accepted + 1 /\ UNCHANGED <<net, phase, error>>
      BY <1>8 DEF ServeLate, netVars, callVars
    <2>2. credit' >= late'
      BY <1>1, <2>1, SpentOne DEF Budget
    <2>3. MaySubmit' => MaySubmit
      BY <1>1, <2>1 DEF MaySubmit
    <2>4. MaySubmit => credit' >= late' + 1
      <3>1. SUFFICES ASSUME MaySubmit PROVE credit' >= late' + 1
        OBVIOUS
      <3>2. credit' >= (late + 1) - 1
        BY <1>1, <2>1, <3>1, SpentOne, OneLess DEF Budget
      <3> QED BY <1>1, <2>1, <3>2, OneLess
    <2> QED BY <2>2, <2>3, <2>4 DEF Budget
  <1> QED BY <1>4, <1>5, <1>6, <1>7, <1>8 DEF Trying, Try, Own

LEMMA BudgetStep ==
  ASSUME Placed, Budget, [Next]_vars
  PROVE  Budget'
  <1>1. late \in Nat /\ late' \in Nat
    BY PlacedStep DEF Placed, TypeInv, ClientTypeOK
  <1>2. CASE NetGoes
    <2>1. late' \in {0, late} /\ credit' = credit + 1
      BY <1>2 DEF NetGoes, GoAway
    <2>2. late' <= late
      BY <1>1, <2>1
    <2> QED BY <1>1, <2>1, <2>2, BudgetPaid
  <1>3. CASE NetReturns
    <2>1. net' = "up" /\ UNCHANGED <<phase, error, late, at, status, credit>>
      BY <1>3 DEF NetReturns, ComeBack, callVars, jobVars
    <2>2. MaySubmit' => MaySubmit
      BY <2>1 DEF MaySubmit
    <2> QED BY <2>1, <2>2, BudgetUnspent
  <1>4. CASE Kill
    <2>1. credit' = credit + 1
      BY <1>4 DEF Kill
    <2>2. late' = late \/ (late' = late + 1 /\ phase = "flight" /\ call = "submit")
      BY <1>4 DEF Kill, Abandon
    <2>3. phase = "flight" /\ call = "submit" => MaySubmit
      BY DEF Placed, MaySubmit
    <2>4. late' <= late \/ (MaySubmit /\ late' = late + 1)
      BY <1>1, <2>2, <2>3
    <2> QED BY <1>1, <2>1, <2>4, BudgetPaid
  <1>5. CASE UNCHANGED vars
    <2>1. UNCHANGED <<net, phase, error, late, at, status, credit>>
      BY <1>5 DEF vars, clientVars, netVars, callVars, jobVars
    <2>2. MaySubmit' => MaySubmit
      BY <2>1 DEF MaySubmit
    <2> QED BY <2>1, <2>2, BudgetUnspent
  <1> QED BY <1>2, <1>3, <1>4, <1>5, WorkerKeepsBudget, TryingKeepsBudget DEF Next

\* However often it is retried, requeued, and found again after a restart, a job's
\* prompt is given to ComfyUI once, and once more for every outage of ComfyUI and
\* every death of the process: for any MAX_ATTEMPTS and any number of each.
THEOREM GpuTimeIsPaidFor == Spec => []GpuTimeRepeatedOnlyByOutage
  <1>1. Init => Placed /\ Budget
    <2> SUFFICES ASSUME Init PROVE Placed /\ Budget
      OBVIOUS
    <2>1. credit = 1 /\ late = 0
      BY DEF Init, ClientInit
    <2> QED BY <2>1, PlacedInit DEF Budget
  <1>2. Placed /\ Budget /\ [Next]_vars => (Placed /\ Budget)'
    BY PlacedStep, BudgetStep
  <1>3. Placed /\ Budget => GpuTimeRepeatedOnlyByOutage
    BY DEF Placed, Budget, TypeInv, ClientTypeOK, GpuTimeRepeatedOnlyByOutage
  <1> QED BY <1>1, <1>2, <1>3, PTL DEF Spec

-----------------------------------------------------------------------------
(* Redaction.  The induction is over sets of indices: an interval is within *)
(* any set that holds 0 and, with i - 1, holds i.                          *)

\* Induction over an interval.
LEMMA Climb ==
  ASSUME NEW n \in Nat, NEW S, 0 \in S, \A i \in 1 .. n : i - 1 \in S => i \in S
  PROVE  0 .. n \subseteq S
  <1> DEFINE Bad == {i \in 0 .. n : i \notin S}
  <1>1. SUFFICES ASSUME Bad # {} PROVE FALSE
    OBVIOUS
  <1>2. PICK i \in Bad : \A k \in Bad : <<k, i>> \notin OpToRel(<, Nat)
    <2>1. Bad \subseteq Nat
      OBVIOUS
    <2> QED BY <1>1, <2>1, NatLessThanWellFounded, WFMin
  <1>3. i \in 0 .. n /\ i # 0 /\ i \notin S
    BY <1>2
  <1>4. i - 1 \in 0 .. n /\ i \in 1 .. n
    BY <1>3
  <1>5. <<i - 1, i>> \in OpToRel(<, Nat)
    BY <1>4 DEF OpToRel
  <1>6. i - 1 \in S
    BY <1>2, <1>4, <1>5
  <1> QED BY <1>3, <1>4, <1>6

\* A function defined step by step over an interval exists: what a recursive
\* function needs to be what its equation says.
Steps(n, V) == [(1 .. n) \X V -> V]
Taken(f, n, V, v, step) ==
  f \in [0 .. n -> V] /\ f[0] = v /\ \A i \in 1 .. n : f[i] = step[<<i, f[i - 1]>>]

LEMMA StepByStep ==
  ASSUME NEW n \in Nat, NEW V, NEW v \in V, NEW step \in Steps(n, V)
  PROVE  \E f : Taken(f, n, V, v, step)
  <1> DEFINE Goes(f, k) == f[0] = v /\ \A i \in 1 .. k : f[i] = step[<<i, f[i - 1]>>]
             S == {k \in 0 .. n : \E f \in [0 .. k -> V] : Goes(f, k)}
  <1>1. 0 \in S
    <2> DEFINE g == [i \in 0 .. 0 |-> v]
    <2>1. g \in [0 .. 0 -> V] /\ Goes(g, 0)
      OBVIOUS
    <2>2. \E f \in [0 .. 0 -> V] : Goes(f, 0)
      <3> HIDE DEF g, Goes
      <3> QED BY <2>1
    <2> QED BY <2>2
  <1>2. ASSUME NEW k \in 1 .. n, k - 1 \in S PROVE k \in S
    <2>1. PICK f \in [0 .. (k - 1) -> V] : Goes(f, k - 1)
      BY <1>2
    <2> DEFINE g == [i \in 0 .. k |-> IF i = k THEN step[<<k, f[k - 1]>>] ELSE f[i]]
    <2>2. k - 1 \in 0 .. (k - 1) /\ f[k - 1] \in V
      BY <2>1
    <2>3. g \in [0 .. k -> V]
      BY <2>1, <2>2 DEF Steps
    <2>4. g[0] = v
      BY <2>1
    <2>5. ASSUME NEW i \in 1 .. k PROVE g[i] = step[<<i, g[i - 1]>>]
      <3>1. i - 1 \in 0 .. k /\ i - 1 # k /\ g[i - 1] = f[i - 1]
        OBVIOUS
      <3>2. CASE i = k
        BY <3>1, <3>2
      <3>3. CASE i # k
        <4>1. i \in 1 .. (k - 1) /\ g[i] = f[i]
          BY <3>3
        <4> QED BY <2>1, <3>1, <4>1
      <3> QED BY <3>2, <3>3
    <2>6. \E h \in [0 .. k -> V] : Goes(h, k)
      <3>1. Goes(g, k)
        BY <2>4, <2>5
      <3> HIDE DEF g, Goes
      <3> QED BY <2>3, <3>1
    <2> QED BY <2>6
  <1>3. n \in S
    <2> HIDE DEF S
    <2> QED BY <1>1, <1>2, Climb
  <1> QED BY <1>3 DEF Taken

\* What the recursive function of Bytes computes.
LEMMA BytesUpTo ==
  ASSUME NEW chars \in Seq(Widths)
  PROVE  \E f \in [0 .. Len(chars) -> Nat] :
           /\ f[0] = 0 /\ \A i \in 1 .. Len(chars) : f[i] = f[i - 1] + chars[i]
           /\ Bytes(chars) = f[Len(chars)]
  <1> DEFINE L == Len(chars)
             e(f) == [n \in 0 .. L |-> IF n = 0 THEN 0 ELSE f[n - 1] + chars[n]]
             u == CHOOSE f : f = e(f)
  <1>1. L \in Nat /\ \A i \in 1 .. L : chars[i] \in Nat
    BY DEF Widths
  <1>2. PICK f \in [0 .. L -> Nat] :
           f[0] = 0 /\ \A i \in 1 .. L : f[i] = f[i - 1] + chars[i]
    <2> DEFINE step == [x \in (1 .. L) \X Nat |-> x[2] + chars[x[1]]]
               V == Nat
               v == 0
    <2>1. step \in Steps(L, V) /\ v \in V /\ L \in Nat
      BY <1>1 DEF Steps
    <2>2. PICK f : Taken(f, L, V, v, step)
      <3> HIDE DEF step, L, V, v
      <3> QED BY <2>1, StepByStep
    <2>3. ASSUME NEW i \in 1 .. L PROVE step[<<i, f[i - 1]>>] = f[i - 1] + chars[i]
      <3>1. i - 1 \in 0 .. L
        BY <1>1
      <3>2. f[i - 1] \in Nat
        BY <2>2, <3>1 DEF Taken
      <3>3. <<i, f[i - 1]>> \in (1 .. L) \X Nat
        BY <3>2
      <3> QED BY <3>3
    <2> HIDE DEF step, L
    <2> QED BY <2>2, <2>3 DEF Taken
  <1>3. f = e(f)
    <2>1. \A i \in 0 .. L : f[i] = IF i = 0 THEN 0 ELSE f[i - 1] + chars[i]
      BY <1>1, <1>2
    <2> QED BY <1>2, <2>1
  <1>4. u = e(u)
    BY <1>3
  <1>5. \A i \in 0 .. L : u[i] = f[i]
    <2> DEFINE S == {i \in 0 .. L : u[i] = f[i]}
    <2>1. 0 \in S
      <3>1. 0 \in 0 .. L
        BY <1>1
      <3>2. u[0] = e(u)[0]
        BY <1>4
      <3> QED BY <1>2, <3>1, <3>2
    <2>2. ASSUME NEW i \in 1 .. L, i - 1 \in S PROVE i \in S
      <3>1. i \in 0 .. L /\ i # 0
        BY <1>1
      <3>2. u[i] = e(u)[i]
        BY <1>4
      <3>3. u[i] = u[i - 1] + chars[i]
        BY <3>1, <3>2
      <3> QED BY <1>2, <2>2, <3>1, <3>3
    <2> HIDE DEF S
    <2>3. 0 .. L \subseteq S
      BY <1>1, <2>1, <2>2, Climb
    <2> QED BY <2>3 DEF S
  <1>6. Bytes(chars) = u[L]
    BY DEF Bytes
  <1> QED BY <1>1, <1>2, <1>5, <1>6

\* The first l characters of a text.
First(s, l) == SubSeq(s, 1, l)

LEMMA PrefixIs ==
  ASSUME NEW s \in Chars, NEW l \in 0 .. Len(s)
  PROVE  /\ First(s, l) \in Chars /\ Len(First(s, l)) = l
         /\ \A i \in 1 .. l : First(s, l)[i] = s[i]
         /\ First(s, Len(s)) = s
  <1>1. \A i \in 1 .. l : s[i] \in Widths
    BY ElementOfSeq DEF Chars
  <1>2. l \in Int /\ 1 \in Int
    OBVIOUS
  <1>3. SubSeq(s, 1, l) \in Seq(Widths) /\ Len(SubSeq(s, 1, l)) = l
          /\ \A i \in 1 .. l : SubSeq(s, 1, l)[i] = s[i]
    BY <1>1, <1>2, SubSeqProperties
  <1> QED BY <1>3, SubSeqFull DEF Chars, First

\* The bytes of the prefixes of a text, one character after another.
LEMMA BytesOfPrefixes ==
  ASSUME NEW s \in Chars
  PROVE  \E f \in [0 .. Len(s) -> Nat] :
           /\ f[0] = 0 /\ \A i \in 1 .. Len(s) : f[i] = f[i - 1] + s[i]
           /\ \A l \in 0 .. Len(s) : Bytes(First(s, l)) = f[l]
  <1>1. PICK f \in [0 .. Len(s) -> Nat] :
           f[0] = 0 /\ \A i \in 1 .. Len(s) : f[i] = f[i - 1] + s[i]
    BY BytesUpTo DEF Chars
  <1>2. ASSUME NEW l \in 0 .. Len(s) PROVE Bytes(First(s, l)) = f[l]
    <2> DEFINE p == First(s, l)
    <2>1. p \in Chars /\ Len(p) = l /\ \A i \in 1 .. l : p[i] = s[i]
      BY PrefixIs
    <2> HIDE DEF p
    <2>2. PICK g \in [0 .. l -> Nat] :
             g[0] = 0 /\ (\A i \in 1 .. l : g[i] = g[i - 1] + p[i]) /\ Bytes(p) = g[l]
      BY <2>1, BytesUpTo DEF Chars
    <2> DEFINE S == {i \in 0 .. l : g[i] = f[i]}
    <2>3. 0 \in S
      BY <1>1, <2>2
    <2>4. ASSUME NEW i \in 1 .. l, i - 1 \in S PROVE i \in S
      <3>1. i \in 1 .. Len(s) /\ i \in 0 .. l
        BY DEF Chars
      <3> QED BY <1>1, <2>1, <2>2, <2>4, <3>1
    <2> HIDE DEF S
    <2>5. 0 .. l \subseteq S
      <3>1. l \in Nat
        BY DEF Chars
      <3> QED BY <2>3, <2>4, <3>1, Climb
    <2> QED BY <2>2, <2>5 DEF S, p
  <1> QED BY <1>1, <1>2

\* Every character has a width, so a longer prefix has more bytes.
LEMMA LongerIsMore ==
  ASSUME NEW s \in Chars, NEW k \in 0 .. Len(s), NEW l \in 0 .. Len(s), k < l
  PROVE  Bytes(First(s, k)) < Bytes(First(s, l))
  <1>1. PICK f \in [0 .. Len(s) -> Nat] :
           /\ \A i \in 1 .. Len(s) : f[i] = f[i - 1] + s[i]
           /\ \A i \in 0 .. Len(s) : Bytes(First(s, i)) = f[i]
    BY BytesOfPrefixes
  <1> DEFINE S == {i \in 0 .. Len(s) : k < i => f[k] < f[i]}
  <1>2. 0 \in S
    OBVIOUS
  <1>3. ASSUME NEW i \in 1 .. Len(s), i - 1 \in S PROVE i \in S
    <2>1. s[i] \in Widths
      BY ElementOfSeq DEF Chars
    <2>2. /\ i \in Nat /\ k \in Nat /\ i - 1 \in 0 .. Len(s) /\ i \in 0 .. Len(s)
          /\ f[i] \in Nat /\ f[i - 1] \in Nat /\ f[k] \in Nat
      OBVIOUS
    <2>3. f[i] > f[i - 1]
      BY <1>1, <2>1, <2>2 DEF Widths
    <2>4. CASE k < i - 1
      BY <1>3, <2>2, <2>3, <2>4
    <2>5. CASE ~(k < i - 1)
      <3>1. k < i => k = i - 1
        BY <2>2, <2>5
      <3> QED BY <2>2, <2>3, <3>1
    <2> QED BY <2>4, <2>5
  <1>4. Len(s) \in Nat
    BY DEF Chars
  <1> HIDE DEF S
  <1>5. 0 .. Len(s) \subseteq S
    BY <1>2, <1>3, <1>4, Climb
  <1> QED BY <1>1, <1>5 DEF S

LEMMA BytesIsNat ==
  ASSUME NEW s \in Chars
  PROVE  Bytes(s) \in Nat /\ Bytes(<<>>) = 0
  <1>1. Len(s) \in Nat /\ First(s, Len(s)) = s /\ Len(s) \in 0 .. Len(s)
    BY PrefixIs DEF Chars
  <1>2. Bytes(First(s, Len(s))) \in Nat /\ Bytes(First(s, 0)) = 0
    BY <1>1, BytesOfPrefixes
  <1>3. First(s, 0) = <<>>
    BY SubSeqEmpty DEF First
  <1> QED BY <1>1, <1>2, <1>3

\* What redact_token makes of a word, the space before it included, is text.
LEMMA TokenIsText ==
  ASSUME NEW msg \in Texts, NEW i \in 1 .. Len(msg)
  PROVE  redact_token(msg[i]) \in Chars /\ Space \o redact_token(msg[i]) \in Chars
  <1> DEFINE w == msg[i]
             core == IF w.kind = "plain" THEN w.core ELSE Marker[w.kind]
  <1>1. w \in [lead : Chars, kind : {"plain", "path", "url"}, core : Chars, trail : Chars]
    BY ElementOfSeq DEF Texts
  <1>2. core \in Chars
    <2>1. <<1, 1, 1, 1, 1, 1>> \in Chars /\ <<1, 1, 1, 1, 1>> \in Chars
      BY DEF Chars, Widths
    <2>2. w.core \in Chars /\ w.kind \in {"plain", "path", "url"}
      BY <1>1
    <2>3. Marker["path"] \in Chars /\ Marker["url"] \in Chars
      BY <2>1 DEF Marker
    <2> QED BY <2>2, <2>3
  <1>3. w.lead \o core \in Chars
    BY <1>1, <1>2, ConcatProperties DEF Chars
  <1>4. redact_token(w) \in Chars
    BY <1>1, <1>3, ConcatProperties DEF redact_token, Chars
  <1>5. Space \in Chars
    BY DEF Space, Chars, Widths
  <1> QED BY <1>4, <1>5, ConcatProperties DEF Chars

LEMMA Least ==
  ASSUME NEW S \in SUBSET Nat, S # {}
  PROVE  (CHOOSE i \in S : \A k \in S : i <= k) \in S
  <1>1. PICK i \in S : \A k \in S : <<k, i>> \notin OpToRel(<, Nat)
    BY NatLessThanWellFounded, WFMin
  <1>2. ASSUME NEW k \in S PROVE i <= k
    <2>1. i \in Nat /\ k \in Nat
      OBVIOUS
    <2>2. ASSUME k < i PROVE FALSE
      <3>1. <<k, i>> \in OpToRel(<, Nat)
        BY <2>1, <2>2 DEF OpToRel
      <3> QED BY <1>1, <3>1
    <2> QED BY <2>1, <2>2
  <1> QED BY <1>2

-----------------------------------------------------------------------------
(* The loop of redact_internal.                                           *)

\* What the loop pushes for its i-th word.
Piece(msg, i) == IF i = 1 THEN redact_token(msg[i]) ELSE Space \o redact_token(msg[i])

\* out[i] is what i words have been pushed to.
Pushes(out, msg) ==
  /\ out \in [0 .. Len(msg) -> Chars] /\ out[0] = <<>>
  /\ \A i \in 1 .. Len(msg) : out[i] = out[i - 1] \o Piece(msg, i)

LEMMA PushesExists ==
  ASSUME NEW msg \in Texts
  PROVE  \E out : Pushes(out, msg)
  <1> DEFINE n == Len(msg)
             V == Chars
             v == <<>>
             step == [x \in (1 .. n) \X V |-> x[2] \o Piece(msg, x[1])]
  <1>1. n \in Nat /\ v \in V
    BY DEF Texts, Chars
  <1>2. ASSUME NEW i \in 1 .. n PROVE Piece(msg, i) \in Chars
    BY TokenIsText DEF Piece
  <1>3. step \in Steps(n, V)
    <2>1. ASSUME NEW x \in (1 .. n) \X V PROVE x[2] \o Piece(msg, x[1]) \in V
      <3>1. x[1] \in 1 .. n /\ x[2] \in Chars
        OBVIOUS
      <3> QED BY <1>2, <3>1, ConcatProperties DEF Chars
    <2> QED BY <2>1 DEF Steps
  <1>4. PICK out : Taken(out, n, V, v, step)
    <2> HIDE DEF n, V, v, step
    <2> QED BY <1>1, <1>3, StepByStep
  <1>5. ASSUME NEW i \in 1 .. n PROVE out[i] = out[i - 1] \o Piece(msg, i)
    <2>1. i - 1 \in 0 .. n
      BY <1>1
    <2>2. out[i - 1] \in V
      BY <1>4, <2>1 DEF Taken
    <2>3. <<i, out[i - 1]>> \in (1 .. n) \X V
      BY <2>2
    <2>4. step[<<i, out[i - 1]>>] = out[i - 1] \o Piece(msg, i)
      BY <2>3
    <2>5. out[i] = step[<<i, out[i - 1]>>]
      <3> HIDE DEF step, V
      <3> QED BY <1>4 DEF Taken
    <2> QED BY <2>4, <2>5
  <1>6. out \in [0 .. n -> Chars] /\ out[0] = <<>>
    BY <1>4 DEF Taken
  <1> QED BY <1>5, <1>6 DEF Pushes

\* What is pushed stays: the result so far begins every later one.
LEMMA OutGrows ==
  ASSUME NEW msg \in Texts, NEW out, Pushes(out, msg),
         NEW i \in 0 .. Len(msg), NEW j \in 0 .. Len(msg), i <= j
  PROVE  Len(out[i]) <= Len(out[j]) /\ out[i] = First(out[j], Len(out[i]))
  <1> DEFINE n == Len(msg)
             S == {k \in 0 .. n : i <= k => /\ Len(out[i]) <= Len(out[k])
                                            /\ out[i] = First(out[k], Len(out[i]))}
  <1>1. n \in Nat /\ i \in Nat /\ \A k \in 0 .. n : out[k] \in Chars /\ Len(out[k]) \in Nat
    <2>1. n \in Nat
      BY DEF Texts
    <2>2. \A k \in 0 .. n : out[k] \in Chars
      BY DEF Pushes
    <2> QED BY <2>1, <2>2, LenProperties DEF Chars
  <1>a. out[i] = First(out[i], Len(out[i]))
    BY <1>1, PrefixIs
  <1>2. 0 \in S
    <2>1. i <= 0 => i = 0
      BY <1>1
    <2> QED BY <1>1, <1>a, <2>1
  <1>3. ASSUME NEW k \in 1 .. n, k - 1 \in S PROVE k \in S
    <2>1. k - 1 \in 0 .. n /\ k \in 0 .. n
      BY <1>1
    <2>2. CASE i <= k - 1
      <3> DEFINE s == out[k - 1]
                 t == Piece(msg, k)
                 l == Len(out[i])
      <3>1. s \in Chars /\ t \in Chars /\ l \in Nat
        BY <1>1, <2>1, TokenIsText DEF Piece
      <3>2. out[k] = s \o t
        BY DEF Pushes
      <3>3. l <= Len(s) /\ out[i] = First(s, l)
        BY <1>3, <2>2
      <3> HIDE DEF s, t, l
      <3>4. Len(s \o t) = Len(s) + Len(t) /\ s \o t \in Chars /\ Len(s) \in Nat /\ Len(t) \in Nat
        BY <3>1, ConcatProperties DEF Chars
      <3>5. l <= Len(s \o t)
        BY <3>1, <3>3, <3>4
      <3>6. First(s \o t, l) = First(s, l)
        <4>1. CASE l = 0
          BY <4>1, SubSeqEmpty DEF First
        <4>2. CASE l # 0
          <5>1. l \in 1 .. Len(s) /\ 1 \in 1 .. Len(s)
            BY <3>1, <3>3, <3>4, <4>2
          <5> QED BY <5>1, <3>1, SubSeqOfConcat1 DEF First, Chars
        <4> QED BY <4>1, <4>2
      <3> QED BY <2>1, <3>2, <3>3, <3>5, <3>6 DEF l
    <2>3. CASE ~(i <= k - 1)
      <3>1. i <= k => i = k
        BY <1>1, <2>1, <2>3
      <3> QED BY <1>1, <1>a, <2>1, <3>1
    <2> QED BY <2>2, <2>3
  <1>4. 0 .. n \subseteq S
    <2> HIDE DEF S, n
    <2> QED BY <1>1, <1>2, <1>3, Climb
  <1> QED BY <1>4

\* The function in redact_internal's definition is that one.
LEMMA LoopIs ==
  ASSUME NEW msg \in Texts, NEW out, Pushes(out, msg)
  PROVE  LET full == {i \in 1 .. Len(msg) : Bytes(out[i]) >= MaxLen}
         IN  redact_internal(msg) =
               IF full = {} THEN out[Len(msg)]
               ELSE LET cut == truncate(out[CHOOSE i \in full : \A k \in full : i <= k], MaxLen)
                    IN  IF cut = Panic THEN Panic ELSE cut \o Ellipsis
  <1> DEFINE n == Len(msg)
             e(f) == [i \in 0 .. n |->
                       IF i = 0 THEN <<>>
                       ELSE f[i - 1] \o (IF i > 1 THEN Space ELSE <<>>) \o redact_token(msg[i])]
             u == CHOOSE f : f = e(f)
  <1>1. n \in Nat /\ \A i \in 0 .. n : out[i] \in Chars
    BY DEF Texts, Pushes
  <1>2. ASSUME NEW i \in 1 .. n
        PROVE  out[i] = out[i - 1] \o (IF i > 1 THEN Space ELSE <<>>) \o redact_token(msg[i])
    <2> DEFINE s == out[i - 1]
               t == redact_token(msg[i])
    <2>1. s \in Chars /\ t \in Chars /\ Space \in Chars
      BY <1>1, TokenIsText DEF Space, Chars, Widths
    <2>2. out[i] = s \o Piece(msg, i)
      BY DEF Pushes
    <2>3. CASE i = 1
      <3>1. s \o <<>> = s
        BY <2>1, ConcatEmptySeq DEF Chars
      <3> QED BY <2>2, <2>3, <3>1 DEF Piece
    <2>4. CASE i # 1
      <3>1. (s \o Space) \o t = s \o (Space \o t)
        <4> HIDE DEF s, t
        <4> QED BY <2>1, ConcatAssociative DEF Chars
      <3>2. i > 1
        BY <1>1, <2>4
      <3> QED BY <2>2, <2>4, <3>1, <3>2 DEF Piece
    <2> QED BY <2>3, <2>4
  <1>3. out = e(out)
    <2>1. \A i \in 0 .. n : i = 0 \/ i \in 1 .. n
      BY <1>1
    <2>2. \A i \in 0 .. n : out[i] = e(out)[i]
      BY <1>2, <2>1 DEF Pushes
    <2>3. out \in [0 .. n -> Chars]
      BY DEF Pushes
    <2> QED BY <2>2, <2>3
  <1>4. u = e(u)
    BY <1>3
  <1>5. \A i \in 0 .. n : u[i] = out[i]
    <2> DEFINE S == {i \in 0 .. n : u[i] = out[i]}
    <2>1. 0 \in S
      <3>1. 0 \in 0 .. n
        BY <1>1
      <3>2. u[0] = e(u)[0]
        BY <1>4
      <3> QED BY <3>1, <3>2 DEF Pushes
    <2>2. ASSUME NEW i \in 1 .. n, i - 1 \in S PROVE i \in S
      <3>1. i \in 0 .. n /\ i # 0
        BY <1>1
      <3>2. u[i] = e(u)[i]
        BY <1>4
      <3>3. u[i] = u[i - 1] \o (IF i > 1 THEN Space ELSE <<>>) \o redact_token(msg[i])
        BY <3>1, <3>2
      <3> QED BY <1>2, <2>2, <3>1, <3>3
    <2>3. 0 .. n \subseteq S
      <3> HIDE DEF S, n
      <3> QED BY <1>1, <2>1, <2>2, Climb
    <2> QED BY <2>3
  <1>6. u = out
    <2>1. out \in [0 .. n -> Chars]
      BY DEF Pushes
    <2>2. u = [i \in 0 .. n |-> u[i]]
      BY <1>4
    <2>3. out = [i \in 0 .. n |-> out[i]]
      BY <2>1
    <2> HIDE DEF u, n
    <2> QED BY <1>5, <2>2, <2>3
  <1>7. redact_internal(msg) =
          LET full == {i \in 1 .. Len(msg) : Bytes(u[i]) >= MaxLen}
          IN  IF full = {} THEN u[Len(msg)]
              ELSE LET cut == truncate(u[CHOOSE i \in full : \A k \in full : i <= k], MaxLen)
                   IN  IF cut = Panic THEN Panic ELSE cut \o Ellipsis
    BY DEF redact_internal
  <1> HIDE DEF u
  <1> QED BY <1>6, <1>7

\* And so is the one in FlattenSeq: pushed to the end, it is the words joined.
LEMMA WholeIs ==
  ASSUME NEW msg \in Texts, NEW out, Pushes(out, msg)
  PROVE  Whole(msg) = out[Len(msg)]
  <1> DEFINE n == Len(msg)
             words == [i \in DOMAIN msg |-> redact_token(msg[i])]
             p == [i \in DOMAIN words |-> IF i = 1 THEN words[i] ELSE Space \o words[i]]
             e(f) == [i \in 1 .. Len(p) |-> IF i = 1 THEN p[i] ELSE f[i - 1] \o p[i]]
             u == CHOOSE f : f = e(f)
  <1>1. n \in Nat /\ DOMAIN msg = 1 .. n
    BY DEF Texts
  <1>2. \A i \in 0 .. n : out[i] \in Chars
    BY DEF Pushes
  <1>3. DOMAIN p = 1 .. n /\ \A i \in 1 .. n : p[i] = Piece(msg, i)
    BY <1>1 DEF Piece
  <1>4. p \in Seq(Chars) /\ Len(p) = n
    <2>1. p = [i \in 1 .. n |-> Piece(msg, i)]
      BY <1>1, <1>3
    <2>2. \A i \in 1 .. n : Piece(msg, i) \in Chars
      BY TokenIsText DEF Piece
    <2>3. p \in [1 .. n -> Chars]
      BY <2>1, <2>2
    <2> HIDE DEF p, n
    <2> QED BY <1>1, <2>3
  <1>5. Whole(msg) = FlattenSeq(p)
    BY DEF Whole
  <1> HIDE DEF p, words
  <1>6. FlattenSeq(p) = IF n = 0 THEN p ELSE u[n]
    BY <1>4 DEF FlattenSeq
  <1>7. CASE n = 0
    <2>1. p = <<>>
      BY <1>4, <1>7, EmptySeq
    <2> QED BY <1>5, <1>6, <1>7, <2>1 DEF Pushes
  <1>8. CASE n # 0
    <2> DEFINE g == [i \in 1 .. n |-> out[i]]
    <2>1. \A i \in 1 .. n : out[i] = out[i - 1] \o p[i]
      BY <1>3 DEF Pushes
    <2>2. ASSUME NEW i \in 1 .. n PROVE g[i] = IF i = 1 THEN p[i] ELSE g[i - 1] \o p[i]
      <3>1. CASE i = 1
        <4>1. out[1] = <<>> \o p[1]
          <5>1. out[i] = out[i - 1] \o p[i]
            BY <2>1
          <5>2. out[0] = <<>> /\ i - 1 = 0
            BY <3>1 DEF Pushes
          <5> HIDE DEF n
          <5> QED BY <3>1, <5>1, <5>2
        <4>2. p[1] \in Chars
          BY <1>4, <3>1
        <4> QED BY <3>1, <4>1, <4>2, ConcatEmptySeq DEF Chars
      <3>2. CASE i # 1
        <4>1. i - 1 \in 1 .. n
          BY <1>1, <3>2
        <4> QED BY <2>1, <3>2, <4>1
      <3> QED BY <3>1, <3>2
    <2>3. g = e(g)
      BY <1>4, <2>2
    <2>4. u = e(u)
      BY <2>3
    <2> DEFINE S == {i \in 0 .. n : i = 0 \/ u[i] = g[i]}
    <2>5. 0 \in S
      BY <1>1
    <2>6. ASSUME NEW i \in 1 .. n, i - 1 \in S PROVE i \in S
      <3>1. u[i] = IF i = 1 THEN p[i] ELSE u[i - 1] \o p[i]
        BY <1>4, <2>4
      <3>2. i # 1 => u[i - 1] = g[i - 1]
        BY <1>1, <2>6
      <3>3. i \in 0 .. n
        BY <1>1
      <3> HIDE DEF g, u
      <3> QED BY <2>2, <3>1, <3>2, <3>3
    <2>7. 0 .. n \subseteq S
      <3> HIDE DEF S, n
      <3> QED BY <1>1, <2>5, <2>6, Climb
    <2>8. u[n] = g[n] /\ n \in 1 .. n
      <3>1. n \in 1 .. n /\ n \in 0 .. n
        BY <1>1, <1>8
      <3>2. n \in S
        BY <2>7, <3>1
      <3> HIDE DEF u, g
      <3> QED BY <1>8, <3>1, <3>2
    <2> HIDE DEF u
    <2> QED BY <1>5, <1>6, <1>8, <2>8
  <1> QED BY <1>7, <1>8

LEMMA OneCut ==
  ASSUME NEW s \in Chars, NEW k \in 0 .. Len(s), NEW l \in 0 .. Len(s),
         Bytes(First(s, k)) <= Bytes(First(s, l))
  PROVE  k <= l
  <1>1. Bytes(First(s, k)) \in Nat /\ Bytes(First(s, l)) \in Nat
    BY PrefixIs, BytesIsNat
  <1>2. k \in Nat /\ l \in Nat
    BY DEF Chars
  <1>3. CASE l < k
    BY <1>1, <1>3, LongerIsMore
  <1> QED BY <1>2, <1>3

\* A prefix of exactly MaxLen bytes is the longest that fits.
LEMMA TheLongest ==
  ASSUME NEW s \in Chars, NEW l \in 0 .. Len(s), Bytes(First(s, l)) = MaxLen
  PROVE  LET fits == {p \in Prefixes(s) : Bytes(p) <= MaxLen}
         IN  (CHOOSE p \in fits : \A q \in fits : Len(q) <= Len(p)) = First(s, l)
  <1> DEFINE fits == {p \in Prefixes(s) : Bytes(p) <= MaxLen}
             longest(p) == p \in fits /\ \A q \in fits : Len(q) <= Len(p)
  <1>1. Prefixes(s) = {First(s, k) : k \in 0 .. Len(s)}
    BY DEF Prefixes, First
  <1>2. \A k \in 0 .. Len(s) : Len(First(s, k)) = k
    BY PrefixIs
  <1>3. First(s, l) \in fits
    BY <1>1, MaxLenAssumption
  <1>4. ASSUME NEW q \in fits PROVE \E k \in 0 .. l : q = First(s, k)
    <2>1. PICK k \in 0 .. Len(s) : q = First(s, k) /\ Bytes(First(s, k)) <= Bytes(First(s, l))
      BY <1>1
    <2>2. k <= l
      BY <2>1, OneCut
    <2> QED BY <2>1, <2>2
  <1>5. longest(First(s, l))
    BY <1>2, <1>3, <1>4
  <1>6. ASSUME NEW p, longest(p) PROVE p = First(s, l)
    <2>1. PICK k \in 0 .. l : p = First(s, k)
      BY <1>4, <1>6
    <2>2. l <= k
      <3>1. Len(p) = k /\ Len(First(s, l)) = l
        BY <1>2, <2>1
      <3> QED BY <1>3, <1>6, <3>1
    <2>3. k = l
      BY <2>2
    <2> QED BY <2>1, <2>3
  <1> HIDE DEF fits
  <1> QED BY <1>5, <1>6 DEF fits

\* Cutting a text at a prefix of MaxLen bytes or more is cutting the whole.
LEMMA CutEarly ==
  ASSUME NEW w \in Chars, NEW s \in Chars, Len(s) <= Len(w), s = First(w, Len(s)),
         Bytes(s) >= MaxLen
  PROVE  ~(Bytes(w) < MaxLen) /\ truncate(s, MaxLen) = truncate(w, MaxLen)
  <1> USE MaxLenAssumption
  <1>1. Len(s) \in 0 .. Len(w) /\ Len(w) \in 0 .. Len(w) /\ Len(w) \in Nat /\ First(w, Len(w)) = w
    BY PrefixIs, LenProperties DEF Chars
  <1>2. Bytes(s) \in Nat /\ Bytes(w) \in Nat
    BY BytesIsNat
  <1>3. Bytes(s) <= Bytes(w)
    <2>1. CASE Len(s) = Len(w)
      BY <1>1, <1>2, <2>1
    <2>2. CASE Len(s) # Len(w)
      <3>1. Len(s) < Len(w)
        BY <1>1, <2>2
      <3>2. Bytes(First(w, Len(s))) < Bytes(First(w, Len(w)))
        BY <1>1, <3>1, LongerIsMore
      <3> QED BY <1>1, <1>2, <3>2
    <2> QED BY <2>1, <2>2
  <1>4. ASSUME NEW l \in 0 .. Len(s) PROVE l \in 0 .. Len(w) /\ First(w, l) = First(s, l)
    <2>1. l \in Nat /\ Len(s) \in Nat /\ l <= Len(s)
      BY <1>1
    <2>2. CASE l = 0
      BY <1>1, <2>1, <2>2, SubSeqEmpty DEF First
    <2>3. CASE l # 0
      <3>1. /\ 1 \in 1 .. Len(w) /\ Len(s) \in 1 .. Len(w)
            /\ 1 \in 1 .. Len(s) - 1 + 1 /\ l \in 1 .. Len(s) - 1 + 1
        BY <1>1, <2>1, <2>3
      <3>2. SubSeq(SubSeq(w, 1, Len(s)), 1, l) = SubSeq(w, 1 + 1 - 1, 1 + l - 1)
        BY <3>1, SubSeqOfSubSeq DEF Chars
      <3>3. 1 + 1 - 1 = 1 /\ 1 + l - 1 = l
        BY <2>1
      <3>4. SubSeq(s, 1, l) = SubSeq(w, 1, l)
        BY <3>2, <3>3 DEF First
      <3> QED BY <1>1, <2>1, <3>4 DEF First
    <2> QED BY <2>2, <2>3
  <1>5. ASSUME NEW l \in 0 .. Len(w), Bytes(First(w, l)) = MaxLen
        PROVE  l \in 0 .. Len(s)
    <2>1. l <= Len(s)
      BY <1>1, <1>2, <1>5, OneCut
    <2> QED BY <1>1, <2>1
  <1> DEFINE Cuts(t) == {p \in Prefixes(t) : Bytes(p) = MaxLen}
  <1>6. Prefixes(s) = {First(s, l) : l \in 0 .. Len(s)} /\ Prefixes(w) = {First(w, l) : l \in 0 .. Len(w)}
    BY DEF Prefixes, First
  <1>7. Cuts(s) = Cuts(w)
    <2>1. ASSUME NEW p \in Cuts(s) PROVE p \in Cuts(w)
      <3>1. PICK l \in 0 .. Len(s) : p = First(s, l) /\ Bytes(p) = MaxLen
        BY <1>6
      <3> QED BY <1>4, <1>6, <3>1
    <2>2. ASSUME NEW p \in Cuts(w) PROVE p \in Cuts(s)
      <3>1. PICK l \in 0 .. Len(w) : p = First(w, l) /\ Bytes(First(w, l)) = MaxLen
        BY <1>6
      <3>2. l \in 0 .. Len(s) /\ p = First(s, l)
        BY <1>4, <1>5, <3>1
      <3> QED BY <1>6, <3>1, <3>2
    <2> QED BY <2>1, <2>2
  <1>8. ASSUME NEW t PROVE truncate(t, MaxLen) = IF Cuts(t) # {} THEN CHOOSE p : p \in Cuts(t) ELSE Panic
    <2>1. (CHOOSE p \in Prefixes(t) : Bytes(p) = MaxLen) = CHOOSE p : p \in Cuts(t)
      OBVIOUS
    <2>2. (\E p \in Prefixes(t) : Bytes(p) = MaxLen) <=> Cuts(t) # {}
      OBVIOUS
    <2> QED BY <2>1, <2>2 DEF truncate
  <1>9. truncate(s, MaxLen) = truncate(w, MaxLen)
    <2>1. /\ truncate(s, MaxLen) = IF Cuts(s) # {} THEN CHOOSE p : p \in Cuts(s) ELSE Panic
          /\ truncate(w, MaxLen) = IF Cuts(w) # {} THEN CHOOSE p : p \in Cuts(w) ELSE Panic
      BY <1>8
    <2> HIDE DEF Cuts
    <2> QED BY <1>7, <2>1
  <1> QED BY <1>2, <1>3, <1>9

\* The loop stops early, and gives what cutting the whole text would.
LEMMA LoopCutsWhole ==
  ASSUME NEW msg \in Texts
  PROVE  /\ Whole(msg) \in Chars
         /\ redact_internal(msg) =
              IF Bytes(Whole(msg)) < MaxLen THEN Whole(msg)
              ELSE LET cut == truncate(Whole(msg), MaxLen)
                   IN  IF cut = Panic THEN Panic ELSE cut \o Ellipsis
  <1> DEFINE n == Len(msg)
             W == Whole(msg)
  <1>1. PICK out : Pushes(out, msg)
    BY PushesExists
  <1> DEFINE full == {i \in 1 .. n : Bytes(out[i]) >= MaxLen}
             m == CHOOSE i \in full : \A k \in full : i <= k
             cut == truncate(out[m], MaxLen)
  <1>2. redact_internal(msg) = IF full = {} THEN out[n]
                               ELSE IF cut = Panic THEN Panic ELSE cut \o Ellipsis
    BY <1>1, LoopIs
  <1>3. W = out[n]
    BY <1>1, WholeIs
  <1>4. n \in Nat /\ n \in 0 .. n /\ \A i \in 0 .. n : out[i] \in Chars
    <2>1. n \in Nat
      BY DEF Texts
    <2> QED BY <1>1, <2>1 DEF Pushes
  <1>5. W \in Chars /\ Bytes(W) \in Nat /\ Bytes(<<>>) = 0
    BY <1>3, <1>4, BytesIsNat
  <1> HIDE DEF W
  <1>6. CASE full = {}
    <2>1. Bytes(W) < MaxLen
      <3>1. CASE n = 0
        <4>1. W = <<>>
          BY <1>1, <1>3, <3>1 DEF Pushes
        <4> QED BY <1>5, <4>1, MaxLenAssumption
      <3>2. CASE n # 0
        <4>1. n \in 1 .. n
          BY <1>4, <3>2
        <4>2. ~(Bytes(out[n]) >= MaxLen)
          BY <1>6, <4>1
        <4> QED BY <1>3, <1>5, <4>2, MaxLenAssumption
      <3> QED BY <3>1, <3>2
    <2> HIDE DEF full
    <2> QED BY <1>2, <1>3, <1>5, <1>6, <2>1 DEF W
  <1>7. CASE full # {}
    <2>1. m \in full
      <3>1. full \in SUBSET Nat
        OBVIOUS
      <3> HIDE DEF full
      <3> QED BY <1>7, <3>1, Least
    <2>2. m \in 0 .. n /\ m <= n /\ Bytes(out[m]) >= MaxLen
      BY <1>4, <2>1
    <2> HIDE DEF m
    <2>3. out[m] \in Chars /\ Len(out[m]) <= Len(W) /\ out[m] = First(W, Len(out[m]))
      BY <1>1, <1>3, <1>4, <2>2, OutGrows
    <2>4. ~(Bytes(W) < MaxLen) /\ cut = truncate(W, MaxLen)
      <3> DEFINE s == out[m]
      <3> HIDE DEF s
      <3> QED BY <1>5, <2>2, <2>3, CutEarly DEF s
    <2> HIDE DEF full, cut
    <2> QED BY <1>2, <1>5, <1>7, <2>4 DEF W
  <1> QED BY <1>6, <1>7

\* redact_internal does what its comment asks for, of every text, unless it
\* panics: the words are redacted, joined, and cut to the whole characters of
\* their first MaxLen bytes, though the loop stops before it has seen them all.
THEOREM RedactsAsAsked ==
  ASSUME NEW msg \in Texts, redact_internal(msg) # Panic
  PROVE  redact_internal(msg) = Redacted(msg)
  <1> DEFINE W == Whole(msg)
             cut == truncate(W, MaxLen)
  <1>1. W \in Chars /\ redact_internal(msg) = IF Bytes(W) < MaxLen THEN W
                               ELSE IF cut = Panic THEN Panic ELSE cut \o Ellipsis
    BY LoopCutsWhole
  <1>2. Redacted(msg) =
          LET fits == {p \in Prefixes(W) : Bytes(p) <= MaxLen}
          IN  IF Bytes(W) < MaxLen THEN W
              ELSE (CHOOSE p \in fits : \A q \in fits : Len(q) <= Len(p)) \o Ellipsis
    BY DEF Redacted, Whole
  <1>3. CASE Bytes(W) < MaxLen
    <2> HIDE DEF W
    <2> QED BY <1>1, <1>2, <1>3
  <1>4. CASE ~(Bytes(W) < MaxLen)
    <2> HIDE DEF W
    <2>1. cut # Panic /\ redact_internal(msg) = cut \o Ellipsis
      BY <1>1, <1>4
    <2>2. PICK l \in 0 .. Len(W) : cut = First(W, l) /\ Bytes(First(W, l)) = MaxLen
      <3>1. \E p \in Prefixes(W) : Bytes(p) = MaxLen
        BY <2>1 DEF truncate
      <3>2. cut \in Prefixes(W) /\ Bytes(cut) = MaxLen
        BY <3>1 DEF truncate
      <3> QED BY <3>2 DEF Prefixes, First
    <2> HIDE DEF cut
    <2> QED BY <1>1, <1>2, <1>4, <2>1, <2>2, TheLongest
  <1> QED BY <1>3, <1>4

\* It panics exactly when the redacted text is MaxLen bytes or longer and a
\* character of it lies across the MaxLen-th byte: String::truncate's condition,
\* whichever word the loop had reached.
THEOREM PanicsInsideCharacter ==
  ASSUME NEW msg \in Texts, Panic \notin Chars
  PROVE  redact_internal(msg) = Panic
           <=> Bytes(Whole(msg)) >= MaxLen /\ \A p \in Prefixes(Whole(msg)) : Bytes(p) # MaxLen
  <1> DEFINE W == Whole(msg)
             cut == truncate(W, MaxLen)
  <1>1. W \in Chars /\ redact_internal(msg) = IF Bytes(W) < MaxLen THEN W
                               ELSE IF cut = Panic THEN Panic ELSE cut \o Ellipsis
    BY LoopCutsWhole
  <1> HIDE DEF W
  <1>2. Bytes(W) \in Nat /\ MaxLen \in Nat
    BY <1>1, BytesIsNat, MaxLenAssumption
  <1>3. CASE \A p \in Prefixes(W) : Bytes(p) # MaxLen
    <2>1. cut = Panic
      BY <1>3 DEF truncate
    <2> HIDE DEF cut
    <2> QED BY <1>1, <1>2, <1>3, <2>1 DEF W
  <1>4. CASE \E p \in Prefixes(W) : Bytes(p) = MaxLen
    <2>1. cut \in Prefixes(W)
      BY <1>4 DEF truncate
    <2>2. cut \in Chars
      <3>1. \A l \in 0 .. Len(W) : SubSeq(W, 1, l) \in Chars
        BY <1>1, PrefixIs DEF First
      <3> QED BY <2>1, <3>1 DEF Prefixes
    <2> HIDE DEF cut
    <2>3. cut \o Ellipsis \in Chars
      <3>1. Ellipsis \in Chars
        BY DEF Ellipsis, Chars, Widths
      <3> QED BY <2>2, <3>1, ConcatProperties DEF Chars
    <2> QED BY <1>1, <1>2, <1>4, <2>2, <2>3 DEF W
  <1> QED BY <1>3, <1>4

\* What it returns is MaxLen bytes and an ellipsis at most (error.rs, the test
\* truncates_long_messages, of one text).
THEOREM AtMostMaxLen ==
  ASSUME NEW msg \in Texts, redact_internal(msg) # Panic
  PROVE  Bytes(redact_internal(msg)) <= MaxLen + Bytes(Ellipsis)
  <1> DEFINE W == Whole(msg)
             cut == truncate(W, MaxLen)
  <1>1. W \in Chars /\ redact_internal(msg) = IF Bytes(W) < MaxLen THEN W
                               ELSE IF cut = Panic THEN Panic ELSE cut \o Ellipsis
    BY LoopCutsWhole
  <1> HIDE DEF W
  <1>2. Bytes(W) \in Nat /\ MaxLen \in Nat
    BY <1>1, BytesIsNat, MaxLenAssumption
  <1>3. Ellipsis \in Chars /\ Len(Ellipsis) = 1 /\ Ellipsis[1] = 3
    BY DEF Ellipsis, Chars, Widths
  <1>4. ASSUME NEW s \in Chars PROVE Bytes(s \o Ellipsis) = Bytes(s) + 3
    <2> DEFINE t == s \o Ellipsis
               l == Len(s)
    <2>1. /\ t \in Chars /\ Len(t) = l + 1 /\ t[l + 1] = 3 /\ l \in Nat
          /\ \A i \in 1 .. l : t[i] = s[i]
      <3>1. l \in Nat
        BY LenProperties DEF Chars
      <3>2. /\ t \in Seq(Widths) /\ Len(t) = l + 1
            /\ \A i \in 1 .. l + 1 : t[i] = IF i <= l THEN s[i] ELSE Ellipsis[i - l]
        <4>1. s \in Seq(Widths) /\ Ellipsis \in Seq(Widths)
          BY <1>3 DEF Chars
        <4>2. /\ s \o Ellipsis \in Seq(Widths) /\ Len(s \o Ellipsis) = Len(s) + Len(Ellipsis)
              /\ \A i \in 1 .. Len(s) + Len(Ellipsis) : (s \o Ellipsis)[i] =
                   IF i <= Len(s) THEN s[i] ELSE Ellipsis[i - Len(s)]
          BY <4>1, ConcatProperties
        <4> QED BY <1>3, <4>2
      <3> HIDE DEF t, l
      <3>3. t[l + 1] = Ellipsis[1]
        <4>1. l + 1 \in 1 .. l + 1 /\ ~(l + 1 <= l) /\ l + 1 - l = 1
          BY <3>1
        <4> QED BY <3>1, <3>2, <4>1
      <3>4. \A i \in 1 .. l : t[i] = s[i]
        <4>1. \A i \in 1 .. l : i \in 1 .. l + 1 /\ i <= l
          BY <3>1
        <4> QED BY <3>2, <4>1
      <3> QED BY <1>3, <3>1, <3>2, <3>3, <3>4 DEF Chars
    <2> HIDE DEF t
    <2>2. PICK f \in [0 .. l + 1 -> Nat] :
             /\ \A i \in 1 .. l + 1 : f[i] = f[i - 1] + t[i]
             /\ \A i \in 0 .. l + 1 : Bytes(First(t, i)) = f[i]
      <3>1. \E f \in [0 .. Len(t) -> Nat] :
               /\ \A i \in 1 .. Len(t) : f[i] = f[i - 1] + t[i]
               /\ \A i \in 0 .. Len(t) : Bytes(First(t, i)) = f[i]
        BY <2>1, BytesOfPrefixes
      <3> QED BY <2>1, <3>1
    <2>3. f[l + 1] = f[l] + 3
      <3>1. l + 1 \in 1 .. l + 1 /\ l + 1 - 1 = l
        BY <2>1
      <3> QED BY <2>1, <2>2, <3>1
    <2>4. First(t, l + 1) = t /\ First(t, l) = s
      <3>1. l \in 0 .. Len(t) /\ l + 1 = Len(t)
        BY <2>1
      <3>2. First(t, l) \in Chars /\ Len(First(t, l)) = l /\ \A i \in 1 .. l : First(t, l)[i] = s[i]
        BY <2>1, <3>1, PrefixIs
      <3>3. First(t, l) = s
        BY <3>2, SeqEqual DEF Chars
      <3>4. First(t, Len(t)) = t
        BY <2>1, <3>1, PrefixIs
      <3> QED BY <3>1, <3>3, <3>4
    <2>5. l \in 0 .. l + 1 /\ l + 1 \in 0 .. l + 1
      BY <2>1
    <2>6. Bytes(t) = f[l + 1] /\ Bytes(s) = f[l]
      BY <2>2, <2>4, <2>5
    <2> QED BY <2>3, <2>6 DEF t
  <1>5. Bytes(Ellipsis) = 3
    <2>1. <<>> \in Chars /\ <<>> \o Ellipsis = Ellipsis
      BY <1>3, ConcatEmptySeq DEF Chars
    <2>2. Bytes(<<>>) = 0
      BY <1>1, BytesIsNat
    <2>3. Bytes(<<>> \o Ellipsis) = Bytes(<<>>) + 3
      BY <1>4, <2>1
    <2> QED BY <2>1, <2>2, <2>3
  <1>6. CASE Bytes(W) < MaxLen
    BY <1>1, <1>2, <1>5, <1>6
  <1>7. CASE ~(Bytes(W) < MaxLen)
    <2>1. cut # Panic /\ redact_internal(msg) = cut \o Ellipsis
      BY <1>1, <1>7
    <2>2. cut \in Prefixes(W) /\ Bytes(cut) = MaxLen
      <3>1. \E p \in Prefixes(W) : Bytes(p) = MaxLen
        BY <2>1 DEF truncate
      <3> QED BY <3>1 DEF truncate
    <2>3. cut \in Chars
      <3>1. \A l \in 0 .. Len(W) : SubSeq(W, 1, l) \in Chars
        BY <1>1, PrefixIs DEF First
      <3> QED BY <2>2, <3>1 DEF Prefixes
    <2> HIDE DEF cut
    <2> QED BY <1>2, <1>4, <1>5, <2>1, <2>2, <2>3
  <1> QED BY <1>6, <1>7

-----------------------------------------------------------------------------
(* What a failed job tells.                                                *)

\* Whatever is stored as the error of a job is a text.
LEMMA MessageIsText ==
  ASSUME NEW e, NEW t \in Prompts
  PROVE  Message(e, t) \in Texts
  <1>1. Plain \in Texts /\ WithUrl \in Texts /\ t.words \in Texts
    BY MessageConstants
  <1>2. Plain \o t.words \in Texts
    BY <1>1, ConcatProperties DEF Texts
  <1> QED BY <1>1, <1>2 DEF Message

LEMMA StorableIs ==
  ASSUME NEW e \in Whys, NEW t \in Prompts
  PROVE  Storable[e][t] = redact_internal(Message(e, t))
  BY DEF Storable

\* While the worker has the job, its row does not say "failed"; once it does, what
\* was stored and what it was stored for stay.
Told ==
  /\ TypeOK
  /\ at \notin {"idle", "down"} => status # "failed"
  /\ FailureIsExplained

LEMMA ToldInit ==
  ASSUME Init
  PROVE  Told
  <1>1. ClientTypeOK
    BY TypeInit DEF Init, TypeInv
  <1>2. 0 \in 0 .. MaxKills
    BY AttemptConstants
  <1>3. status = "queued" /\ at = "idle" /\ why = NoError
    BY DEF Init
  <1>4. at \in At /\ why \in Whys
    BY <1>3 DEF At, Whys
  <1>5. kills = 0 /\ credit = 1 /\ text \in Prompts /\ reached = FALSE /\ mute = FALSE
    BY DEF Init
  <1>6. TypeOK
    <2>1. reached \in BOOLEAN /\ mute \in BOOLEAN
      BY <1>5
    <2>2. kills \in 0 .. MaxKills /\ credit \in Int
      BY <1>2, <1>5
    <2> QED BY <1>1, <1>3, <1>4, <1>5, <2>1, <2>2 DEF TypeOK
  <1> QED BY <1>3, <1>6 DEF Told, FailureIsExplained

LEMMA WorkerTells ==
  ASSUME Told, TypeInv', Worker
  PROVE  Told'
  <1> USE DEF Told, TypeOK, FailureIsExplained, Goto, At
  <1>1. text' = text /\ kills' = kills /\ credit' \in Int /\ ClientTypeOK'
    <2>1. text' = text /\ kills' = kills /\ (credit' = credit \/ credit' = credit + 1)
      BY DEF Worker, Claim, ReadInput, InputMissing, Uploaded, Connected, Submitted, AwaitEnds,
             AwaitFails, AwaitTimesOut, Interrupted, HistoryTells, Done, CallFails, Requeue,
             MarkFailed, MessagePanics, Restart, NextCall, FailsWith, Rest
    <2> QED BY <2>1 DEF TypeInv
  <1>a. ASSUME NEW l \in At, at \notin {"idle", "down"}, at' = l, why' \in Whys,
               UNCHANGED <<status, reached, mute>>
        PROVE  Told'
    BY <1>1, <1>a
  <1>2. CASE Claim
    BY <1>1, <1>2 DEF Claim, Whys
  <1>3. CASE ReadInput \/ Uploaded \/ Connected \/ Submitted \/ AwaitEnds \/ AwaitTimesOut
    BY <1>3, <1>a DEF ReadInput, Uploaded, Connected, Submitted, AwaitEnds, AwaitTimesOut,
                      NextCall, Ok, Returned, Calls
  <1>4. CASE InputMissing \/ AwaitFails \/ Interrupted
    BY <1>4, <1>a DEF InputMissing, AwaitFails, Interrupted, FailsWith, Whys
  <1>5. CASE HistoryTells
    BY <1>5, <1>a DEF HistoryTells, NextCall, FailsWith, Ok, Returned, Whys, Calls
  <1>6. CASE CallFails
    <2>1. error \in Whys /\ at' \in {"requeue", "fail"}
      BY <1>6 DEF CallFails, ClientTypeOK, Whys
    <2> QED BY <1>6, <1>a, <2>1 DEF CallFails, Calls
  <1>7. CASE Done \/ Requeue
    BY <1>1, <1>7 DEF Done, Requeue
  <1>8. CASE MarkFailed
    <2>1. stored' = Storable[why][text] /\ Storable[why][text] # Panic /\ UNCHANGED <<why, text>>
      BY <1>1, <1>8 DEF MarkFailed
    <2>2. Storable[why][text] = redact_internal(Message(why, text))
      BY StorableIs
    <2>3. stored' = Redacted(Message(why, text))
      BY <2>1, <2>2, MessageIsText, RedactsAsAsked
    <2>4. /\ status' = "failed" /\ at' = "idle" /\ UNCHANGED <<reached, mute>>
          /\ Message(why', text') = Message(why, text)
      BY <1>8, <2>1 DEF MarkFailed
    <2> QED BY <1>1, <2>1, <2>3, <2>4
  <1>9. CASE MessagePanics \/ Restart
    BY <1>1, <1>9 DEF MessagePanics, Restart
  <1> QED BY <1>2, <1>3, <1>4, <1>5, <1>6, <1>7, <1>8, <1>9 DEF Worker

LEMMA ToldStep ==
  ASSUME Placed, Told, [Next]_vars
  PROVE  Told'
  <1> USE DEF Told, TypeOK, FailureIsExplained
  <1>1. TypeInv' /\ ClientTypeOK' /\ credit' \in Int
    BY PlacedStep DEF Placed, TypeInv
  <1>2. CASE Worker
    BY <1>1, <1>2, WorkerTells
  <1>3. CASE Trying \/ NetGoes
    BY <1>1, <1>3 DEF Trying, NetGoes
  <1>4. CASE NetReturns \/ UNCHANGED vars
    BY <1>1, <1>4 DEF NetReturns, jobVars, vars
  <1>5. CASE Kill
    <2>1. kills' \in 0 .. MaxKills
      BY <1>5, AttemptConstants DEF Kill
    <2> QED BY <1>1, <1>5, <2>1 DEF Kill, Goto, At
  <1> QED BY <1>2, <1>3, <1>4, <1>5 DEF Next

\* Every variable of the attempt keeps its type, and the row of a failed job tells
\* why it failed: the redacted error, cut to MaxLen bytes, of the attempt that
\* failed it, for every MaxLen, every error text and every prompt; no later step
\* of the worker, of ComfyUI or of a restart leaves it with another.
THEOREM FailureIsTold == Spec => [](TypeOK /\ FailureIsExplained)
  <1>1. Init => Placed /\ Told
    BY PlacedInit, ToldInit
  <1>2. Placed /\ Told /\ [Next]_vars => (Placed /\ Told)'
    BY PlacedStep, ToldStep
  <1>3. Told => TypeOK /\ FailureIsExplained
    BY DEF Told
  <1> QED BY <1>1, <1>2, <1>3, PTL DEF Spec

=============================================================================
