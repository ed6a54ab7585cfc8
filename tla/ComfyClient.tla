---------------------------- MODULE ComfyClient ----------------------------
(***************************************************************************)
(* The client half of src/src/comfy.rs: one call to ComfyUI at a time,     *)
(* tried up to MaxAttempts times (with_retry), over a network that         *)
(* refuses, hangs, cuts, and loses replies.  A try is carried out by       *)
(* ComfyUI in a step of its own, so that the client may give up on it      *)
(* before or after; what it gave up on may still be carried out late.      *)
(***************************************************************************)
EXTENDS Naturals

CONSTANTS MaxAttempts,  \* MAX_ATTEMPTS
          MaxOutages    \* bound on the times the network goes away

ASSUME AttemptsAssumption == MaxAttempts \in Nat \ {0}
ASSUME NetOutagesAssumption == MaxOutages \in Nat

Calls == {"upload", "connect", "submit", "history", "view"}
Errors == {"connect",   \* no connection: reqwest's is_connect
           "timeout",   \* is_timeout; connecting may time out as well
           "cut",       \* the connection broke under the request
           "busy",      \* 408, 429 or 5xx
           "rejected",  \* any other error status
           "garbage"}   \* a body over the cap, not JSON, or without its field
NoError == "none"
NoCall == "no call"

\* connect_ws is tried once, submit_prompt again only if it never connected.
Idempotency(c) ==
  CASE c = "submit"  -> "ConnectOnly"
    [] c = "connect" -> "Once"
    [] OTHER         -> "Safe"

VARIABLES net,      \* what a connection meets: "up", "refusing", or "silent"
          outages,  \* times the network went away
          call,     \* the call under way, or the last one
          phase,    \* of its present try; "over" when the call has returned
          tries,    \* `attempt` of with_retry
          error,    \* what the call returned, if not Ok
          served,   \* ComfyUI has carried the call out
          late,     \* submit requests given up on that ComfyUI may still take
          accepted  \* prompts ComfyUI queued since the last submit began

netVars == <<net, outages>>
callVars == <<call, phase, tries, error, served>>
clientVars == <<netVars, callVars, late, accepted>>

InFlight == {"flight", "served"}
Phases == InFlight \cup {"connecting", "cut", "backoff", "over"}

ClientTypeOK ==
  /\ net \in {"up", "refusing", "silent"}
  /\ outages \in 0 .. MaxOutages
  /\ call \in Calls \cup {NoCall}
  /\ phase \in Phases
  /\ tries \in 1 .. MaxAttempts
  /\ error \in Errors \cup {NoError}
  /\ served \in BOOLEAN
  /\ late \in Nat /\ accepted \in Nat

ClientInit ==
  /\ net = "up" /\ outages = 0
  /\ call = NoCall /\ phase = "over" /\ tries = 1 /\ error = NoError
  /\ served = FALSE
  /\ late = 0 /\ accepted = 0

-----------------------------------------------------------------------------
(* with_retry.                                                             *)

Begin(c) ==
  /\ phase = "over" /\ phase' = "connecting"
  /\ call' = c /\ tries' = 1 /\ error' = NoError /\ served' = FALSE
  /\ accepted' = IF c = "submit" THEN 0 ELSE accepted
  /\ UNCHANGED <<netVars, late>>

Transient == {"connect", "timeout", "busy"}
EagerRetry(e, mode) == mode # "Once" /\ e \in Transient

should_retry(e, mode) ==
  \/ mode = "ConnectOnly" /\ e = "connect"
  \/ mode = "Safe" /\ e \in Transient

\* A try ends in an error: back off and try again, or return it.
Fails(e) ==
  /\ IF tries < MaxAttempts /\ should_retry(e, Idempotency(call))
     THEN phase' = "backoff" /\ UNCHANGED error
     ELSE phase' = "over" /\ error' = e
  /\ UNCHANGED <<call, tries, served>>

BackoffEnds ==
  /\ phase = "backoff" /\ phase' = "connecting"
  /\ tries' = tries + 1
  /\ UNCHANGED <<netVars, call, error, served, late, accepted>>

unreachable_if_timed_out(c, e) == e \in {"connect", "timeout"}
unreachable_by_ws_only(c, e) == c = "connect" /\ e # NoError

\* The worker: no connection means requeue, anything else fails the job.
is_unreachable(c, e) == e = "connect" \/ (c = "connect" /\ e # NoError)

-----------------------------------------------------------------------------
(* One try.                                                                *)

Connects ==
  /\ phase = "connecting" /\ phase' = "flight"
  /\ net = "up"
  /\ UNCHANGED <<netVars, call, tries, error, served, late, accepted>>

Refused ==
  /\ phase = "connecting"
  /\ net = "refusing"
  /\ Fails("connect")
  /\ UNCHANGED <<netVars, late, accepted>>

\* ComfyUI carries the request out; the reply is on its way.
Serve ==
  /\ phase = "flight" /\ phase' = "served"
  /\ net = "up"
  /\ served' = TRUE
  /\ accepted' = IF call = "submit" THEN accepted + 1 ELSE accepted
  /\ UNCHANGED <<netVars, call, tries, error, late>>

Answered ==
  /\ phase = "served" /\ phase' = "over"
  /\ net = "up"
  /\ UNCHANGED <<netVars, call, tries, error, served, late, accepted>>

\* An error status instead of the work, or after it; a body of no use.
Rejected ==
  /\ net = "up"
  /\ \/ phase \in InFlight /\ Fails("busy")
     \/ phase = "flight" /\ Fails("rejected")
     \/ phase = "served" /\ Fails("garbage")
  /\ UNCHANGED <<netVars, late, accepted>>

\* The 60 s of the client (10 s for the ws) run out, connecting included: a
\* request that arrived may still be carried out.
TimesOut ==
  /\ phase \in InFlight \/ (phase = "connecting" /\ net = "silent")
  /\ Fails("timeout")
  /\ late' = IF phase = "flight" /\ call = "submit" THEN late + 1 ELSE late
  /\ UNCHANGED <<netVars, accepted>>

\* The connection is reset while the backend lives on.
Breaks ==
  /\ phase \in InFlight
  /\ Fails("cut")
  /\ late' = IF phase = "flight" /\ call = "submit" THEN late + 1 ELSE late
  /\ UNCHANGED <<netVars, accepted>>

\* The backend died under the request.
CutNoticed ==
  /\ phase = "cut"
  /\ Fails("cut")
  /\ UNCHANGED <<netVars, late, accepted>>

ServeLate ==
  /\ late > 0 /\ late' = late - 1
  /\ net = "up"
  /\ accepted' = accepted + 1
  /\ UNCHANGED <<netVars, callVars>>

-----------------------------------------------------------------------------
(* The network, and the machine ComfyUI runs on.                           *)

\* A backend that is gone refuses and forgets; one that hangs is silent.
GoAway(how) ==
  /\ net = "up" /\ net' = how
  /\ outages < MaxOutages /\ outages' = outages + 1
  /\ IF how = "refusing"
     THEN /\ phase' = IF phase \in InFlight THEN "cut" ELSE phase
          /\ late' = 0
     ELSE UNCHANGED <<phase, late>>
  /\ UNCHANGED <<call, tries, error, served, accepted>>

ComeBack ==
  /\ net # "up" /\ net' = "up"
  /\ UNCHANGED <<outages, callVars, late, accepted>>

\* The process dies; what it sent may still arrive.
Abandon ==
  /\ call' = NoCall /\ phase' = "over" /\ tries' = 1 /\ error' = NoError
  /\ served' = FALSE
  /\ late' = IF phase = "flight" /\ call = "submit" THEN late + 1 ELSE late
  /\ UNCHANGED <<netVars, accepted>>

\* What the client does by itself, and what ComfyUI does or fails to do.
Own == Connects \/ Refused \/ TimesOut \/ CutNoticed \/ BackoffEnds
Try == Own \/ Answered \/ Rejected \/ Breaks

ClientNext ==
  \/ \E c \in Calls : Begin(c)
  \/ Try \/ Serve \/ ServeLate
  \/ GoAway("refusing") \/ GoAway("silent") \/ ComeBack
  \/ Abandon

ClientSpec == ClientInit /\ [][ClientNext]_clientVars

-----------------------------------------------------------------------------
(* submit_prompt keeps the promise of CallPromise: at most one prompt, and *)
(* none for a call that is classed unreachable.                            *)

Submitting == call = "submit" /\ phase # "over"

Promise == INSTANCE CallPromise WITH
  mine <- IF ~Submitting THEN "none" ELSE IF served THEN "accepted" ELSE "open",
  owed <- late,
  result <- IF call # "submit" \/ phase # "over" THEN "none"
            ELSE IF error = NoError THEN "ok"
            ELSE IF is_unreachable(call, error) THEN "unreachable" ELSE "error"

\* submit_prompt, whatever the network does to its tries, implements
\* CallPromise.
SubmitKeepsPromise == Promise!Spec

\* A try of submit_prompt that is followed by another never reached ComfyUI,
\* so that what ComfyUI took belongs to the last try: the strengthening the
\* refinement is proved from.
OnlyLastTryReaches ==
  call = "submit" =>
    /\ phase \in {"connecting", "flight", "backoff"} => ~served
    /\ phase = "served" => served
    /\ phase = "over" /\ error = NoError => served
    /\ phase = "over" /\ error = "connect" => ~served
    /\ phase # "over" => error = NoError
=============================================================================
