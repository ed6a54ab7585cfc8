------------------------------ MODULE Backend ------------------------------
(***************************************************************************)
(* ComfyUI, as src/comfy.rs and the worker use it.  It is not part of the  *)
(* repository: prompts are executed one at a time in the order they were   *)
(* accepted, /interrupt ends whatever prompt is executing, and queue and   *)
(* history live in memory.  It goes away in two ways: in an outage it is   *)
(* not running, so that connections are refused and queue and history      *)
(* lost; in a silence it hangs, or the network drops what it is sent:      *)
(* calls time out, and it goes on afterwards where it was.                 *)
(***************************************************************************)
EXTENDS JobRows

CONSTANTS MaxOutages,  \* bound on the outages of the backend
          MaxSilences  \* bound on the times it hangs

ASSUME MaxOutagesAssumption == MaxOutages \in Nat /\ MaxSilences \in Nat

Warmup == NumJobs + 1  \* owner of the prompt warm_once submits
Owners == Jobs \cup {None, Warmup}

VARIABLES net,         \* what a call meets: "up", "refusing", or "silent"
          pending,     \* accepted prompts, not started
          executing,   \* the prompt on the GPU
          succeeded,   \* prompts whose history entry says "success"
          broken,      \* prompts whose history entry says anything else
          accepted,    \* number of prompts ever accepted
          owner,       \* [Prompts -> Owners]; whose prompt it is
          outages,     \* outages so far
          silences     \* silences so far

memory == <<pending, executing, succeeded, broken>>
backendVars == <<net, memory, accepted, owner, outages, silences>>

up == net = "up"

BackendTypeOK ==
  /\ net \in {"up", "refusing", "silent"}
  /\ pending \subseteq Prompts
  /\ executing \in Prompts \cup {None}
  /\ succeeded \subseteq Prompts
  /\ broken \subseteq Prompts
  /\ accepted \in 0 .. NumPrompts
  /\ owner \in [Prompts -> Owners]
  /\ outages \in 0 .. MaxOutages
  /\ silences \in 0 .. MaxSilences

BackendInit ==
  /\ net = "up"
  /\ pending = {}
  /\ executing = None
  /\ succeeded = {}
  /\ broken = {}
  /\ accepted = 0
  /\ owner = [p \in Prompts |-> None]
  /\ outages = 0 /\ silences = 0

NextPrompt == accepted + 1

\* POST /prompt: the backend queues the workflow under a fresh prompt id.
AcceptPrompt(o) ==
  /\ up
  /\ accepted < NumPrompts
  /\ accepted' = NextPrompt
  /\ pending' = pending \cup {NextPrompt}
  /\ owner' = [owner EXCEPT ![NextPrompt] = o]
  /\ UNCHANGED <<net, executing, succeeded, broken, outages, silences>>

StartPrompt ==
  /\ up
  /\ executing = None
  /\ pending # {}
  /\ executing' = Oldest(pending)
  /\ pending' = pending \ {Oldest(pending)}
  /\ UNCHANGED <<net, succeeded, broken, accepted, owner, outages, silences>>

\* The prompt on the GPU ends; `well` tells a success from any other status.
EndPrompt(well) ==
  /\ executing # None
  /\ executing' = None
  /\ succeeded' = IF well THEN succeeded \cup {executing} ELSE succeeded
  /\ broken' = IF well THEN broken ELSE broken \cup {executing}
  /\ UNCHANGED <<net, pending, accepted, owner, outages, silences>>

\* POST /interrupt; a backend that is away, or idle, is left as it is.
Interrupt ==
  IF up /\ executing # None THEN EndPrompt(FALSE) ELSE UNCHANGED backendVars

GoAway ==
  /\ up
  /\ outages < MaxOutages
  /\ outages' = outages + 1
  /\ net' = "refusing"
  /\ pending' = {}
  /\ executing' = None
  /\ succeeded' = {}
  /\ broken' = {}
  /\ UNCHANGED <<accepted, owner, silences>>

GoSilent ==
  /\ up
  /\ silences < MaxSilences
  /\ silences' = silences + 1
  /\ net' = "silent"
  /\ UNCHANGED <<memory, accepted, owner, outages>>

ComeBack ==
  /\ ~up
  /\ net' = "up"
  /\ UNCHANGED <<memory, accepted, owner, outages, silences>>
=============================================================================
