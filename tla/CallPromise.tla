---------------------------- MODULE CallPromise ----------------------------
(***************************************************************************)
(* What src/src/comfy.rs promises its callers of a call that must not be   *)
(* done twice (submit_prompt): however often the call is tried underneath, *)
(* ComfyUI queues at most one prompt for it; a call that answers "ok" did  *)
(* queue one, a call that answers "unreachable" did not and never will;    *)
(* after any other error the prompt may be there, or may still arrive.     *)
(***************************************************************************)
EXTENDS Naturals

VARIABLES mine,     \* the call under way: "none", "open", or "accepted"
          owed,     \* calls that ended in an error whose prompt may yet arrive
          accepted, \* prompts queued since the last call began
          result    \* how the last call ended: "none", "ok", "unreachable", "error"

vars == <<mine, owed, accepted, result>>

Init == mine = "none" /\ owed = 0 /\ accepted = 0 /\ result = "none"

Ask ==
  /\ mine = "none" /\ mine' = "open"
  /\ accepted' = 0 /\ result' = "none"
  /\ UNCHANGED owed

Accept ==
  /\ mine = "open" /\ mine' = "accepted"
  /\ accepted' = accepted + 1
  /\ UNCHANGED <<owed, result>>

AcceptLate ==
  /\ owed > 0 /\ owed' = owed - 1
  /\ accepted' = accepted + 1
  /\ UNCHANGED <<mine, result>>

\* The requests underway are lost with the backend.
Forget ==
  /\ owed > 0 /\ owed' = 0
  /\ UNCHANGED <<mine, accepted, result>>

Ok ==
  /\ mine = "accepted" /\ mine' = "none"
  /\ result' = "ok"
  /\ UNCHANGED <<owed, accepted>>

Unreachable ==
  /\ mine = "open" /\ mine' = "none"
  /\ result' = "unreachable"
  /\ UNCHANGED <<owed, accepted>>

Error ==
  /\ mine # "none" /\ mine' = "none"
  /\ owed' \in {owed, owed + (IF mine = "open" THEN 1 ELSE 0)}
  /\ result' = "error"
  /\ UNCHANGED accepted

\* The caller goes on to another call, or dies in this one.
MoveOn ==
  /\ mine' = "none" /\ result' = "none"
  /\ owed' \in {owed, owed + (IF mine = "open" THEN 1 ELSE 0)}
  /\ UNCHANGED accepted

Next == Ask \/ Accept \/ AcceptLate \/ Forget \/ Ok \/ Unreachable \/ Error \/ MoveOn

Spec == Init /\ [][Next]_vars
=============================================================================
