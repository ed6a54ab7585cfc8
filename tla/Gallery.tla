------------------------------ MODULE Gallery ------------------------------
(***************************************************************************)
(* GET /jobs: a client walks the gallery page by page with the cursor of   *)
(* each answer (list_jobs in src/handlers.rs) while jobs are submitted,    *)
(* change status, are deleted, restored and purged beside it.  A page is   *)
(* one SELECT: keyset pagination on (created_at, id), newest first.        *)
(***************************************************************************)
EXTENDS Naturals, Sequences, FiniteSets, FiniteSetsExt

CONSTANTS Seconds,  \* created_at runs through 1 .. Seconds
          Ids,      \* ids a second's jobs may draw are 1 .. Ids, in any order
          Limit,    \* page size
          Filtered  \* the walk asks for one status, not for all

ASSUME GalleryAssumption ==
  Seconds \in Nat \ {0} /\ Ids \in Nat \ {0} /\ Limit \in Nat \ {0} /\ Filtered \in BOOLEAN

Keys == (1 .. Seconds) \X (1 .. Ids)
Top == <<Seconds + 1, 1>>      \* no cursor: above every key
NoCursor == <<0, 0>>           \* next_cursor: null

VARIABLES now,     \* the clock, in seconds
          rows,    \* keys of the jobs table
          deleted, \* of these, the soft-deleted ones
          asked,   \* of these, the ones with the status asked for
          cursor,  \* the walk's cursor
          walk,    \* "before", "walking", "ended"
          shown,   \* the jobs answered so far, in order
          steady   \* jobs that matched all through the walk

vars == <<now, rows, deleted, asked, cursor, walk, shown, steady>>

TypeOK ==
  /\ now \in 1 .. Seconds
  /\ rows \subseteq Keys /\ deleted \subseteq rows /\ asked \subseteq rows
  /\ cursor \in Keys \cup {Top, NoCursor}
  /\ walk \in {"before", "walking", "ended"}
  /\ shown \in Seq(Keys)
  /\ steady \subseteq rows

Init ==
  /\ now = 1
  /\ rows = {} /\ deleted = {} /\ asked = {}
  /\ cursor = Top /\ walk = "before"
  /\ shown = <<>> /\ steady = {}

-----------------------------------------------------------------------------
(* The SELECT.                                                             *)

Below(k, c) == k[1] < c[1] \/ (k[1] = c[1] /\ k[2] < c[2])

Matching == (IF Filtered THEN asked ELSE rows) \ deleted
AfterSecond(c) == {k \in Matching : k[1] < c[1]}
AfterInclusive(c) == {k \in Matching : Below(k, c) \/ k = c}
After(c) == {k \in Matching : Below(k, c)}

\* ORDER BY created_at DESC, id DESC LIMIT n: of a set, the n highest in order.
Newest(S, n) ==
  LET rank(k) == Cardinality({m \in S : ~Below(m, k)})
      size == Min({n, Cardinality(S)})
  IN  [i \in 1 .. size |-> CHOOSE k \in S : rank(k) = i]

NextCursor(page) == IF Len(page) = Limit THEN page[Limit] ELSE NoCursor

list_jobs ==
  LET page == Newest(After(cursor), Limit) IN
  /\ walk # "ended"
  /\ shown' = shown \o page
  /\ cursor' = NextCursor(page)
  /\ walk' = IF cursor' = NoCursor THEN "ended" ELSE "walking"
  /\ steady' = IF walk = "before" THEN Matching ELSE steady
  /\ UNCHANGED <<now, rows, deleted, asked>>

-----------------------------------------------------------------------------
(* What happens beside the walk.                                           *)

Beside == UNCHANGED <<now, cursor, walk, shown>>

submit_job(k, status) ==
  /\ k[1] = now /\ k \notin rows
  /\ rows' = rows \cup {k}
  /\ asked' = IF status THEN asked \cup {k} ELSE asked
  /\ UNCHANGED <<deleted, steady>> /\ Beside

\* A walk that does not filter cannot tell.
ChangeStatus(k) ==
  /\ Filtered /\ k \in rows
  /\ asked' = IF k \in asked THEN asked \ {k} ELSE asked \cup {k}
  /\ steady' = steady \ {k}
  /\ UNCHANGED <<rows, deleted>> /\ Beside

delete_job(k) ==
  /\ k \in rows \ deleted
  /\ deleted' = deleted \cup {k}
  /\ steady' = steady \ {k}
  /\ UNCHANGED <<rows, asked>> /\ Beside

restore_job(k) ==
  /\ k \in deleted
  /\ deleted' = deleted \ {k}
  /\ UNCHANGED <<rows, asked, steady>> /\ Beside

purge(k) ==
  /\ k \in deleted
  /\ rows' = rows \ {k} /\ deleted' = deleted \ {k} /\ asked' = asked \ {k}
  /\ UNCHANGED steady /\ Beside

ClockTicks ==
  /\ now < Seconds /\ now' = now + 1
  /\ UNCHANGED <<rows, deleted, asked, cursor, walk, shown, steady>>

Next ==
  \/ list_jobs \/ ClockTicks
  \/ \E k \in Keys :
       \/ \E status \in (IF Filtered THEN BOOLEAN ELSE {FALSE}) : submit_job(k, status)
       \/ ChangeStatus(k) \/ delete_job(k) \/ restore_job(k) \/ purge(k)

Spec == Init /\ [][Next]_vars

-----------------------------------------------------------------------------
(* Properties.                                                             *)

Shown == {shown[i] : i \in DOMAIN shown}

\* The walk runs down the order and lists no job twice, even a job restored or
\* submitted (in the second of the cursor, with a smaller id) beside it.
NewestFirstOnce == \A i, k \in DOMAIN shown : i < k => Below(shown[k], shown[i])

\* A job that matched all through the walk is listed by its end, and everything
\* above the cursor already is.
NothingSkipped ==
  walk # "before" => \A k \in steady : k \in Shown \/ (walk = "walking" /\ Below(k, cursor))
=============================================================================
