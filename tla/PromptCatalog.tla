--------------------------- MODULE PromptCatalog ---------------------------
(***************************************************************************)
(* The prompt catalog (src/custom_prompts.rs): one prompt that is created, *)
(* patched by concurrent requests and soft-deleted.  A PATCH reads the row, *)
(* merges the body into its copy, writes every column back and reads the   *)
(* row again, with awaits in between.                                      *)
(***************************************************************************)
EXTENDS Naturals, FiniteSets

CONSTANTS Columns,   \* label, text, description, ...
          Nullable,  \* of these, the ones a row may leave NULL
          Patches,   \* PATCH requests, each served once
          Original,  \* the value a column is created with
          Null, Absent

ASSUME CatalogAssumption ==
  /\ IsFiniteSet(Columns) /\ Nullable \subseteq Columns /\ IsFiniteSet(Patches)
  /\ Original \notin Patches \cup {Null, Absent}
  /\ Null \notin Patches /\ Absent \notin Patches /\ Null # Absent

\* A patch writes a value of its own, so that a value names who wrote it.
Values == Patches \cup {Original, Null}
Contents == [Columns -> Values]
NoRow == [c \in Columns |-> Null]

VARIABLES row,      \* the columns of the prompt
          exists,   \* it has been inserted
          deleted,  \* deleted_at IS NOT NULL
          at,       \* [Patches -> "new", "write", "reread", "ok", "notFound", "dropped"]
          body,     \* [Patches -> [Columns -> Absent, Null or the patch]]; as sent
          copy,     \* [Patches -> the merged row the patch will write]
          rivals,   \* [Patches -> patches that wrote while this one held its copy]
          answer    \* [Patches -> the row of the 200]

vars == <<row, exists, deleted, at, body, copy, rivals, answer>>

TypeOK ==
  /\ row \in Contents
  /\ exists \in BOOLEAN /\ deleted \in BOOLEAN
  /\ at \in [Patches -> {"new", "write", "reread", "ok", "notFound", "dropped"}]
  /\ body \in [Patches -> [Columns -> Patches \cup {Null, Absent}]]
  /\ copy \in [Patches -> Contents]
  /\ rivals \in [Patches -> SUBSET Patches]
  /\ answer \in [Patches -> Contents]
  /\ \A c \in Columns \ Nullable : exists => row[c] # Null

Bodies(p) == [Columns -> {Absent, Null, p}]

Init ==
  /\ row = NoRow
  /\ exists = FALSE /\ deleted = FALSE
  /\ at = [p \in Patches |-> "new"]
  /\ body = [p \in Patches |-> [c \in Columns |-> Absent]]
  /\ copy = [p \in Patches |-> NoRow]
  /\ rivals = [p \in Patches |-> {}]
  /\ answer = [p \in Patches |-> NoRow]

Visible == exists /\ ~deleted

-----------------------------------------------------------------------------
create ==
  /\ ~exists /\ exists' = TRUE
  /\ \E empty \in SUBSET Nullable :
       row' = [c \in Columns |-> IF c \in empty THEN Null ELSE Original]
  /\ UNCHANGED <<deleted, at, body, copy, rivals, answer>>

delete ==
  /\ Visible /\ deleted' = TRUE
  /\ UNCHANGED <<row, exists, at, body, copy, rivals, answer>>

Goto(p, l) == at' = [at EXCEPT ![p] = l]

\* Option<Option<T>> with serde's default: an explicit null is read as the outer
\* None, as if the key were not there.
Parsed(v) == IF v = Null THEN Absent ELSE v

merge_null(b, old) == [c \in Columns |-> IF b[c] = Absent THEN old[c] ELSE b[c]]
merge_nothing_kept(b, old) ==
  [c \in Columns |-> IF Parsed(b[c]) # Absent THEN b[c] ELSE IF c \in Nullable THEN Null ELSE old[c]]
merge(b, old) == [c \in Columns |-> IF Parsed(b[c]) = Absent THEN old[c] ELSE b[c]]

\* SELECT, validation, and the merge into the copy.
Fetch(p, b) ==
  /\ at[p] = "new"
  /\ body' = [body EXCEPT ![p] = b]
  /\ IF Visible
     THEN Goto(p, "write") /\ copy' = [copy EXCEPT ![p] = merge(b, row)]
     ELSE Goto(p, "notFound") /\ UNCHANGED copy
  /\ UNCHANGED <<row, exists, deleted, rivals, answer>>

Holding == {p \in Patches : at[p] = "write"}

\* UPDATE of every column, by id alone: it hits a row deleted since the SELECT.
Write(p) ==
  /\ at[p] = "write" /\ Goto(p, "reread")
  /\ row' = copy[p]
  /\ rivals' = [q \in Patches |-> IF q \in Holding \ {p} THEN rivals[q] \cup {p} ELSE rivals[q]]
  /\ UNCHANGED <<exists, deleted, body, copy, answer>>

Reread(p) ==
  /\ at[p] = "reread"
  /\ IF Visible
     THEN Goto(p, "ok") /\ answer' = [answer EXCEPT ![p] = row]
     ELSE Goto(p, "notFound") /\ UNCHANGED answer
  /\ UNCHANGED <<row, exists, deleted, body, copy, rivals>>

\* The client is gone, or the request timed out, after the UPDATE; before it, a
\* dropped request is one that goes no further.
Drop(p) ==
  /\ at[p] = "reread" /\ Goto(p, "dropped")
  /\ UNCHANGED <<row, exists, deleted, body, copy, rivals, answer>>

update(p) == Write(p) \/ Reread(p) \/ Drop(p) \/ \E b \in Bodies(p) : Fetch(p, b)

Next == create \/ delete \/ \E p \in Patches : update(p)
Spec == Init /\ [][Next]_vars

-----------------------------------------------------------------------------
(* Properties.                                                             *)

Sets(p, c) == body[p][c] = p

\* What a patch answered 200 for is in the row, as long as no other patch that
\* names the column has had its turn and no patch overlapped with it: its value
\* is never lost to a request that neither names the column nor overlaps with it.
AcknowledgedStays ==
  \A p \in Patches, c \in Columns :
    at[p] = "ok" /\ Sets(p, c) /\ row[c] # p =>
      \/ \E q \in Patches \ {p} : Sets(q, c) /\ at[q] \in {"reread", "ok", "notFound", "dropped"}
      \/ \E q \in Patches \ {p} : p \in rivals[q]
=============================================================================
