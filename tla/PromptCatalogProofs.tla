------------------------ MODULE PromptCatalogProofs ------------------------
(***************************************************************************)
(* What holds of PromptCatalog for every set of columns and of patches,    *)
(* proved with TLAPS: its types, and that what a patch was told is kept    *)
(* stays until a rival or a later patch of the same column.                *)
(***************************************************************************)
EXTENDS PromptCatalog, TLAPS

-----------------------------------------------------------------------------
(* The inductive invariant.                                                *)

Past == {"reread", "ok", "notFound", "dropped"}

\* Another patch of the column has had its turn, or held a copy when p wrote.
Lost(p, c) ==
  \/ \E q \in Patches \ {p} : Sets(q, c) /\ at[q] \in Past
  \/ \E q \in Patches \ {p} : p \in rivals[q]

\* A copy is taken from a row that exists, and keeps its mandatory columns.
CopyInv ==
  \A p \in Patches :
    /\ at[p] \in {"write", "reread", "ok", "dropped"} => exists
    /\ at[p] = "write" => \A c \in Columns \ Nullable : copy[p][c] # Null

\* A copy on its way to the row carries what its patch asked for.
OwnInv ==
  \A p \in Patches, c \in Columns : at[p] = "write" /\ Sets(p, c) => copy[p][c] = p

\* What a patch wrote is in the row, and in the copies taken since.
KeptInv ==
  \A p \in Patches, c \in Columns :
    at[p] \in {"reread", "ok"} /\ Sets(p, c) /\ ~Lost(p, c) =>
      /\ row[c] = p
      /\ \A q \in Patches \ {p} : at[q] = "write" => copy[q][c] = p \/ Sets(q, c)

Types == TypeOK /\ CopyInv
Acknowledged == OwnInv /\ KeptInv

-----------------------------------------------------------------------------
(* Types.                                                                  *)

\* A merge of a patch into a row is a row, with the columns it may not lose.
LEMMA MergeType ==
  ASSUME NEW p \in Patches, NEW b \in Bodies(p), NEW old \in Contents
  PROVE  /\ merge(b, old) \in Contents
         /\ \A c \in Columns : old[c] # Null => merge(b, old)[c] # Null
         /\ \A c \in Columns : merge(b, old)[c] = IF b[c] = p THEN p ELSE old[c]
  BY CatalogAssumption DEF Bodies, merge, Parsed, Contents, Values

LEMMA InitTypes == Init => Types
  <1> SUFFICES ASSUME Init PROVE Types
    OBVIOUS
  <1>1. NoRow \in Contents
    BY DEF NoRow, Contents, Values
  <1>2. [c \in Columns |-> Absent] \in [Columns -> Patches \cup {Null, Absent}]
    OBVIOUS
  <1>3. TypeOK
    BY <1>1, <1>2 DEF Init, TypeOK
  <1> QED BY <1>3 DEF Init, Types, CopyInv

LEMMA StepTypes ==
  ASSUME Types, [Next]_vars
  PROVE  Types'
  <1> USE DEF Types, TypeOK, CopyInv, Goto
  <1>1. CASE create
    <2>1. row' \in Contents /\ \A c \in Columns \ Nullable : row'[c] # Null
      BY <1>1, CatalogAssumption DEF create, Contents, Values
    <2> QED BY <1>1, <2>1 DEF create
  <1>2. CASE delete
    BY <1>2 DEF delete
  <1>3. ASSUME NEW p \in Patches, NEW b \in Bodies(p), Fetch(p, b) PROVE Types'
    <2>1. b \in [Columns -> Patches \cup {Null, Absent}]
      BY DEF Bodies
    <2>2. merge(b, row) \in Contents
          /\ \A c \in Columns : row[c] # Null => merge(b, row)[c] # Null
      BY MergeType
    <2>3. CASE Visible
      BY <1>3, <2>1, <2>2, <2>3 DEF Fetch, Visible
    <2>4. CASE ~Visible
      BY <1>3, <2>1, <2>4 DEF Fetch
    <2> QED BY <2>3, <2>4
  <1>4. ASSUME NEW p \in Patches, Write(p) PROVE Types'
    BY <1>4 DEF Write, Holding
  <1>5. ASSUME NEW p \in Patches, Reread(p) PROVE Types'
    BY <1>5 DEF Reread, Visible
  <1>6. ASSUME NEW p \in Patches, Drop(p) PROVE Types'
    BY <1>6 DEF Drop
  <1>7. CASE UNCHANGED vars
    BY <1>7 DEF vars
  <1> QED BY <1>1, <1>2, <1>3, <1>4, <1>5, <1>6, <1>7 DEF Next, update

LEMMA TypesHold == Spec => []Types
  BY InitTypes, StepTypes, PTL DEF Spec

\* The row, the patches and their copies keep to their types, and a row that
\* exists has a value in every column that is NOT NULL.
THEOREM CatalogTypes == Spec => []TypeOK
  BY TypesHold, PTL DEF Types

-----------------------------------------------------------------------------
(* Lost updates.                                                           *)

\* What is lost stays lost: a patch goes forward, and its rivals grow.
LEMMA LostStays ==
  ASSUME Types, [Next]_vars, NEW p \in Patches, NEW c \in Columns, Lost(p, c)
  PROVE  Lost(p, c)'
  <1> USE DEF Types, TypeOK, Goto, Lost, Past, Sets
  <1>1. CASE create \/ delete
    BY <1>1 DEF create, delete
  <1>2. ASSUME NEW r \in Patches, NEW b \in Bodies(r), Fetch(r, b) PROVE Lost(p, c)'
    BY <1>2 DEF Fetch
  <1>3. ASSUME NEW r \in Patches, Write(r) PROVE Lost(p, c)'
    BY <1>3 DEF Write
  <1>4. ASSUME NEW r \in Patches, Reread(r) \/ Drop(r) PROVE Lost(p, c)'
    BY <1>4 DEF Reread, Drop
  <1>5. CASE UNCHANGED vars
    BY <1>5 DEF vars
  <1> QED BY <1>1, <1>2, <1>3, <1>4, <1>5 DEF Next, update

LEMMA StepAcknowledged ==
  ASSUME Types, Acknowledged, [Next]_vars
  PROVE  Acknowledged'
  <1> USE DEF Types, TypeOK, Acknowledged, OwnInv, Goto, Sets
  <1>1. CASE create
    <2>1. \A p \in Patches : at[p] \notin {"write", "reread", "ok", "dropped"}
      BY <1>1 DEF create, CopyInv
    <2> QED BY <1>1, <2>1 DEF create, KeptInv
  <1>2. CASE delete
    BY <1>2, LostStays DEF delete, KeptInv
  <1>3. ASSUME NEW r \in Patches, NEW b \in Bodies(r), Fetch(r, b) PROVE Acknowledged'
    <2>1. \A c \in Columns : merge(b, row)[c] = IF b[c] = r THEN r ELSE row[c]
      BY MergeType
    <2>2. OwnInv'
      BY <1>3, <2>1 DEF Fetch
    <2>3. ASSUME NEW p \in Patches, NEW c \in Columns,
                 at'[p] \in {"reread", "ok"}, Sets(p, c)', ~Lost(p, c)'
          PROVE  /\ row'[c] = p
                 /\ \A q \in Patches \ {p} : at'[q] = "write" => copy'[q][c] = p \/ Sets(q, c)'
      <3>1. p # r /\ at[p] \in {"reread", "ok"} /\ Sets(p, c)
        BY <1>3, <2>3 DEF Fetch
      <3>2. ~Lost(p, c)
        BY <2>3, LostStays
      <3>3. /\ row[c] = p
            /\ \A q \in Patches \ {p} : at[q] = "write" => copy[q][c] = p \/ Sets(q, c)
        BY <3>1, <3>2 DEF KeptInv
      <3> QED BY <1>3, <2>1, <3>1, <3>3 DEF Fetch
    <2> QED BY <2>2, <2>3 DEF KeptInv
  <1>4. ASSUME NEW r \in Patches, Write(r) PROVE Acknowledged'
    <2>1. OwnInv'
      BY <1>4 DEF Write
    <2>2. ASSUME NEW p \in Patches, NEW c \in Columns,
                 at'[p] \in {"reread", "ok"}, Sets(p, c)', ~Lost(p, c)'
          PROVE  /\ row'[c] = p
                 /\ \A q \in Patches \ {p} : at'[q] = "write" => copy'[q][c] = p \/ Sets(q, c)'
      <3>1. CASE p = r
        <4>1. row'[c] = p
          BY <1>4, <2>2, <3>1 DEF Write
        <4>2. \A q \in Patches \ {p} : at[q] # "write"
          BY <1>4, <2>2, <3>1 DEF Write, Holding, Lost
        <4> QED BY <1>4, <3>1, <4>1, <4>2 DEF Write
      <3>2. CASE p # r
        <4>1. at[p] \in {"reread", "ok"} /\ Sets(p, c) /\ ~Lost(p, c)
          BY <1>4, <2>2, <3>2, LostStays DEF Write
        <4>2. /\ row[c] = p
              /\ \A q \in Patches \ {p} : at[q] = "write" => copy[q][c] = p \/ Sets(q, c)
          BY <4>1 DEF KeptInv
        <4>3. ~Sets(r, c)
          BY <1>4, <2>2, <3>2 DEF Write, Lost, Past
        <4> QED BY <1>4, <3>2, <4>2, <4>3 DEF Write
      <3> QED BY <3>1, <3>2
    <2> QED BY <2>1, <2>2 DEF KeptInv
  <1>5. ASSUME NEW r \in Patches, Reread(r) \/ Drop(r) PROVE Acknowledged'
    <2>1. OwnInv'
      BY <1>5 DEF Reread, Drop
    <2>2. KeptInv'
      <3> SUFFICES ASSUME NEW p \in Patches, NEW c \in Columns,
                          at'[p] \in {"reread", "ok"}, Sets(p, c)', ~Lost(p, c)'
                   PROVE  /\ row'[c] = p
                          /\ \A q \in Patches \ {p} :
                               at'[q] = "write" => copy'[q][c] = p \/ Sets(q, c)'
        BY DEF KeptInv
      <3>1. at[p] \in {"reread", "ok"} /\ Sets(p, c) /\ ~Lost(p, c)
        BY <1>5, LostStays DEF Reread, Drop
      <3>2. /\ row[c] = p
            /\ \A q \in Patches \ {p} : at[q] = "write" => copy[q][c] = p \/ Sets(q, c)
        BY <3>1 DEF KeptInv
      <3> QED BY <1>5, <3>2 DEF Reread, Drop
    <2> QED BY <2>1, <2>2
  <1>6. CASE UNCHANGED vars
    BY <1>6, LostStays DEF vars, KeptInv
  <1> QED BY <1>1, <1>2, <1>3, <1>4, <1>5, <1>6 DEF Next, update

\* What a patch answered 200 for is in the row, for any number of concurrent
\* patches: only a rival that held a copy meanwhile, or another patch of the
\* same column, takes it out.
THEOREM AcknowledgedPatchStays == Spec => []AcknowledgedStays
  <1>1. Init => Acknowledged
    BY DEF Init, Acknowledged, OwnInv, KeptInv
  <1>2. Types /\ Acknowledged /\ [Next]_vars => Acknowledged'
    BY StepAcknowledged
  <1>3. Acknowledged => AcknowledgedStays
    BY DEF Acknowledged, KeptInv, AcknowledgedStays, Lost, Past
  <1> QED BY <1>1, <1>2, <1>3, TypesHold, PTL DEF Spec
=============================================================================
