--------------------------- MODULE GalleryProofs ---------------------------
(***************************************************************************)
(* What holds of Gallery for every number of seconds and of ids and every  *)
(* page size, proved with TLAPS: what a page holds, that the walk lists no *)
(* job twice and that it skips none.                                       *)
(***************************************************************************)
EXTENDS Gallery, FunctionTheorems, FiniteSetTheorems, TLAPS

-----------------------------------------------------------------------------
(* The order of the gallery, and the rank of a job in a set of jobs.       *)

Pairs == Nat \X Nat

LEMMA BelowOrders ==
  /\ \A k \in Pairs : ~Below(k, k)
  /\ \A k, l \in Pairs : k = l \/ Below(k, l) \/ Below(l, k)
  /\ \A k, l, m \in Pairs : Below(k, l) /\ Below(l, m) => Below(k, m)
  <1>1. \A k \in Pairs : ~Below(k, k)
    BY DEF Below, Pairs
  <1>2. \A k, l \in Pairs : k = l \/ Below(k, l) \/ Below(l, k)
    BY DEF Below, Pairs
  <1>3. \A k, l, m \in Pairs : Below(k, l) /\ Below(l, m) => Below(k, m)
    BY DEF Below, Pairs
  <1> QED BY <1>1, <1>2, <1>3

Upwards(S, k) == {m \in S : ~Below(m, k)}
Rank(S, k) == Cardinality(Upwards(S, k))

LEMMA RanksAreNumbers ==
  ASSUME NEW S \in SUBSET Pairs, IsFiniteSet(S)
  PROVE  /\ Cardinality(S) \in Nat
         /\ \A k \in S : Rank(S, k) \in 1 .. Cardinality(S)
         /\ \A k, l \in S : Below(l, k) => Rank(S, k) < Rank(S, l)
  <1>1. Cardinality(S) \in Nat
    BY FS_CardinalityType
  <1>2. ASSUME NEW k \in S
        PROVE  IsFiniteSet(Upwards(S, k)) /\ Rank(S, k) \in 1 .. Cardinality(S)
    <2>1. Upwards(S, k) \in SUBSET S /\ k \in Upwards(S, k)
      BY BelowOrders DEF Upwards
    <2>2. IsFiniteSet(Upwards(S, k)) /\ Rank(S, k) <= Cardinality(S)
      BY <2>1, FS_Subset DEF Rank
    <2>3. Rank(S, k) \in Nat /\ Rank(S, k) # 0
      BY <2>1, <2>2, FS_CardinalityType, FS_EmptySet DEF Rank
    <2> QED BY <1>1, <2>2, <2>3
  <1>3. ASSUME NEW k \in S, NEW l \in S, Below(l, k) PROVE Rank(S, k) < Rank(S, l)
    <2>1. Upwards(S, k) \in SUBSET Upwards(S, l)
      <3>1. ASSUME NEW m \in S, ~Below(m, k), Below(m, l) PROVE FALSE
        BY <1>3, <3>1, BelowOrders
      <3> QED BY <3>1 DEF Upwards
    <2>2. l \in Upwards(S, l) /\ l \notin Upwards(S, k)
      BY <1>3, BelowOrders DEF Upwards
    <2>3. Rank(S, k) <= Rank(S, l) /\ Rank(S, k) # Rank(S, l)
      BY <1>2, <2>1, <2>2, FS_Subset DEF Rank
    <2> QED BY <1>1, <1>2, <2>3
  <1> QED BY <1>1, <1>2, <1>3

\* Every rank has its job: the ranks are as many as the jobs.
LEMMA RanksAreTaken ==
  ASSUME NEW S \in SUBSET Pairs, IsFiniteSet(S), NEW i \in 1 .. Cardinality(S)
  PROVE  \E k \in S : Rank(S, k) = i
  <1> DEFINE n == Cardinality(S)
             f == [k \in S |-> Rank(S, k)]
  <1>1. n \in Nat /\ f \in [S -> 1 .. n]
    BY RanksAreNumbers
  <1>2. ASSUME NEW k \in S, NEW l \in S, k # l PROVE f[k] # f[l]
    <2>1. f[k] = Rank(S, k) /\ f[l] = Rank(S, l) /\ f[k] \in Int /\ f[l] \in Int
      BY <1>1
    <2>2. Below(l, k) \/ Below(k, l)
      BY <1>2, BelowOrders
    <2>3. f[k] < f[l] \/ f[l] < f[k]
      BY <2>1, <2>2, RanksAreNumbers
    <2> QED BY <2>1, <2>3
  <1> HIDE DEF f
  <1>3. f \in Injection(S, 1 .. n)
    BY <1>1, <1>2, Fun_IsInj
  <1>4. IsFiniteSet(1 .. n) /\ Cardinality(1 .. n) = n
    BY <1>1, FS_Interval
  <1>5. f \in Surjection(S, 1 .. n)
    BY <1>3, <1>4, FS_Injection
  <1>6. \A t \in 1 .. n : \E k \in S : f[k] = t
    BY <1>5, Fun_SurjectionProperties, Zenon
  <1>7. PICK k \in S : f[k] = i
    BY <1>6
  <1> QED BY <1>7 DEF f

\* A page holds the highest of the set in descending order, each once, and is
\* full unless it holds all.
LEMMA PageHolds ==
  ASSUME NEW S \in SUBSET Pairs, IsFiniteSet(S), NEW n \in Nat
  PROVE  /\ Newest(S, n) \in Seq(S) /\ Len(Newest(S, n)) <= n
         /\ \A i, k \in 1 .. Len(Newest(S, n)) :
              i < k => Below(Newest(S, n)[k], Newest(S, n)[i])
         /\ \A k \in S : \/ \E i \in 1 .. Len(Newest(S, n)) : Newest(S, n)[i] = k
                         \/ /\ Len(Newest(S, n)) = n
                            /\ n # 0 => Below(k, Newest(S, n)[n])
  <1> DEFINE c == Cardinality(S)
             size == Min({n, c})
             p == Newest(S, n)
  <1>1. c \in Nat
    BY RanksAreNumbers
  <1>2. size \in Nat /\ size <= n /\ size <= c /\ (size = n \/ size = c)
    <2>1. \E x \in {n, c} : \A y \in {n, c} : x <= y
      BY <1>1
    <2>2. size \in {n, c} /\ \A y \in {n, c} : size <= y
      BY <2>1 DEF Min
    <2> QED BY <1>1, <2>2
  <1>3. p = [i \in 1 .. size |-> CHOOSE k \in S : Rank(S, k) = i]
    BY DEF Newest, Rank, Upwards
  <1> HIDE DEF size, c, p
  <1>4. \A i \in 1 .. size : p[i] \in S /\ Rank(S, p[i]) = i
    <2> SUFFICES ASSUME NEW i \in 1 .. size PROVE p[i] \in S /\ Rank(S, p[i]) = i
      OBVIOUS
    <2>1. i \in 1 .. c
      BY <1>1, <1>2
    <2>2. \E k \in S : Rank(S, k) = i
      BY <2>1, RanksAreTaken DEF c
    <2> QED BY <1>3, <2>2
  <1>5. p \in Seq(S) /\ Len(p) = size
    BY <1>2, <1>3, <1>4
  <1>6. ASSUME NEW i \in 1 .. size, NEW k \in 1 .. size, i < k PROVE Below(p[k], p[i])
    <2>1. p[i] \in S /\ p[k] \in S /\ Rank(S, p[i]) = i /\ Rank(S, p[k]) = k
      BY <1>4
    <2>2. p[i] # p[k] /\ ~(k < i)
      BY <1>2, <1>6, <2>1
    <2>3. ~Below(p[i], p[k])
      BY <2>1, <2>2, RanksAreNumbers
    <2> QED BY <2>1, <2>2, <2>3, BelowOrders
  <1>7. ASSUME NEW k \in S
        PROVE  (\E i \in 1 .. size : p[i] = k) \/ (size = n /\ (n # 0 => Below(k, p[n])))
    <2> DEFINE r == Rank(S, k)
    <2>1. r \in 1 .. c
      BY RanksAreNumbers DEF c
    <2>2. CASE r <= size
      <3>1. r \in 1 .. size /\ Rank(S, p[r]) = r /\ p[r] \in S
        BY <1>2, <1>4, <2>1, <2>2
      <3>2. ~Below(p[r], k) /\ ~Below(k, p[r])
        <4>1. ~(r < r)
          BY <2>1
        <4> QED BY <3>1, <4>1, RanksAreNumbers
      <3>3. p[r] = k
        BY <3>1, <3>2, BelowOrders
      <3> QED BY <3>1, <3>3
    <2>3. CASE size < r
      <3>1. size = n
        BY <1>1, <1>2, <2>1, <2>3
      <3>2. ASSUME n # 0 PROVE Below(k, p[n])
        <4>1. n \in 1 .. size /\ p[n] \in S /\ Rank(S, p[n]) = n /\ n < r
          BY <1>2, <1>4, <2>3, <3>1, <3>2
        <4>2. p[n] # k /\ ~(r < n)
          BY <2>1, <4>1
        <4>3. ~Below(p[n], k)
          BY <4>1, <4>2, RanksAreNumbers
        <4> QED BY <4>1, <4>2, <4>3, BelowOrders
      <3> QED BY <3>1, <3>2
    <2> QED BY <1>1, <1>2, <2>1, <2>2, <2>3
  <1>8. Len(p) <= n
    BY <1>2, <1>5
  <1> QED BY <1>5, <1>6, <1>7, <1>8 DEF p

-----------------------------------------------------------------------------
(* The walk.                                                               *)

\* Where the walk is: what it has listed is not below its cursor, what it is to
\* list matches still.
WalkInv ==
  /\ walk = "before" => cursor = Top /\ shown = <<>> /\ steady = {}
  /\ walk = "walking" => cursor \in Keys
  /\ walk # "ended" => \A i \in DOMAIN shown : ~Below(shown[i], cursor)
  /\ steady \subseteq Matching

Walks == TypeOK /\ WalkInv /\ NewestFirstOnce /\ NothingSkipped

LEMMA KeysArePairs ==
  /\ Keys \subseteq Pairs /\ IsFiniteSet(Keys)
  /\ Top \in Pairs /\ \A k \in Keys : Below(k, Top) /\ k # NoCursor
  <1>1. Seconds \in Nat /\ Ids \in Nat
    BY GalleryAssumption
  <1>2. IsFiniteSet(Keys)
    <2>1. IsFiniteSet(1 .. Seconds) /\ IsFiniteSet(1 .. Ids)
      BY <1>1, FS_Interval
    <2> QED BY <2>1, FS_Product DEF Keys
  <1>3. \A k \in Keys : k \in Pairs /\ Below(k, Top)
    BY <1>1 DEF Keys, Pairs, Below, Top
  <1>4. \A k \in Keys : k[1] # 0
    BY <1>1 DEF Keys
  <1>5. \A k \in Keys : k # NoCursor
    BY <1>4 DEF NoCursor
  <1> QED BY <1>1, <1>2, <1>3, <1>5 DEF Pairs, Top

LEMMA PageOfWalk ==
  ASSUME Walks, walk # "ended", NEW page, page = Newest(After(cursor), Limit)
  PROVE  /\ page \in Seq(Keys) /\ cursor \in Pairs
         /\ \A i \in 1 .. Len(page) : page[i] \in Matching /\ Below(page[i], cursor)
         /\ \A i, k \in 1 .. Len(page) : i < k => Below(page[k], page[i])
         /\ \A k \in Matching : Below(k, cursor) =>
              \/ \E i \in 1 .. Len(page) : page[i] = k
              \/ Len(page) = Limit /\ Below(k, page[Limit])
  <1> DEFINE S == After(cursor)
  <1>1. Limit \in Nat /\ Limit # 0
    BY GalleryAssumption
  <1>2. S \in SUBSET Keys /\ S \in SUBSET Pairs /\ IsFiniteSet(S)
    <2>1. S \in SUBSET Keys
      BY DEF Walks, TypeOK, After, Matching
    <2> QED BY <2>1, KeysArePairs, FS_Subset
  <1>3. \A k : k \in S <=> k \in Matching /\ Below(k, cursor)
    BY DEF After
  <1>4. cursor \in Pairs
    BY KeysArePairs DEF Walks, WalkInv, TypeOK
  <1> HIDE DEF S
  <1>5. page \in Seq(S)
    BY <1>1, <1>2, PageHolds DEF S
  <1>6. \A i, k \in 1 .. Len(page) : i < k => Below(page[k], page[i])
    BY <1>1, <1>2, PageHolds DEF S
  <1>7. \A k \in S : \/ \E i \in 1 .. Len(page) : page[i] = k
                     \/ Len(page) = Limit /\ Below(k, page[Limit])
    BY <1>1, <1>2, PageHolds DEF S
  <1>8. page \in Seq(Keys)
    BY <1>2, <1>5
  <1>9. \A i \in 1 .. Len(page) : page[i] \in S
    BY <1>5
  <1> QED BY <1>3, <1>4, <1>6, <1>7, <1>8, <1>9

\* A page goes on where the last one ended.
LEMMA ListKeeps ==
  ASSUME Walks, list_jobs
  PROVE  Walks'
  <1> USE DEF Walks, TypeOK, WalkInv
  <1> DEFINE n == Len(shown)
  <1>1. PICK page : page = Newest(After(cursor), Limit)
    OBVIOUS
  <1>2. /\ walk # "ended" /\ shown' = shown \o page /\ cursor' = NextCursor(page)
        /\ walk' = IF cursor' = NoCursor THEN "ended" ELSE "walking"
        /\ steady' = IF walk = "before" THEN Matching ELSE steady
        /\ UNCHANGED <<now, rows, deleted, asked>>
    BY <1>1 DEF list_jobs
  <1>3. /\ page \in Seq(Keys) /\ cursor \in Pairs
        /\ \A i \in 1 .. Len(page) : page[i] \in Matching /\ Below(page[i], cursor)
        /\ \A i, k \in 1 .. Len(page) : i < k => Below(page[k], page[i])
        /\ \A k \in Matching : Below(k, cursor) =>
             \/ \E i \in 1 .. Len(page) : page[i] = k
             \/ Len(page) = Limit /\ Below(k, page[Limit])
    BY <1>1, <1>2, PageOfWalk
  <1>4. Limit \in Nat \ {0} /\ n \in Nat /\ Len(page) \in Nat
    BY <1>3, GalleryAssumption
  <1>5. /\ shown' \in Seq(Keys) /\ Len(shown') = n + Len(page)
        /\ \A i \in 1 .. n : shown'[i] = shown[i]
        /\ \A i \in 1 .. Len(page) : shown'[n + i] = page[i]
    BY <1>2, <1>3
  <1>6. \A i \in 1 .. Len(shown') : i \in 1 .. n \/ \E k \in 1 .. Len(page) : i = n + k
    <2> SUFFICES ASSUME NEW i \in 1 .. Len(shown'), i \notin 1 .. n
                 PROVE  \E k \in 1 .. Len(page) : i = n + k
      OBVIOUS
    <2>1. i - n \in 1 .. Len(page) /\ i = n + (i - n)
      BY <1>4, <1>5
    <2> QED BY <2>1
  <1>7. \A k \in Keys : k \in Pairs
    BY KeysArePairs
  <1>8. \A i \in 1 .. n : shown[i] \in Pairs /\ ~Below(shown[i], cursor)
    BY <1>2, <1>7
  <1>9. \A i \in 1 .. Len(page) : page[i] \in Pairs
    BY <1>3, <1>7
  <1>10. \A i, k \in 1 .. Len(shown') : i < k => Below(shown'[k], shown'[i])
    <2> SUFFICES ASSUME NEW i \in 1 .. Len(shown'), NEW k \in 1 .. Len(shown'), i < k
                 PROVE  Below(shown'[k], shown'[i])
      OBVIOUS
    <2>1. CASE i \in 1 .. n /\ k \in 1 .. n
      BY <1>5, <2>1 DEF NewestFirstOnce
    <2>2. ASSUME i \in 1 .. n, NEW b \in 1 .. Len(page), k = n + b PROVE Below(shown'[k], shown'[i])
      <3>1. Below(page[b], cursor) /\ ~Below(shown[i], cursor)
        BY <1>3, <1>8, <2>2
      <3>2. Below(page[b], shown[i])
        BY <1>3, <1>8, <1>9, <2>2, <3>1, BelowOrders
      <3> QED BY <1>5, <2>2, <3>2
    <2>3. ASSUME NEW a \in 1 .. Len(page), i = n + a, NEW b \in 1 .. Len(page), k = n + b
          PROVE  Below(shown'[k], shown'[i])
      <3>1. a < b
        BY <1>4, <2>3
      <3> QED BY <1>3, <1>5, <2>3, <3>1
    <2>4. ASSUME NEW a \in 1 .. Len(page), i = n + a, k \in 1 .. n PROVE FALSE
      BY <1>4, <2>4
    <2> QED BY <1>6, <2>1, <2>2, <2>3, <2>4
  <1>11. walk' \in {"walking", "ended"} /\ (walk' = "walking" <=> Len(page) = Limit)
    <2>1. CASE Len(page) = Limit
      <3>1. cursor' = page[Limit] /\ page[Limit] \in Keys
        BY <1>2, <1>3, <1>4, <2>1 DEF NextCursor
      <3> QED BY <1>2, <2>1, <3>1, KeysArePairs
    <2>2. CASE Len(page) # Limit
      BY <1>2, <2>2 DEF NextCursor
    <2> QED BY <2>1, <2>2
  <1>12. ASSUME walk' = "walking"
         PROVE  /\ cursor' = page[Limit] /\ Limit \in 1 .. Len(page) /\ cursor' \in Keys
                /\ Below(cursor', cursor)
    <2>1. cursor' = page[Limit] /\ Limit \in 1 .. Len(page)
      BY <1>2, <1>4, <1>11, <1>12 DEF NextCursor
    <2> QED BY <1>3, <2>1
  <1>13. ASSUME walk' = "walking", NEW i \in 1 .. Len(shown') PROVE ~Below(shown'[i], cursor')
    <2>1. CASE i \in 1 .. n
      BY <1>3, <1>5, <1>7, <1>8, <1>12, <1>13, <2>1, BelowOrders
    <2>2. ASSUME NEW a \in 1 .. Len(page), i = n + a PROVE ~Below(shown'[i], cursor')
      <3>1. shown'[i] = page[a] /\ (a = Limit \/ a < Limit)
        BY <1>4, <1>5, <1>11, <1>13, <2>2
      <3>2. a = Limit \/ Below(page[Limit], page[a])
        BY <1>3, <1>12, <1>13, <3>1
      <3> QED BY <1>9, <1>12, <1>13, <3>1, <3>2, BelowOrders
    <2> QED BY <1>6, <2>1, <2>2
  <1>14. cursor' \in Keys \cup {NoCursor}
    BY <1>2, <1>3, <1>4 DEF NextCursor
  <1>15. steady' \subseteq Matching /\ Matching' = Matching
    BY <1>2 DEF Matching
  <1>16. ASSUME NEW k \in steady' PROVE k \in Shown' \/ (walk' = "walking" /\ Below(k, cursor'))
    <2>1. ASSUME k \in Shown PROVE k \in Shown'
      <3>1. PICK i \in 1 .. n : k = shown[i]
        BY <2>1 DEF Shown
      <3>2. i \in 1 .. Len(shown') /\ shown'[i] = k
        BY <1>4, <1>5, <3>1
      <3> QED BY <1>5, <3>2 DEF Shown
    <2>2. ASSUME NEW i \in 1 .. Len(page), page[i] = k PROVE k \in Shown'
      <3>1. n + i \in 1 .. Len(shown') /\ shown'[n + i] = k
        BY <1>4, <1>5, <2>2
      <3> QED BY <1>5, <3>1 DEF Shown
    <2>3. k \in Shown \/ Below(k, cursor)
      <3>1. CASE walk = "before"
        BY <1>2, <3>1, KeysArePairs DEF Matching
      <3>2. CASE walk # "before"
        BY <1>2, <1>16, <3>2 DEF NothingSkipped
      <3> QED BY <3>1, <3>2
    <2>4. \/ k \in Shown
          \/ \E i \in 1 .. Len(page) : page[i] = k
          \/ Len(page) = Limit /\ Below(k, page[Limit])
      BY <1>3, <1>15, <2>3
    <2> QED BY <1>11, <1>12, <2>1, <2>2, <2>4
  <1>17. TypeOK'
    <2>1. steady' \subseteq rows'
      BY <1>2, <1>15 DEF Matching
    <2> QED BY <1>2, <1>5, <1>11, <1>14, <2>1
  <1>18. WalkInv'
    BY <1>5, <1>11, <1>12, <1>13, <1>15
  <1>19. NewestFirstOnce'
    BY <1>5, <1>10 DEF NewestFirstOnce
  <1>20. NothingSkipped'
    BY <1>16 DEF NothingSkipped
  <1> QED BY <1>17, <1>18, <1>19, <1>20

\* What happens beside the walk: a job that no longer matches is steady no more.
LEMMA BesideKeeps ==
  ASSUME Walks, ClockTicks \/ UNCHANGED vars \/
         \E k \in Keys :
           \/ \E status \in (IF Filtered THEN BOOLEAN ELSE {FALSE}) : submit_job(k, status)
           \/ ChangeStatus(k) \/ delete_job(k) \/ restore_job(k) \/ purge(k)
  PROVE  Walks'
  <1> USE DEF Walks, TypeOK, WalkInv, Beside
  <1>1. /\ UNCHANGED <<cursor, walk, shown>> /\ now' \in 1 .. Seconds
        /\ steady' \subseteq steady
    <2>1. CASE ClockTicks
      BY <2>1, GalleryAssumption DEF ClockTicks
    <2>2. CASE UNCHANGED vars
      BY <2>2 DEF vars
    <2> QED BY <2>1, <2>2 DEF submit_job, ChangeStatus, delete_job, restore_job, purge
  <1>2. rows' \subseteq Keys /\ deleted' \subseteq rows' /\ asked' \subseteq rows'
    <2>1. CASE ClockTicks \/ UNCHANGED vars
      BY <2>1 DEF ClockTicks, vars
    <2>2. ASSUME NEW k \in Keys, NEW status \in BOOLEAN, submit_job(k, status)
          PROVE  rows' \subseteq Keys /\ deleted' \subseteq rows' /\ asked' \subseteq rows'
      BY <2>2 DEF submit_job
    <2>3. ASSUME NEW k \in Keys, ChangeStatus(k) \/ delete_job(k) \/ restore_job(k) \/ purge(k)
          PROVE  rows' \subseteq Keys /\ deleted' \subseteq rows' /\ asked' \subseteq rows'
      BY <2>3 DEF ChangeStatus, delete_job, restore_job, purge
    <2> QED BY <2>1, <2>2, <2>3
  <1>3. steady' \subseteq Matching'
    <2>1. CASE ClockTicks \/ UNCHANGED vars
      BY <2>1 DEF ClockTicks, vars, Matching
    <2>2. ASSUME NEW k \in Keys, NEW status \in BOOLEAN, submit_job(k, status)
          PROVE  steady' \subseteq Matching'
      BY <2>2 DEF submit_job, Matching
    <2>3. ASSUME NEW k \in Keys, ChangeStatus(k) \/ delete_job(k) PROVE steady' \subseteq Matching'
      BY <2>3 DEF ChangeStatus, delete_job, Matching
    <2>4. ASSUME NEW k \in Keys, restore_job(k) \/ purge(k) PROVE steady' \subseteq Matching'
      BY <2>4 DEF restore_job, purge, Matching
    <2>5. \/ ClockTicks \/ UNCHANGED vars
          \/ \E k \in Keys : \/ \E status \in BOOLEAN : submit_job(k, status)
                            \/ ChangeStatus(k) \/ delete_job(k) \/ restore_job(k) \/ purge(k)
      OBVIOUS
    <2> HIDE DEF TypeOK, WalkInv, Walks
    <2> QED BY <2>1, <2>2, <2>3, <2>4, <2>5
  <1>4. steady' \subseteq rows'
    BY <1>2, <1>3 DEF Matching
  <1>5. TypeOK'
    BY <1>1, <1>2, <1>4
  <1>6. WalkInv'
    BY <1>1, <1>3
  <1>7. NewestFirstOnce' /\ NothingSkipped'
    BY <1>1 DEF NewestFirstOnce, NothingSkipped, Shown
  <1> QED BY <1>5, <1>6, <1>7

LEMMA WalkHolds == Spec => []Walks
  <1>1. Init => Walks
    <2> SUFFICES ASSUME Init PROVE Walks
      OBVIOUS
    <2>1. TypeOK
      BY GalleryAssumption DEF Init, TypeOK
    <2>2. WalkInv
      BY DEF Init, WalkInv
    <2>3. NewestFirstOnce /\ NothingSkipped
      BY DEF Init, NewestFirstOnce, NothingSkipped
    <2> QED BY <2>1, <2>2, <2>3 DEF Walks
  <1>2. Walks /\ [Next]_vars => Walks'
    BY ListKeeps, BesideKeeps DEF Next
  <1> QED BY <1>1, <1>2, PTL DEF Spec

\* The table, the cursor and the jobs listed keep to their types.
THEOREM GalleryTypes == Spec => []TypeOK
  BY WalkHolds, PTL DEF Walks

\* The walk runs down the order and lists no job twice: a page holds jobs below
\* the cursor only, and the cursor is the last of the jobs listed.
THEOREM EachOnceInOrder == Spec => []NewestFirstOnce
  BY WalkHolds, PTL DEF Walks

\* A job that matched all through the walk is listed by its end: a page leaves
\* out only jobs below its last one.
THEOREM NoneIsSkipped == Spec => []NothingSkipped
  BY WalkHolds, PTL DEF Walks
=============================================================================
