---------------------------- MODULE ArcheryProofs ----------------------------
(***************************************************************************)
(* Proofs about the Archery History pipeline, for every table, page size,  *)
(* sample length and every order of commits, purges and failed calls.      *)
(*                                                                         *)
(* The scan reads keyset pages of a table that changes under it.  A page has *)
(* no gaps and a short page is the last one, so that the rows which stay are *)
(* all seen (ScanInv); the recovery then only ever adds samples or refuses a *)
(* row, and a result is called complete when no row is left over           *)
(* (RecoveryInv).                                                          *)
(***************************************************************************)
EXTENDS ArcheryInvestigation, FiniteSetTheorems, WellFoundedInduction, TLAPS

ScanFields == {"phase", "cursor", "snapshot", "size", "ranking", "base", "ranked", "based", "todo"}
RecFields == {"rows", "full", "refused", "order", "required", "sample", "current", "got", "chunk"}
ResultFields == {"made", "complete", "window", "over"}

(* The rows that have been there since the scan began are there.  As the first
   scan goes down the ids it has seen those of them at its cursor and above,
   and none of them is above the snapshot it took; so it has them all in the
   end.                                                                     *)
ScanInv ==
  /\ table \in [Ids -> {"unborn", "present", "gone"}] /\ stable \subseteq Present
  /\ DOMAIN scan = ScanFields /\ scan.size \in Nat
  /\ scan.ranked \in BOOLEAN /\ scan.based \in BOOLEAN
  /\ scan.phase \in {"IDLE", "RANKING", "COMPACT", "RECONCILE", "ENRICHMENT", "COMPLETED"}
  /\ scan.phase = "IDLE" => ~scan.ranked /\ scan.cursor = NoId /\ scan.snapshot = NoId
  /\ scan.phase = "RANKING" /\ scan.cursor = NoId => scan.snapshot = NoId
  /\ scan.phase = "RANKING" /\ scan.cursor # NoId =>
       /\ scan.cursor \in Ids /\ scan.snapshot \in Ids
       /\ \A i \in stable : i <= scan.snapshot /\ (i >= scan.cursor => i \in scan.ranking)
  /\ scan.ranked => stable \subseteq scan.ranking

(* A row that both scans listed is among the rows or was refused; a result is
   only complete when each of its rows has its sample.                      *)
RecoveryInv ==
  /\ DOMAIN rec = RecFields
  /\ DOMAIN result = ResultFields /\ result.made \in BOOLEAN /\ result.complete \in BOOLEAN
  /\ result.made => result.over \/ scan.phase \in {"ENRICHMENT", "COMPLETED"}
  /\ scan.phase = "ENRICHMENT" =>
       /\ result.made
       /\ Consistent(scan) => scan.ranking \ rec.rows \subseteq rec.refused
  /\ result.complete =>
       /\ result.made /\ Consistent(scan)
       /\ rec.rows \subseteq rec.full
       /\ scan.ranking \ rec.rows \subseteq rec.refused

HistoryInv == ScanInv /\ RecoveryInv

-----------------------------------------------------------------------------
(* Pages.                                                                  *)

LEMMA MinOfNaturals ==
  ASSUME NEW S \in SUBSET Nat, S # {}
  PROVE  \E x \in S : \A y \in S : x <= y
<1> DEFINE R == {ss \in Nat \X Nat : ss[1] < ss[2]}
<1>1. PICK x \in S : \A y \in S : ~ (<<y, x>> \in R)
  <2>1. IsWellFoundedOn(R, Nat)
    BY NatLessThanWellFounded DEF OpToRel
  <2>2. QED
    <3> HIDE DEF R
    <3>1. QED BY <2>1, WFMin
<1>2. \A y \in S : x <= y
  <2> SUFFICES ASSUME NEW y \in S
               PROVE  x <= y
    OBVIOUS
  <2>1. <<y, x>> \in Nat \X Nat /\ <<y, x>>[1] = y /\ <<y, x>>[2] = x
    OBVIOUS
  <2>2. ~(y < x)
    BY <1>1, <2>1
  <2>3. QED
    BY <2>2
<1>3. QED
  BY <1>2

LEMMA IdsAreNumbers == MaxId \in Nat /\ \A i \in Ids : i \in Nat /\ i # NoId /\ i <= MaxId
  BY HistoryAssumption DEF Ids, NoId

LEMMA GreatestId ==
  ASSUME NEW S \in SUBSET Ids, S # {}
  PROVE  \E x \in S : \A y \in S : y <= x
<1> DEFINE T == {MaxId - x : x \in S}
<1>1. T \in SUBSET Nat /\ T # {}
  <2>1. \A x \in S : MaxId - x \in Nat
    BY IdsAreNumbers
  <2> QED BY <2>1
<1>2. PICK t \in T : \A y \in T : t <= y
  <2> HIDE DEF T
  <2> QED BY <1>1, MinOfNaturals
<1>3. PICK x \in S : t = MaxId - x
  BY <1>2
<1>4. ASSUME NEW y \in S PROVE y <= x
  <2>1. MaxId - x <= MaxId - y
    BY <1>2, <1>3
  <2>2. x \in Nat /\ y \in Nat /\ MaxId \in Nat
    BY IdsAreNumbers
  <2> QED BY <2>1, <2>2
<1> QED BY <1>4

LEMMA MinOfIds ==
  ASSUME NEW S \in SUBSET Ids, S # {}
  PROVE  Min(S) \in S /\ \A y \in S : Min(S) <= y
<1>1. S \in SUBSET Nat
  BY DEF Ids
<1>2. \E x \in S : \A y \in S : x <= y
  BY <1>1, MinOfNaturals
<1> QED BY <1>2 DEF Min

LEMMA MaxOfIds ==
  ASSUME NEW S \in SUBSET Ids, S # {}
  PROVE  Max(S) \in S /\ \A y \in S : y <= Max(S)
<1>1. \E x \in S : \A y \in S : x >= y
  <2>1. PICK x \in S : \A y \in S : y <= x
    BY GreatestId
  <2>2. \A y \in S : y \in Nat
    BY IdsAreNumbers
  <2> QED BY <2>1, <2>2
<1>2. Max(S) \in S /\ \A y \in S : Max(S) >= y
  BY <1>1 DEF Max
<1>3. \A y \in S : y \in Nat
  BY DEF Ids
<1> QED BY <1>2, <1>3

LEMMA IdsAreFinite ==
  ASSUME NEW S \in SUBSET Ids
  PROVE  IsFiniteSet(S) /\ Cardinality(S) \in Nat
<1>1. IsFiniteSet(Ids)
  BY HistoryAssumption, FS_Interval DEF Ids
<1> QED BY <1>1, FS_Subset, FS_CardinalityType

(* A page has every row below the cursor that is above one of its rows, *)
LEMMA PageHasNoGap ==
  ASSUME NEW n \in Nat, NEW m \in Page(n), NEW i \in Below, i >= m
  PROVE  i \in Page(n)
<1>1. Below \subseteq Ids
  BY DEF Below, Window, Present
<1>2. {j \in Below : j > i} \subseteq {j \in Below : j > m}
  <2>1. \A j \in Below : j \in Nat
    BY <1>1, IdsAreNumbers
  <2>2. m \in Below
    BY DEF Page
  <2> QED BY <2>1, <2>2
<1>3. Cardinality({j \in Below : j > i}) <= Cardinality({j \in Below : j > m})
  <2>1. IsFiniteSet({j \in Below : j > m})
    BY <1>1, IdsAreFinite
  <2> QED BY <1>2, <2>1, FS_Subset
<1>4. Cardinality({j \in Below : j > i}) \in Nat /\ Cardinality({j \in Below : j > m}) \in Nat
  BY <1>1, IdsAreFinite
<1> QED BY <1>3, <1>4 DEF Page

(* and a page that is shorter than its limit is the last one. *)
LEMMA ShortPageIsTheRest ==
  ASSUME NEW n \in Nat, IsLast(Page(n), n)
  PROVE  Below \subseteq Page(n)
<1> SUFFICES ASSUME Below \ Page(n) # {} PROVE FALSE
  OBVIOUS
<1>1. Below \subseteq Ids
  BY DEF Below, Window, Present
<1>2. PICK i \in Below \ Page(n) : \A j \in Below \ Page(n) : j <= i
  BY <1>1, GreatestId
<1>3. {j \in Below : j > i} \subseteq Page(n)
  <2>1. \A j \in Below : j \in Nat
    BY <1>1, IdsAreNumbers
  <2> QED BY <1>2, <2>1
<1>4. Page(n) \subseteq Ids
  BY <1>1 DEF Page
<1>5. Cardinality({j \in Below : j > i}) <= Cardinality(Page(n))
  BY <1>3, <1>4, IdsAreFinite, FS_Subset
<1>6. Cardinality({j \in Below : j > i}) \in Nat /\ Cardinality(Page(n)) \in Nat
  BY <1>1, <1>4, IdsAreFinite
<1>7. Cardinality({j \in Below : j > i}) < n
  BY <1>5, <1>6 DEF IsLast
<1> QED BY <1>2, <1>7 DEF Page

LEMMA FullPageHasRows ==
  ASSUME NEW n \in Nat \ {0}, ~IsLast(Page(n), n)
  PROVE  Page(n) # {} /\ Page(n) \subseteq Below /\ Page(n) \subseteq Ids
<1>1. Page(n) \subseteq Below /\ Page(n) \subseteq Ids
  BY DEF Page, Below, Window, Present
<1>2. CASE Page(n) = {}
  <2>1. Cardinality(Page(n)) = 0
    BY <1>2, FS_EmptySet
  <2> QED BY <2>1 DEF IsLast
<1> QED BY <1>1, <1>2
-----------------------------------------------------------------------------
(* The scans.                                                              *)

LEMMA HistoryInitInv == HistoryInit => HistoryInv
  BY HistoryAssumption
     DEF HistoryInit, HistoryInv, ScanInv, RecoveryInv, ScanFields, RecFields, ResultFields, Present

(* A step of the scans before there is a result. *)
LEMMA ScanStep ==
  ASSUME HistoryInv, Running, ScanInv', UNCHANGED <<rec, result>>,
         scan.phase \notin {"ENRICHMENT", "COMPLETED"}, scan'.phase # "ENRICHMENT"
  PROVE  HistoryInv'
<1>1. ~result.made /\ ~result.complete
  BY DEF HistoryInv, RecoveryInv, Running
<1> QED BY <1>1 DEF HistoryInv, RecoveryInv

LEMMA PipelineStarts ==
  ASSUME HistoryInv, StartPipeline
  PROVE  HistoryInv'
<1>1. /\ Running /\ scan.phase = "IDLE" /\ scan' = [scan EXCEPT !.phase = "RANKING"]
      /\ stable' = Present /\ UNCHANGED <<table, rec, result>>
  BY DEF StartPipeline, Phase
<1>2. /\ DOMAIN scan' = ScanFields /\ scan'.phase = "RANKING"
      /\ scan'.cursor = NoId /\ scan'.snapshot = NoId /\ scan'.size = scan.size
      /\ scan'.ranked = scan.ranked /\ scan'.based = scan.based /\ ~scan.ranked
  BY <1>1 DEF HistoryInv, ScanInv, ScanFields
<1>3. Present' = Present
  BY <1>1 DEF Present
<1>4. ScanInv'
  BY <1>1, <1>2, <1>3 DEF HistoryInv, ScanInv
<1> QED BY <1>1, <1>2, <1>4, ScanStep

(* Every stable row that the first scan has not seen is below its cursor. *)
LEMMA UnseenIsBelow ==
  ASSUME ScanInv, scan.phase = "RANKING", NEW i \in stable, i \notin scan.ranking
  PROVE  i \in Below
<1>1. i \in Present /\ i \in Nat
  BY IdsAreNumbers DEF ScanInv, Present
<1>2. CASE scan.cursor = NoId
  BY <1>1, <1>2 DEF ScanInv, Below, Window
<1>3. CASE scan.cursor # NoId
  <2>1. scan.cursor \in Ids /\ scan.snapshot \in Ids
        /\ i <= scan.snapshot /\ ~(i >= scan.cursor)
    BY <1>3 DEF ScanInv
  <2>2. scan.cursor \in Nat /\ scan.snapshot \in Nat
    BY <2>1, IdsAreNumbers
  <2> QED BY <1>1, <2>1, <2>2 DEF Below, Window
<1> QED BY <1>2, <1>3

LEMMA RankingInv ==
  ASSUME HistoryInv, RankingPage
  PROVE  HistoryInv'
<1>1. /\ Running /\ scan.phase = "RANKING" /\ UNCHANGED <<table, rec, result, stable>>
      /\ ScanInv
  BY DEF RankingPage, Phase, HistoryInv
<1>2. PICK limit \in 1 .. scan.size :
        LET page == Page(limit)
            s == [scan EXCEPT
                    !.ranking = @ \cup page,
                    !.snapshot = IF @ = NoId /\ page # {} THEN Max(page) ELSE @]
        IN  scan' = IF IsLast(page, limit)
                    THEN [s EXCEPT !.phase = "COMPACT", !.ranked = TRUE,
                                   !.cursor = NoId, !.size = PageSize]
                    ELSE [s EXCEPT !.cursor = Min(page)]
  BY DEF RankingPage
<1> DEFINE page == Page(limit)
           snapshot == IF scan.snapshot = NoId /\ page # {} THEN Max(page) ELSE scan.snapshot
<1>3. limit \in Nat \ {0}
  BY <1>1 DEF ScanInv
<1>4. DOMAIN scan = ScanFields
  BY <1>1 DEF ScanInv
<1>5. Present' = Present /\ stable' \subseteq Present'
  BY <1>1 DEF Present, ScanInv
<1>6. CASE IsLast(page, limit)
  <2>1. scan' = [[scan EXCEPT !.ranking = scan.ranking \cup page, !.snapshot = snapshot]
                   EXCEPT !.phase = "COMPACT", !.ranked = TRUE, !.cursor = NoId,
                          !.size = PageSize]
    BY <1>2, <1>6
  <2>2. /\ DOMAIN scan' = ScanFields /\ scan'.phase = "COMPACT" /\ scan'.ranked = TRUE
        /\ scan'.size = PageSize /\ scan'.ranking = scan.ranking \cup page
        /\ scan'.based = scan.based
    <3> HIDE DEF page, snapshot
    <3> QED BY <1>4, <2>1 DEF ScanFields
  <2>3. Below \subseteq page
    BY <1>3, <1>6, ShortPageIsTheRest
  <2>4. stable \subseteq scan'.ranking
    BY <1>1, <2>2, <2>3, UnseenIsBelow
  <2>5. ScanInv'
    <3> HIDE DEF page, snapshot
    <3> QED BY <1>1, <1>5, <2>2, <2>4, HistoryAssumption DEF ScanInv
  <2> QED BY <1>1, <2>2, <2>5, ScanStep
<1>7. CASE ~IsLast(page, limit)
  <2>1. scan' = [[scan EXCEPT !.ranking = scan.ranking \cup page, !.snapshot = snapshot]
                   EXCEPT !.cursor = Min(page)]
    BY <1>2, <1>7
  <2>2. /\ DOMAIN scan' = ScanFields /\ scan'.phase = "RANKING" /\ scan'.ranked = scan.ranked
        /\ scan'.size = scan.size /\ scan'.ranking = scan.ranking \cup page
        /\ scan'.based = scan.based /\ scan'.cursor = Min(page) /\ scan'.snapshot = snapshot
    <3> HIDE DEF page, snapshot
    <3> QED BY <1>1, <1>4, <2>1 DEF ScanFields
  <2>3. page # {} /\ page \subseteq Below /\ page \subseteq Ids
    BY <1>3, <1>7, FullPageHasRows
  <2>4. /\ Min(page) \in page /\ \A y \in page : Min(page) <= y
        /\ Max(page) \in page /\ \A y \in page : y <= Max(page)
    <3> HIDE DEF page
    <3> QED BY <2>3, MinOfIds, MaxOfIds
  <2>5. ASSUME NEW i \in stable, i >= Min(page) PROVE i \in scan.ranking \cup page
    <3>1. CASE i \in Below
      BY <1>3, <2>4, <2>5, <3>1, PageHasNoGap
    <3>2. CASE i \notin Below
      BY <1>1, <3>2, UnseenIsBelow
    <3> QED BY <3>1, <3>2
  <2>6. snapshot \in Ids /\ \A i \in stable : i <= snapshot
    <3>1. CASE scan.cursor = NoId
      <4>1. scan.snapshot = NoId /\ snapshot = Max(page)
        BY <1>1, <2>3, <3>1 DEF ScanInv
      <4>2. ASSUME NEW i \in stable PROVE i <= Max(page)
        <5>1. i \in Below
          BY <1>1, <3>1, <4>1 DEF ScanInv, Below, Window
        <5>2. i \in Nat /\ Max(page) \in Nat
          BY <1>1, <2>3, <2>4, IdsAreNumbers DEF ScanInv, Present
        <5>3. CASE i >= Max(page)
          BY <1>3, <2>4, <5>1, <5>3, PageHasNoGap
        <5> QED BY <5>2, <5>3
      <4> QED BY <2>3, <2>4, <4>1, <4>2
    <3>2. CASE scan.cursor # NoId
      <4>1. scan.snapshot \in Ids /\ \A i \in stable : i <= scan.snapshot
        BY <1>1, <3>2 DEF ScanInv
      <4> QED BY <4>1, IdsAreNumbers
    <3> QED BY <3>1, <3>2
  <2>7. Min(page) \in Ids
    BY <2>3, <2>4
  <2>8. scan.ranked => stable \subseteq scan.ranking \cup page
    BY <1>1 DEF ScanInv
  <2>9. ScanInv'
    <3> HIDE DEF page, snapshot
    <3> QED BY <1>1, <1>5, <2>2, <2>5, <2>6, <2>7, <2>8, IdsAreNumbers DEF ScanInv
  <2> QED BY <1>1, <2>2, <2>9, ScanStep
<1> QED BY <1>6, <1>7

-----------------------------------------------------------------------------
(* The result.                                                             *)

LEMMA RefreshedFields ==
  ASSUME DOMAIN result = ResultFields, NEW s, NEW r
  PROVE  /\ DOMAIN Refreshed(s, r) = ResultFields
         /\ Refreshed(s, r).made \in BOOLEAN /\ Refreshed(s, r).made
         /\ Refreshed(s, r).complete \in BOOLEAN
         /\ Refreshed(s, r).complete <=> Consistent(s) /\ r.rows \subseteq r.full
  BY DEF Refreshed, ResultFields

(* Once both scans are through, the rows are those that both have listed. *)
LEMMA FinalizeInv ==
  ASSUME HistoryInv, scan.phase \notin {"IDLE", "RANKING", "ENRICHMENT", "COMPLETED"},
         UNCHANGED <<table, stable>>,
         NEW s, DOMAIN s = ScanFields, s.size \in Nat, s.ranked = scan.ranked,
         s.based \in BOOLEAN, s.ranking = scan.ranking, Finalize(s)
  PROVE  HistoryInv'
<1> DEFINE usable == s.ranking \cap s.base
           r == [rec EXCEPT !.rows = usable, !.full = {}, !.order = usable, !.current = NoId,
                            !.sample = [i \in Ids |-> IF i \in usable THEN "PENDING" ELSE @[i]]]
           made == Refreshed(s, r)
<1>1. /\ scan' = [s EXCEPT !.phase = IF usable # {} THEN "ENRICHMENT" ELSE "COMPLETED"]
      /\ rec' = [r EXCEPT !.required = usable # {} /\ ~made.complete]
      /\ result' = [made EXCEPT !.over = usable = {}]
  BY DEF Finalize
<1>2. ScanInv /\ RecoveryInv
  BY DEF HistoryInv
<1>3. /\ DOMAIN scan' = ScanFields /\ scan'.phase \in {"ENRICHMENT", "COMPLETED"}
      /\ scan'.size = s.size /\ scan'.ranked = s.ranked /\ scan'.based = s.based
      /\ scan'.ranking = s.ranking /\ scan'.base = s.base
  <2> HIDE DEF usable
  <2> QED BY <1>1 DEF ScanFields
<1>4. DOMAIN r = RecFields /\ r.rows = usable /\ r.full = {}
  BY <1>2 DEF RecoveryInv, RecFields
<1>5. DOMAIN rec' = RecFields /\ rec'.rows = usable /\ rec'.full = {}
  <2> HIDE DEF r, usable, made
  <2> QED BY <1>1, <1>4 DEF RecFields
<1>6. /\ DOMAIN made = ResultFields /\ made.made \in BOOLEAN /\ made.made
      /\ made.complete \in BOOLEAN
      /\ made.complete <=> Consistent(s) /\ usable \subseteq {}
  <2>1. DOMAIN result = ResultFields
    BY <1>2 DEF RecoveryInv
  <2> HIDE DEF r
  <2> QED BY <1>4, <2>1, RefreshedFields
<1>7. /\ DOMAIN result' = ResultFields /\ result'.made = made.made
      /\ result'.complete = made.complete
  <2> HIDE DEF made, usable
  <2> QED BY <1>1, <1>6 DEF ResultFields
<1>8. Consistent(scan)' <=> Consistent(s)
  BY <1>3 DEF Consistent
<1>9. Consistent(s) => s.ranking \ usable = {}
  BY DEF Consistent
<1>10. ScanInv'
  <2>1. Present' = Present
    BY DEF Present
  <2> QED BY <1>2, <1>3, <2>1 DEF ScanInv
<1>11. RecoveryInv'
  <2> HIDE DEF usable, r, made
  <2> QED BY <1>3, <1>5, <1>6, <1>7, <1>8, <1>9 DEF RecoveryInv, Consistent
<1> QED BY <1>10, <1>11 DEF HistoryInv
(* A step of the second scan or the reconciliation, before the last one. *)
LEMMA SecondScanStep ==
  ASSUME HistoryInv, Running, scan.phase \in {"COMPACT", "RECONCILE"},
         UNCHANGED <<table, stable, rec, result>>,
         DOMAIN scan' = ScanFields, scan'.phase \in {"COMPACT", "RECONCILE"},
         scan'.size \in Nat, scan'.ranked = scan.ranked, scan'.based \in BOOLEAN,
         scan'.ranking = scan.ranking
  PROVE  HistoryInv'
<1>1. ScanInv'
  BY DEF HistoryInv, ScanInv, Present
<1> QED BY <1>1, ScanStep

LEMMA BaseInv ==
  ASSUME HistoryInv, BasePage
  PROVE  HistoryInv'
<1>1. /\ Running /\ scan.phase = "COMPACT" /\ UNCHANGED <<table, stable>>
      /\ DOMAIN scan = ScanFields /\ scan.size \in Nat /\ scan.based \in BOOLEAN
  BY DEF BasePage, Phase, HistoryInv, ScanInv
<1>2. PICK limit \in 1 .. scan.size :
        LET page == Page(limit)
            s == [scan EXCEPT !.base = @ \cup page]
            last == [s EXCEPT !.based = TRUE, !.cursor = NoId, !.todo = s.ranking \ s.base]
        IN  IF ~IsLast(page, limit)
            THEN scan' = [s EXCEPT !.cursor = Min(page)] /\ UNCHANGED <<rec, result>>
            ELSE IF last.todo # {}
            THEN scan' = [last EXCEPT !.phase = "RECONCILE"] /\ UNCHANGED <<rec, result>>
            ELSE Finalize(last)
  BY DEF BasePage
<1> DEFINE page == Page(limit)
           s == [scan EXCEPT !.base = scan.base \cup page]
           last == [s EXCEPT !.based = TRUE, !.cursor = NoId, !.todo = s.ranking \ s.base]
<1>3. /\ DOMAIN s = ScanFields /\ s.phase = "COMPACT" /\ s.size = scan.size
      /\ s.ranked = scan.ranked /\ s.based = scan.based /\ s.ranking = scan.ranking
  <2> HIDE DEF page
  <2> QED BY <1>1 DEF ScanFields
<1>4. /\ DOMAIN last = ScanFields /\ last.phase = "COMPACT" /\ last.size = scan.size
      /\ last.ranked = scan.ranked /\ last.based = TRUE /\ last.ranking = scan.ranking
  <2> HIDE DEF s
  <2> QED BY <1>3 DEF ScanFields
<1>5. CASE ~IsLast(page, limit)
  <2>1. scan' = [s EXCEPT !.cursor = Min(page)] /\ UNCHANGED <<rec, result>>
    BY <1>2, <1>5
  <2>2. /\ DOMAIN scan' = ScanFields /\ scan'.phase = "COMPACT" /\ scan'.size = scan.size
        /\ scan'.ranked = scan.ranked /\ scan'.based = scan.based
        /\ scan'.ranking = scan.ranking
    <3> HIDE DEF s, page
    <3> QED BY <1>3, <2>1 DEF ScanFields
  <2> QED BY <1>1, <2>1, <2>2, SecondScanStep
<1>6. CASE IsLast(page, limit) /\ last.todo # {}
  <2>1. scan' = [last EXCEPT !.phase = "RECONCILE"] /\ UNCHANGED <<rec, result>>
    BY <1>2, <1>6
  <2>2. /\ DOMAIN scan' = ScanFields /\ scan'.phase = "RECONCILE" /\ scan'.size = scan.size
        /\ scan'.ranked = scan.ranked /\ scan'.based = TRUE
        /\ scan'.ranking = scan.ranking
    <3> HIDE DEF last
    <3> QED BY <1>4, <2>1 DEF ScanFields
  <2> QED BY <1>1, <2>1, <2>2, SecondScanStep
<1>7. CASE IsLast(page, limit) /\ last.todo = {}
  <2>1. Finalize(last)
    BY <1>2, <1>7
  <2> HIDE DEF last
  <2> QED BY <1>1, <1>4, <2>1, FinalizeInv
<1> QED BY <1>5, <1>6, <1>7

LEMMA ReconcileInv ==
  ASSUME HistoryInv, Reconcile
  PROVE  HistoryInv'
<1>1. /\ Running /\ scan.phase = "RECONCILE" /\ UNCHANGED <<table, stable>>
      /\ DOMAIN scan = ScanFields /\ scan.size \in Nat /\ scan.based \in BOOLEAN
  BY DEF Reconcile, Phase, HistoryInv, ScanInv
<1> DEFINE i == Max(scan.todo)
           s == [scan EXCEPT !.todo = scan.todo \ {i}, !.base = scan.base \cup ({i} \cap Window)]
<1>2. IF s.todo = {} THEN Finalize(s) ELSE scan' = s /\ UNCHANGED <<rec, result>>
  BY DEF Reconcile
<1>3. /\ DOMAIN s = ScanFields /\ s.phase = "RECONCILE" /\ s.size = scan.size
      /\ s.ranked = scan.ranked /\ s.based = scan.based /\ s.ranking = scan.ranking
  <2> HIDE DEF i
  <2> QED BY <1>1 DEF ScanFields
<1>4. CASE s.todo = {}
  <2>1. Finalize(s)
    BY <1>2, <1>4
  <2> HIDE DEF s
  <2> QED BY <1>1, <1>3, <2>1, FinalizeInv
<1>5. CASE s.todo # {}
  <2>1. scan' = s /\ UNCHANGED <<rec, result>>
    BY <1>2, <1>5
  <2> HIDE DEF s
  <2> QED BY <1>1, <1>3, <2>1, SecondScanStep
<1> QED BY <1>4, <1>5

LEMMA SmallerPagesAreNumbers ==
  ASSUME scan.size \in Nat, NEW n \in SmallerPages
  PROVE  n \in Nat
<1>1. Max({1, scan.size \div 2}) \in Nat
  <2> DEFINE h == scan.size \div 2
  <2>1. h \in Nat
    OBVIOUS
  <2>2. \E x \in {1, h} : \A y \in {1, h} : x >= y
    <3> HIDE DEF h
    <3> QED BY <2>1
  <2>3. Max({1, h}) \in {1, h}
    <3> HIDE DEF h
    <3> QED BY <2>2 DEF Max
  <2> QED BY <2>1, <2>3
<1> QED BY <1>1 DEF SmallerPages

LEMMA ScanIsCutOrFails ==
  ASSUME HistoryInv, PageIsCut \/ ScanFails
  PROVE  HistoryInv'
<1>1. /\ Running /\ scan.phase \in {"RANKING", "COMPACT", "RECONCILE"}
      /\ UNCHANGED <<table, rec, stable>> /\ ScanInv /\ RecoveryInv
  BY DEF PageIsCut, ScanFails, Scanning, Phase, HistoryInv
<1>2. Present' = Present
  BY <1>1 DEF Present
<1>3. CASE PageIsCut
  <2>1. PICK n \in SmallerPages : scan' = [scan EXCEPT !.size = n]
    BY <1>3 DEF PageIsCut
  <2>2. n \in Nat
    BY <1>1, SmallerPagesAreNumbers DEF ScanInv
  <2>3. /\ DOMAIN scan' = ScanFields /\ scan'.size = n /\ scan'.phase = scan.phase
        /\ scan'.cursor = scan.cursor /\ scan'.snapshot = scan.snapshot
        /\ scan'.ranked = scan.ranked /\ scan'.based = scan.based
        /\ scan'.ranking = scan.ranking
    BY <1>1, <2>1 DEF ScanInv, ScanFields
  <2>4. ScanInv'
    BY <1>1, <1>2, <2>2, <2>3 DEF ScanInv
  <2> QED BY <1>1, <1>3, <2>3, <2>4, ScanStep DEF PageIsCut
<1>4. CASE ScanFails
  <2>1. /\ scan' = [scan EXCEPT !.phase = "COMPLETED"]
        /\ result' = [result EXCEPT !.window = "FAILED_TERMINAL", !.over = TRUE]
    BY <1>4 DEF ScanFails
  <2>2. /\ DOMAIN scan' = ScanFields /\ scan'.size = scan.size /\ scan'.phase = "COMPLETED"
        /\ scan'.ranked = scan.ranked /\ scan'.based = scan.based
        /\ scan'.ranking = scan.ranking
    BY <1>1, <2>1 DEF ScanInv, ScanFields
  <2>3. /\ DOMAIN result' = ResultFields /\ result'.made = result.made
        /\ result'.complete = result.complete
    BY <1>1, <2>1 DEF RecoveryInv, ResultFields
  <2>4. ~result.made /\ ~result.complete
    BY <1>1 DEF RecoveryInv, Running
  <2>5. ScanInv'
    BY <1>1, <1>2, <2>2 DEF ScanInv
  <2>6. RecoveryInv'
    BY <1>1, <2>2, <2>3, <2>4 DEF RecoveryInv
  <2> QED BY <2>5, <2>6 DEF HistoryInv
<1> QED BY <1>3, <1>4

-----------------------------------------------------------------------------
(* The samples.                                                            *)

(* What the recovery of a sample makes of its record: samples are added, and a
   row that goes is refused.                                               *)
Follows(r) ==
  /\ DOMAIN r = RecFields
  /\ rec.full \subseteq r.full /\ r.rows \subseteq rec.rows
  /\ rec.refused \subseteq r.refused /\ rec.rows \subseteq r.rows \cup r.refused

LEMMA RecoveryFollows ==
  ASSUME NEW r, Follows(r), NEW i
  PROVE  /\ Follows(Halved(r)) /\ Follows(Failed(r, i)) /\ Follows(Refuse(r, i))
         /\ \A explainable : Follows(Accepted(r, i, explainable))
         /\ \A x : Follows([r EXCEPT !.required = x])
         /\ \A x : Follows([r EXCEPT !.got = x]) /\ Follows([r EXCEPT !.current = x])
<1> USE DEF Follows, RecFields
<1>1. Follows(Halved(r))
  BY DEF Halved
<1>2. Follows(Failed(r, i))
  BY DEF Failed
<1>3. Follows(Refuse(r, i))
  BY DEF Refuse
<1>4. \A explainable : Follows(Accepted(r, i, explainable))
  BY DEF Accepted
<1>5. \A x : Follows([r EXCEPT !.required = x])
  OBVIOUS
<1>6. \A x : Follows([r EXCEPT !.got = x]) /\ Follows([r EXCEPT !.current = x])
  OBVIOUS
<1> QED BY <1>1, <1>2, <1>3, <1>4, <1>5, <1>6

LEMMA RecItself ==
  ASSUME RecoveryInv, NEW i
  PROVE  Follows(rec) /\ Follows(InChunks(i))
<1>1. Follows(rec)
  BY DEF RecoveryInv, Follows
<1>2. Follows(InChunks(i))
  BY <1>1 DEF InChunks, Follows, RecFields
<1> QED BY <1>1, <1>2

(* Such a step keeps what holds of the result, however it was made. *)
LEMMA EnrichmentStep ==
  ASSUME HistoryInv, scan.phase = "ENRICHMENT", UNCHANGED <<table, stable>>,
         scan' = scan \/ scan' = [scan EXCEPT !.phase = "COMPLETED"],
         Follows(rec'), DOMAIN result' = ResultFields,
         result'.made \in BOOLEAN, result'.made, result'.complete \in BOOLEAN,
         result'.complete => result.complete \/ (Consistent(scan) /\ rec'.rows \subseteq rec'.full)
  PROVE  HistoryInv'
<1>1. ScanInv /\ RecoveryInv /\ Present' = Present
  BY DEF HistoryInv, Present
<1>2. /\ DOMAIN scan' = ScanFields /\ scan'.phase \in {"ENRICHMENT", "COMPLETED"}
      /\ scan'.size = scan.size /\ scan'.ranked = scan.ranked /\ scan'.based = scan.based
      /\ scan'.ranking = scan.ranking /\ scan'.base = scan.base
  BY <1>1 DEF ScanInv, ScanFields
<1>3. Consistent(scan)' <=> Consistent(scan)
  BY <1>2 DEF Consistent
<1>4. ScanInv'
  BY <1>1, <1>2 DEF ScanInv
<1>5. RecoveryInv'
  BY <1>1, <1>2, <1>3 DEF RecoveryInv, Follows
<1> QED BY <1>4, <1>5 DEF HistoryInv

LEMMA ResultKept ==
  ASSUME HistoryInv, scan.phase = "ENRICHMENT", UNCHANGED <<table, scan, stable, result>>,
         Follows(rec')
  PROVE  HistoryInv'
<1>1. /\ DOMAIN result = ResultFields /\ result.made \in BOOLEAN /\ result.made
      /\ result.complete \in BOOLEAN
  BY DEF HistoryInv, RecoveryInv
<1> QED BY <1>1, EnrichmentStep

(* The result is made anew, perhaps just before a row is refused. *)
LEMMA ResultRefreshed ==
  ASSUME HistoryInv, scan.phase = "ENRICHMENT", UNCHANGED <<table, scan, stable>>,
         NEW r, Follows(r), Follows(rec'),
         rec'.full = r.full, rec'.rows \subseteq r.rows,
         DOMAIN result' = ResultFields,
         result'.made = Refreshed(scan, r).made, result'.complete = Refreshed(scan, r).complete
  PROVE  HistoryInv'
<1>1. DOMAIN result = ResultFields
  BY DEF HistoryInv, RecoveryInv
<1>2. /\ Refreshed(scan, r).made \in BOOLEAN /\ Refreshed(scan, r).made
      /\ Refreshed(scan, r).complete \in BOOLEAN
      /\ Refreshed(scan, r).complete <=> Consistent(scan) /\ r.rows \subseteq r.full
  BY <1>1, RefreshedFields
<1>3. result'.complete => Consistent(scan) /\ rec'.rows \subseteq rec'.full
  BY <1>2
<1>4. result'.made \in BOOLEAN /\ result'.made /\ result'.complete \in BOOLEAN
  BY <1>2
<1> QED BY <1>3, <1>4, EnrichmentStep

LEMMA RecoverInv ==
  ASSUME HistoryInv, scan.phase = "ENRICHMENT", UNCHANGED <<table, scan, stable>>,
         NEW r, Follows(r), Recover(scan, r)
  PROVE  HistoryInv'
<1>1. \E x : rec' = [r EXCEPT !.required = x] /\ result' = Refreshed(scan, r)
  BY DEF Recover
<1>2. Follows(rec')
  BY <1>1, RecoveryFollows
<1>3. rec'.full = r.full /\ rec'.rows = r.rows
  BY <1>1 DEF Follows, RecFields
<1>4. DOMAIN result' = ResultFields
  BY <1>1, RefreshedFields DEF HistoryInv, RecoveryInv
<1> QED BY <1>1, <1>2, <1>3, <1>4, ResultRefreshed

LEMMA AcceptInv ==
  ASSUME HistoryInv, scan.phase = "ENRICHMENT", UNCHANGED <<table, scan, stable>>,
         NEW r, Follows(r), NEW i, Accept(r, i)
  PROVE  HistoryInv'
<1>1. CASE i \in r.rows
  <2>1. PICK explainable \in BOOLEAN : Recover(scan, Accepted(r, i, explainable))
    BY <1>1 DEF Accept
  <2> QED BY <2>1, RecoveryFollows, RecoverInv
<1>2. CASE i \notin r.rows /\ r.chunk > MinChunk
  <2>1. rec' = Halved(r) /\ result' = [result EXCEPT !.over = TRUE]
    BY <1>2 DEF Accept, RowIsGone
  <2>2. Follows(rec')
    BY <2>1, RecoveryFollows
  <2>3. /\ DOMAIN result = ResultFields /\ result.made \in BOOLEAN /\ result.made
        /\ result.complete \in BOOLEAN
    BY DEF HistoryInv, RecoveryInv
  <2>4. /\ DOMAIN result' = ResultFields /\ result'.made = result.made
        /\ result'.complete = result.complete
    BY <2>1, <2>3 DEF ResultFields
  <2> QED BY <2>2, <2>3, <2>4, EnrichmentStep
<1>3. CASE i \notin r.rows /\ ~(r.chunk > MinChunk)
  <2> DEFINE made == Refreshed(scan, Failed(r, i))
  <2>1. \E x : rec' = [Failed(r, i) EXCEPT !.required = x]
    BY <1>3 DEF Accept, RowIsGone
  <2>2. result' = [made EXCEPT !.over = TRUE]
    BY <1>3 DEF Accept, RowIsGone
  <2>3. Follows(Failed(r, i))
    BY RecoveryFollows
  <2>4. Follows(rec')
    BY <2>1, <2>3, RecoveryFollows
  <2>5. rec'.full = Failed(r, i).full /\ rec'.rows = Failed(r, i).rows
    BY <2>1, <2>3 DEF Follows, RecFields
  <2>6. DOMAIN made = ResultFields
    BY RefreshedFields DEF HistoryInv, RecoveryInv
  <2>7. /\ DOMAIN result' = ResultFields /\ result'.made = made.made
        /\ result'.complete = made.complete
    <3> HIDE DEF made
    <3> QED BY <2>2, <2>6 DEF ResultFields
  <2> QED BY <2>3, <2>4, <2>5, <2>7, ResultRefreshed
<1> QED BY <1>1, <1>2, <1>3

LEMMA MarkedFields ==
  ASSUME NEW made, DOMAIN made = ResultFields, NEW r
  PROVE  /\ DOMAIN Marked(made, r) = ResultFields
         /\ Marked(made, r).made = made.made /\ Marked(made, r).complete = made.complete
  BY DEF Marked, ResultFields

LEMMA SampleInv ==
  ASSUME HistoryInv, NEW i \in Ids,
         FetchSample(i) \/ SampleCallFails(i) \/ FetchChunk(i) \/ ChunkIsCut(i)
         \/ ChunkCallFails(i)
  PROVE  HistoryInv'
<1>1. scan.phase = "ENRICHMENT" /\ UNCHANGED <<table, scan, stable>>
  BY DEF FetchSample, SampleCallFails, FetchChunk, ChunkIsCut, ChunkCallFails, Phase
<1>2. Follows(rec) /\ Follows(InChunks(i))
  BY RecItself DEF HistoryInv
<1>3. /\ DOMAIN result = ResultFields /\ result.made \in BOOLEAN /\ result.made
      /\ result.complete \in BOOLEAN
  BY <1>1 DEF HistoryInv, RecoveryInv
<1>4. CASE FetchSample(i)
  <2>1. CASE i \in Present /\ Accept([rec EXCEPT !.current = i], i)
    <3>1. Follows([rec EXCEPT !.current = i])
      BY <1>2, RecoveryFollows
    <3> QED BY <1>1, <2>1, <3>1, AcceptInv
  <2>2. CASE rec' = InChunks(i) /\ UNCHANGED result
    BY <1>1, <1>2, <2>2, ResultKept
  <2> QED BY <1>4, <2>1, <2>2 DEF FetchSample
<1>5. CASE SampleCallFails(i)
  <2>1. /\ rec' = Refuse(InChunks(i), i)
        /\ result' = Marked(result, Refuse(InChunks(i), i))
    BY <1>5 DEF SampleCallFails
  <2>2. Follows(rec')
    BY <1>2, <2>1, RecoveryFollows
  <2>3. /\ DOMAIN result' = ResultFields /\ result'.made = result.made
        /\ result'.complete = result.complete
    BY <1>3, <2>1, MarkedFields
  <2> QED BY <1>1, <1>3, <2>2, <2>3, EnrichmentStep
<1>6. CASE FetchChunk(i)
  <2> DEFINE got == Min({length[i], InChunks(i).got + InChunks(i).chunk})
  <2>1. \/ Recover(scan, Failed(InChunks(i), i))
        \/ Accept([InChunks(i) EXCEPT !.got = got], i)
        \/ rec' = [InChunks(i) EXCEPT !.got = got] /\ UNCHANGED result
    BY <1>6 DEF FetchChunk
  <2>2. Follows(Failed(InChunks(i), i)) /\ Follows([InChunks(i) EXCEPT !.got = got])
    BY <1>2, RecoveryFollows
  <2>3. CASE Recover(scan, Failed(InChunks(i), i))
    BY <1>1, <2>2, <2>3, RecoverInv
  <2>4. CASE Accept([InChunks(i) EXCEPT !.got = got], i)
    BY <1>1, <2>2, <2>4, AcceptInv
  <2>5. CASE rec' = [InChunks(i) EXCEPT !.got = got] /\ UNCHANGED result
    BY <1>1, <2>2, <2>5, ResultKept
  <2> QED BY <2>1, <2>3, <2>4, <2>5
<1>7. CASE ChunkIsCut(i)
  <2>1. \/ rec' = Halved(InChunks(i)) /\ UNCHANGED result
        \/ Recover(scan, Failed(InChunks(i), i))
    BY <1>7 DEF ChunkIsCut
  <2>2. Follows(Halved(InChunks(i))) /\ Follows(Failed(InChunks(i), i))
    BY <1>2, RecoveryFollows
  <2>3. CASE rec' = Halved(InChunks(i)) /\ UNCHANGED result
    BY <1>1, <2>2, <2>3, ResultKept
  <2>4. CASE Recover(scan, Failed(InChunks(i), i))
    BY <1>1, <2>2, <2>4, RecoverInv
  <2> QED BY <2>1, <2>3, <2>4
<1>8. CASE ChunkCallFails(i)
  <2> DEFINE r == InChunks(i)
             smaller == r.chunk > MinChunk
             base == IF smaller THEN Halved(r) ELSE Failed(r, i)
             made == IF smaller THEN result ELSE Refreshed(scan, Failed(r, i))
             required == IF smaller THEN r.required ELSE r.rows # {} /\ ~made.complete
             kept == [base EXCEPT !.required = required]
  <2>1. /\ rec' = Refuse(kept, i)
        /\ result' = IF Refuse(kept, i) = kept THEN made ELSE Marked(made, Refuse(kept, i))
    BY <1>8 DEF ChunkCallFails
  <2>2. Follows(Halved(r)) /\ Follows(Failed(r, i)) /\ Follows(base)
    <3> HIDE DEF r
    <3> QED BY <1>2, RecoveryFollows DEF r
  <2>3. Follows(kept) /\ Follows(Refuse(kept, i))
    <3>1. Follows(kept)
      <4> HIDE DEF base, required
      <4> QED BY <2>2, RecoveryFollows
    <3> HIDE DEF kept
    <3> QED BY <3>1, RecoveryFollows
  <2>4. DOMAIN made = ResultFields
    BY <1>3, RefreshedFields
  <2>5. /\ DOMAIN result' = ResultFields /\ result'.made = made.made
        /\ result'.complete = made.complete
    <3> HIDE DEF made, kept
    <3> QED BY <2>1, <2>4, MarkedFields
  <2>6. rec'.full = base.full /\ rec'.rows \subseteq base.rows
    <3>1. kept.full = base.full /\ kept.rows = base.rows
      <4> HIDE DEF base, required
      <4> QED BY <2>2 DEF Follows, RecFields
    <3>2. Refuse(kept, i).full = kept.full /\ Refuse(kept, i).rows \subseteq kept.rows
      <4> HIDE DEF kept
      <4> QED BY <2>3 DEF Refuse, Follows, RecFields
    <3> QED BY <2>1, <3>1, <3>2
  <2>7. CASE smaller
    <3>1. result'.made = result.made /\ result'.complete = result.complete
      BY <2>5, <2>7
    <3> QED BY <1>1, <1>3, <2>1, <2>3, <2>5, <3>1, EnrichmentStep
  <2>8. CASE ~smaller
    <3>1. /\ result'.made = Refreshed(scan, Failed(r, i)).made
          /\ result'.complete = Refreshed(scan, Failed(r, i)).complete
      BY <2>5, <2>8
    <3>2. rec'.full = Failed(r, i).full /\ rec'.rows \subseteq Failed(r, i).rows
      BY <2>6, <2>8
    <3> HIDE DEF r, kept
    <3> QED BY <1>1, <2>1, <2>2, <2>3, <2>5, <3>1, <3>2, ResultRefreshed
  <2> QED BY <2>7, <2>8
<1> QED BY <1>4, <1>5, <1>6, <1>7, <1>8
-----------------------------------------------------------------------------
(* The investigation around the recovery, and the table below it.          *)

LEMMA HistoryKept ==
  ASSUME HistoryInv, UNCHANGED <<table, scan, rec, stable>>,
         DOMAIN result' = ResultFields,
         result'.made = result.made, result'.complete = result.complete,
         result.over => result'.over
  PROVE  HistoryInv'
<1>1. Consistent(scan)' <=> Consistent(scan)
  BY DEF Consistent
<1>2. ScanInv'
  BY DEF HistoryInv, ScanInv, Present
<1>3. RecoveryInv'
  BY <1>1 DEF HistoryInv, RecoveryInv
<1> QED BY <1>2, <1>3 DEF HistoryInv

LEMMA TableInv ==
  ASSUME HistoryInv, TableStep
  PROVE  HistoryInv'
<1>1. PICK i \in Ids : Commit(i) \/ Purge(i)
  BY DEF TableStep
<1>2. UNCHANGED <<scan, rec, result>> /\ ScanInv
  BY <1>1 DEF Commit, Purge, HistoryInv
<1>3. /\ table' \in [Ids -> {"unborn", "present", "gone"}]
      /\ stable' \subseteq Present' /\ stable' \subseteq stable
  <2>1. CASE Commit(i)
    BY <1>2, <2>1 DEF Commit, ScanInv, Present
  <2>2. CASE Purge(i)
    BY <1>2, <2>2 DEF Purge, ScanInv, Present
  <2> QED BY <1>1, <2>1, <2>2
<1>4. ScanInv'
  BY <1>2, <1>3 DEF ScanInv
<1>5. Consistent(scan)' <=> Consistent(scan)
  BY <1>2 DEF Consistent
<1>6. RecoveryInv'
  BY <1>2, <1>5 DEF HistoryInv, RecoveryInv
<1> QED BY <1>4, <1>6 DEF HistoryInv

LEMMA HistoryStepInv ==
  ASSUME HistoryInv, HistoryStep
  PROVE  HistoryInv'
  BY PipelineStarts, RankingInv, BaseInv, ReconcileInv, ScanIsCutOrFails, SampleInv
     DEF HistoryStep

(* A supplemental call leaves the recovered rows alone. *)
LEMMA SupplementalInv ==
  ASSUME HistoryInv, NEW i \in Ids,
         AskInstances(i) \/ AskDatabases(i) \/ AskTable(i) \/ Explain(i) \/ SettleRow(i)
  PROVE  HistoryInv'
<1>1. scan.phase = "ENRICHMENT" /\ UNCHANGED <<table, scan, stable>>
  BY DEF AskInstances, AskDatabases, AskTable, Explain, SettleRow, Kept, SupplementalStep,
         SupplementalTime, Phase
<1>2. Follows(rec) /\ DOMAIN result = ResultFields
  BY RecItself DEF HistoryInv, RecoveryInv
<1>3. CASE Kept
  <2>1. result' = Refreshed(scan, rec) /\ rec' = [rec EXCEPT !.required = FALSE]
    BY <1>3 DEF Kept
  <2>2. Follows(rec') /\ rec'.full = rec.full /\ rec'.rows = rec.rows
    BY <1>2, <2>1 DEF Follows, RecFields
  <2>3. DOMAIN result' = ResultFields
    BY <1>2, <2>1, RefreshedFields
  <2> QED BY <1>1, <1>2, <2>1, <2>2, <2>3, ResultRefreshed
<1>4. CASE SettleRow(i)
  <2> DEFINE r == [rec EXCEPT !.sample[i] = "ANALYZED", !.current = NoId]
  <2>1. Recover(scan, r)
    BY <1>4 DEF SettleRow
  <2>2. Follows(r)
    BY <1>2 DEF Follows, RecFields
  <2> HIDE DEF r
  <2> QED BY <1>1, <2>1, <2>2, RecoverInv
<1> QED BY <1>3, <1>4 DEF AskInstances, AskDatabases, AskTable, Explain

LEMMA HostFinishesInv ==
  ASSUME HistoryInv, HostFinishes
  PROVE  HistoryInv'
<1> DEFINE made == Refreshed(scan, rec)
           required == ~made.complete /\ rec.rows # {}
           r == [rec EXCEPT !.required = required]
<1>1. /\ scan.phase = "ENRICHMENT" /\ UNCHANGED <<table, stable>>
      /\ rec' = r /\ scan' = [scan EXCEPT !.phase = "COMPLETED"]
      /\ result' = [made EXCEPT !.over = required => AllTerminal(r)]
  BY DEF HostFinishes, Phase
<1>2. Follows(rec) /\ DOMAIN result = ResultFields
  BY RecItself DEF HistoryInv, RecoveryInv
<1>3. Follows(rec') /\ rec'.full = rec.full /\ rec'.rows = rec.rows
  <2> HIDE DEF required
  <2> QED BY <1>1, <1>2 DEF Follows, RecFields
<1>4. /\ DOMAIN made = ResultFields /\ made.made \in BOOLEAN /\ made.made
      /\ made.complete \in BOOLEAN
      /\ made.complete <=> Consistent(scan) /\ rec.rows \subseteq rec.full
  BY <1>2, RefreshedFields
<1>5. /\ DOMAIN result' = ResultFields /\ result'.made = made.made
      /\ result'.complete = made.complete
  <2> HIDE DEF made, r, required
  <2> QED BY <1>1, <1>4 DEF ResultFields
<1> HIDE DEF made
<1> QED BY <1>1, <1>3, <1>4, <1>5, EnrichmentStep

LEMMA EndInv ==
  ASSUME HistoryInv, End
  PROVE  HistoryInv'
<1>1. UNCHANGED <<table, stable>> /\ ScanInv /\ RecoveryInv
  BY DEF End, HistoryInv
<1>2. CASE MakeUp
  <2>1. /\ rec' = [rec EXCEPT !.rows = Available, !.required = TRUE] /\ scan' = scan
        /\ result' = [result EXCEPT !.made = TRUE, !.window = "FAILED_TERMINAL"]
    BY <1>2 DEF End
  <2>2. ~result.made
    BY <1>2 DEF MakeUp
  <2>3. ~result.complete /\ scan.phase # "ENRICHMENT"
    BY <1>1, <2>2 DEF RecoveryInv
  <2>4. result.over
    BY DEF End
  <2>5. DOMAIN rec' = RecFields
    BY <1>1, <2>1 DEF RecoveryInv, RecFields
  <2>6. /\ DOMAIN result' = ResultFields /\ result'.made = TRUE
        /\ result'.complete = result.complete /\ result'.over = result.over
    BY <1>1, <2>1 DEF RecoveryInv, ResultFields
  <2>7. ScanInv'
    BY <1>1, <2>1 DEF ScanInv, Present
  <2>8. RecoveryInv'
    BY <1>1, <2>1, <2>3, <2>4, <2>5, <2>6 DEF RecoveryInv
  <2> QED BY <2>7, <2>8 DEF HistoryInv
<1>3. CASE ~MakeUp /\ result.made /\ scan.phase = "ENRICHMENT"
  <2> DEFINE ready == {i \in rec.order : rec.sample[i] = "READY"}
             sample == [i \in Ids |-> CASE i \in Lost -> "FAILED"
                                        [] i \in ready -> "ANALYZED"
                                        [] OTHER -> rec.sample[i]]
  <2>1. /\ rec' = [rec EXCEPT !.current = NoId, !.got = 0, !.sample = sample]
        /\ result' = IF Lost = {} THEN result
                     ELSE [result EXCEPT !.complete = FALSE, !.window = "FAILED_TERMINAL"]
        /\ scan' = [scan EXCEPT !.phase = "COMPLETED"]
    BY <1>3 DEF End
  <2>2. Follows(rec')
    <3> HIDE DEF sample
    <3> QED BY <1>1, <2>1 DEF RecoveryInv, Follows, RecFields
  <2>3. /\ DOMAIN result' = ResultFields /\ result'.made = result.made
        /\ result'.complete \in BOOLEAN /\ (result'.complete => result.complete)
    BY <1>1, <2>1 DEF RecoveryInv, ResultFields
  <2>4. result'.made \in BOOLEAN /\ result'.made
    BY <1>1, <1>3, <2>3 DEF RecoveryInv
  <2> QED BY <1>1, <1>3, <2>1, <2>2, <2>3, <2>4, EnrichmentStep
<1>4. CASE ~MakeUp /\ ~(result.made /\ scan.phase = "ENRICHMENT")
  <2>1. UNCHANGED <<scan, rec, result>>
    BY <1>4 DEF End
  <2>2. DOMAIN result' = ResultFields
    BY <1>1, <2>1 DEF RecoveryInv
  <2> QED BY <1>1, <2>1, <2>2, HistoryKept
<1> QED BY <1>2, <1>3, <1>4

LEMMA ArcheryNextInv ==
  ASSUME HistoryInv, [Next]_vars
  PROVE  HistoryInv'
<1>1. CASE HistoryStep
  BY <1>1, HistoryStepInv
<1>2. CASE HostFinishes
  BY <1>2, HostFinishesInv
<1>3. ASSUME NEW i \in Ids,
             AskInstances(i) \/ AskDatabases(i) \/ AskTable(i) \/ Explain(i) \/ SettleRow(i)
      PROVE  HistoryInv'
  BY <1>3, SupplementalInv
<1>4. CASE Cut
  <2>1. result' = [result EXCEPT !.over = TRUE] /\ UNCHANGED <<table, scan, rec, stable>>
    BY <1>4 DEF Cut
  <2>2. /\ DOMAIN result' = ResultFields /\ result'.made = result.made
        /\ result'.complete = result.complete /\ result'.over = TRUE
    BY <2>1 DEF HistoryInv, RecoveryInv, ResultFields
  <2> QED BY <2>1, <2>2, HistoryKept
<1>5. CASE End
  BY <1>5, EndInv
<1>6. CASE TableStep
  BY <1>6, TableInv
<1>7. CASE UNCHANGED vars
  <2>1. UNCHANGED <<table, scan, rec, result, stable>>
    BY <1>7 DEF vars
  <2>2. DOMAIN result' = ResultFields
    BY <2>1 DEF HistoryInv, RecoveryInv
  <2> QED BY <2>1, <2>2, HistoryKept
<1> QED BY <1>1, <1>2, <1>3, <1>4, <1>5, <1>6, <1>7 DEF Next, Pipeline, Recovery

(* A History that is called complete has every row that was in the table all
   along; each of its rows was recovered, and a row that both scans listed
   and it lacks was refused by the older recovery (on_failure).            *)
THEOREM SpecCompleteIsExplained == Spec => []CompleteIsExplained
<1>1. Init => HistoryInv
  BY HistoryInitInv DEF Init
<1>2. HistoryInv /\ [Next]_vars => HistoryInv'
  BY ArcheryNextInv
<1>3. HistoryInv => CompleteIsExplained
  BY DEF HistoryInv, ScanInv, RecoveryInv, CompleteIsExplained, Consistent
<1> QED BY <1>1, <1>2, <1>3, PTL DEF Spec
=============================================================================
