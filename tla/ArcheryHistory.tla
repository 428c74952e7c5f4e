--------------------------- MODULE ArcheryHistory ---------------------------
(***************************************************************************)
(* The deterministic History pipeline of the Archery harness: the Host     *)
(* lists the rows of the alert window twice (ranking and base projection)  *)
(* by keyset pages below a snapshot id, reconciles the two lists, and then *)
(* recovers the sample of every row, directly or in chunks.  One action is *)
(* one call with its answer, as the harness makes one call at a time.      *)
(*                                                                         *)
(* The table belongs to a live database: rows are committed and purged     *)
(* while the scan runs.  Answers may be cut by the size limit of the tool, *)
(* the server may lower a LIMIT (it echoes the statement it ran), and any  *)
(* call may fail.  A sample is its length: the recovery compares lengths.  *)
(***************************************************************************)
EXTENDS Naturals, FiniteSets, FiniteSetsExt

CONSTANTS
  MaxId,         \* bound: row ids
  Lengths,       \* lengths of samples
  PageSize,      \* ARCHERY_HISTORY_PAGE_SIZE
  DirectLimit,   \* ARCHERY_SAMPLE_FULL_LENGTH_LIMIT
  ChunkSize,     \* history_sample_chunk_size()
  MinChunk       \* ARCHERY_SAMPLE_CHUNK_MIN_CHARS

ASSUME HistoryAssumption ==
  /\ MaxId \in Nat /\ PageSize \in Nat \ {0} /\ DirectLimit \in Nat
  /\ ChunkSize \in Nat /\ MinChunk \in 1..ChunkSize /\ Lengths \subseteq Nat \ {0}

VARIABLES
  table,    \* status of the rows in the database, by id
  length,   \* length of the sample of each row
  scan,     \* history_pipeline_phase, cursor, snapshot, page size, the two lists
  rec,      \* recovery: history_id_rows, history_full_row_ids, sample states
  result,   \* final_result, history_window_state; whether the loop is over
  stable    \* history: rows that have been there since the scan began

Ids == 1..MaxId
NoId == 0
SamplePending == {"PENDING", "DIRECT_PENDING", "CHUNK_PENDING"}
Present == {i \in Ids : table[i] = "present"}

HistoryInit ==
  /\ table \in [Ids -> {"unborn", "present"}]
  /\ length \in [Ids -> Lengths]
  /\ scan = [phase |-> "IDLE", cursor |-> NoId, snapshot |-> NoId, size |-> PageSize,
             ranking |-> {}, base |-> {}, ranked |-> FALSE, based |-> FALSE, todo |-> {}]
  /\ rec = [rows |-> {}, full |-> {}, refused |-> {}, order |-> {}, required |-> FALSE,
            sample |-> [i \in Ids |-> "NONE"], current |-> NoId, got |-> 0, chunk |-> 0]
  /\ result = [made |-> FALSE, complete |-> FALSE, window |-> "PENDING", over |-> FALSE]
  /\ stable = {}

Running == ~result.over
Phase(p) == Running /\ scan.phase = p

-----------------------------------------------------------------------------
(* What is derived from the lists.                                         *)

Consistent(s) == s.ranked /\ s.based /\ s.ranking = s.base
Listed == scan.ranking \cap scan.base
IdPending(r, i) == i \notin r.refused \cup r.full
\* _history_recovery_all_terminal after both scans.
AllTerminal(r) == \A i \in Listed : ~IdPending(r, i)

\* _refresh_history_pipeline_result: the result is made anew from the rows.
Refreshed(s, r) ==
  LET complete == Consistent(s) /\ r.rows \subseteq r.full
      failed == \E i \in Ids : r.sample[i] \in {"FAILED", "BUDGET_EXHAUSTED"}
  IN  [result EXCEPT
         !.made = TRUE,
         !.complete = complete,
         !.window = CASE complete -> IF r.rows # {} THEN "SUCCEEDED" ELSE "NO_DATA"
                      [] ~complete /\ (failed \/ ~Consistent(s)) -> "FAILED_TERMINAL"
                      [] OTHER -> @]

\* The refresh also decides whether rows are still to be recovered.
Recover(s, r) ==
  LET made == Refreshed(s, r)
  IN  /\ rec' = [r EXCEPT !.required = r.rows # {} /\ ~made.complete]
      /\ result' = made

-----------------------------------------------------------------------------
(* The scans.                                                              *)

\* _start_history_pipeline_if_ready, once the planner has discovered one
\* target with the columns of the table.
StartPipeline ==
  /\ Phase("IDLE")
  /\ scan' = [scan EXCEPT !.phase = "RANKING"]
  /\ stable' = Present
  /\ UNCHANGED <<table, length, rec, result>>

Window == {i \in Present : scan.snapshot # NoId => i <= scan.snapshot}
Below == {i \in Window : scan.cursor # NoId => i < scan.cursor}
\* ORDER BY id DESC LIMIT n
Page(n) == {i \in Below : Cardinality({j \in Below : j > i}) < n}

(* Mutant: the page is compared with the LIMIT that was asked for. *)
IsLastAsRequested(page, limit) == Cardinality(page) < scan.size

\* A page that is as long as the LIMIT the server reports is not the last one.
IsLast(page, limit) == Cardinality(page) < limit

\* _finalize_history_pipeline_scan.
Finalize(s) ==
  LET usable == s.ranking \cap s.base
      r == [rec EXCEPT !.rows = usable, !.full = {}, !.order = usable, !.current = NoId,
                       !.sample = [i \in Ids |-> IF i \in usable THEN "PENDING" ELSE @[i]]]
      made == Refreshed(s, r)
  IN  /\ scan' = [s EXCEPT !.phase = IF usable # {} THEN "ENRICHMENT" ELSE "COMPLETED"]
      /\ rec' = [r EXCEPT !.required = usable # {} /\ ~made.complete]
      /\ result' = [made EXCEPT !.over = usable = {}]

RankingPage ==
  /\ Phase("RANKING")
  /\ \E limit \in 1..scan.size :
       LET page == Page(limit)
           s == [scan EXCEPT
                   !.ranking = @ \cup page,
                   !.snapshot = IF @ = NoId /\ page # {} THEN Max(page) ELSE @]
       IN  scan' = IF IsLast(page, limit)
                   THEN [s EXCEPT !.phase = "COMPACT", !.ranked = TRUE,
                                  !.cursor = NoId, !.size = PageSize]
                   ELSE [s EXCEPT !.cursor = Min(page)]
  /\ UNCHANGED <<table, length, rec, result, stable>>

BasePage ==
  /\ Phase("COMPACT")
  /\ \E limit \in 1..scan.size :
       LET page == Page(limit)
           s == [scan EXCEPT !.base = @ \cup page]
           last == [s EXCEPT !.based = TRUE, !.cursor = NoId, !.todo = s.ranking \ s.base]
       IN  IF ~IsLast(page, limit)
           THEN scan' = [s EXCEPT !.cursor = Min(page)] /\ UNCHANGED <<rec, result>>
           ELSE IF last.todo # {}
           THEN scan' = [last EXCEPT !.phase = "RECONCILE"] /\ UNCHANGED <<rec, result>>
           ELSE Finalize(last)
  /\ UNCHANGED <<table, length, stable>>

\* The ranked rows that the second scan missed are asked for one by one.
Reconcile ==
  /\ Phase("RECONCILE")
  /\ LET i == Max(scan.todo)
         s == [scan EXCEPT !.todo = @ \ {i}, !.base = @ \cup ({i} \cap Window)]
     IN  IF s.todo = {} THEN Finalize(s) ELSE scan' = s /\ UNCHANGED <<rec, result>>
  /\ UNCHANGED <<table, length, stable>>

Scanning == \E p \in {"RANKING", "COMPACT", "RECONCILE"} : Phase(p)

\* _next_history_page_size: one less than the rows that came through, or half
\* of the page if the answer does not tell.
SmallerPages ==
  {IF k > 1 THEN k - 1 ELSE 1 : k \in 0..(scan.size - 1)} \cup {Max({1, scan.size \div 2})}

\* An answer that was cut is not used; smaller pages are asked for.
PageIsCut ==
  /\ Scanning /\ scan.size > 1
  /\ \E n \in SmallerPages : scan' = [scan EXCEPT !.size = n]
  /\ UNCHANGED <<table, length, rec, result, stable>>

\* A page fails, is cut at size 1, or is not what was asked for
\* (_pipeline_failure_transition, on_failure): the pipeline gives up.
ScanFails ==
  /\ Scanning
  /\ scan' = [scan EXCEPT !.phase = "COMPLETED"]
  /\ result' = [result EXCEPT !.window = "FAILED_TERMINAL", !.over = TRUE]
  /\ UNCHANGED <<table, length, rec, stable>>

-----------------------------------------------------------------------------
(* The samples.                                                            *)

PendingSample(i) == rec.sample[i] \in SamplePending
\* _next_history_recovery_id: the current row first, then the processing
\* order, which only depends on query times and is arbitrary here.
ToRecover ==
  IF rec.current # NoId /\ PendingSample(rec.current)
  THEN {rec.current} ELSE {i \in rec.order : PendingSample(i)}

Direct(i) == rec.sample[i] # "CHUNK_PENDING" /\ length[i] <= DirectLimit

\* _start_history_chunk_recovery, unless it was started before.
InChunks(i) ==
  IF rec.sample[i] = "CHUNK_PENDING" THEN rec
  ELSE [rec EXCEPT !.sample[i] = "CHUNK_PENDING", !.current = i, !.got = 0, !.chunk = ChunkSize]

\* _accept_reconstructed_sample.  A statement that EXPLAIN cannot take is done.
Accepted(r, i, explainable) ==
  [r EXCEPT !.full = @ \cup {i}, !.current = NoId, !.got = 0, !.chunk = 0,
            !.sample[i] = IF explainable THEN "READY" ELSE "ANALYZED"]

Halved(r) == [r EXCEPT !.chunk = Max({MinChunk, @ \div 2})]

Failed(r, i) == [r EXCEPT !.sample[i] = "FAILED", !.current = NoId]

\* The part of on_failure written for the older recovery: a row whose query
\* failed is dropped from the rows and is terminal from then on.
Refuse(r, i) ==
  IF r.required /\ i \in Listed /\ IdPending(r, i)
  THEN [r EXCEPT !.rows = @ \ {i}, !.refused = @ \cup {i}]
  ELSE r
\* _mark_history_window_from_recovery, when that was the last one.
Marked(made, r) ==
  IF r.refused # {} /\ AllTerminal(r) /\ made.window \notin {"SUCCEEDED", "NO_DATA"}
  THEN [made EXCEPT !.window = "FAILED_TERMINAL"] ELSE made

\* HostResultProcessingError: the accepted sample has no row any more.  The
\* chunk counts as failed and the harness stops.
RowIsGone(r, i) ==
  IF r.chunk > MinChunk
  THEN rec' = Halved(r) /\ result' = [result EXCEPT !.over = TRUE]
  ELSE LET made == Refreshed(scan, Failed(r, i))
       IN  /\ rec' = [Failed(r, i) EXCEPT !.required = r.rows # {} /\ ~made.complete]
           /\ result' = [made EXCEPT !.over = TRUE]

Accept(r, i) ==
  IF i \in r.rows
  THEN \E explainable \in BOOLEAN : Recover(scan, Accepted(r, i, explainable))
  ELSE RowIsGone(r, i)

\* _history_direct_sample_transition: a missing or cut sample is read in chunks.
FetchSample(i) ==
  /\ Phase("ENRICHMENT") /\ i \in ToRecover /\ Direct(i)
  /\ \/ i \in Present /\ Accept([rec EXCEPT !.current = i], i)
     \/ rec' = InChunks(i) /\ UNCHANGED result
  /\ UNCHANGED <<table, length, scan, stable>>

SampleCallFails(i) ==
  /\ Phase("ENRICHMENT") /\ i \in ToRecover /\ Direct(i)
  /\ LET r == Refuse(InChunks(i), i) IN rec' = r /\ result' = Marked(result, r)
  /\ UNCHANGED <<table, length, scan, stable>>

\* _history_sample_chunk_transition: SUBSTRING(sample, offset, size).
FetchChunk(i) ==
  /\ Phase("ENRICHMENT") /\ i \in ToRecover /\ ~Direct(i)
  /\ LET r == InChunks(i)
         got == Min({length[i], r.got + r.chunk})
     IN  IF i \notin Present THEN Recover(scan, Failed(r, i))
         ELSE IF got = length[i] THEN Accept([r EXCEPT !.got = got], i)
         ELSE rec' = [r EXCEPT !.got = got] /\ UNCHANGED result
  /\ UNCHANGED <<table, length, scan, stable>>

ChunkIsCut(i) ==
  /\ Phase("ENRICHMENT") /\ i \in ToRecover /\ ~Direct(i)
  /\ LET r == InChunks(i)
     IN  IF r.chunk > MinChunk THEN rec' = Halved(r) /\ UNCHANGED result
         ELSE Recover(scan, Failed(r, i))
  /\ UNCHANGED <<table, length, scan, stable>>

\* on_failure: the result is refreshed before the row is dropped.
ChunkCallFails(i) ==
  /\ Phase("ENRICHMENT") /\ i \in ToRecover /\ ~Direct(i)
  /\ LET r == InChunks(i)
         smaller == r.chunk > MinChunk
         made == IF smaller THEN result ELSE Refreshed(scan, Failed(r, i))
         required == IF smaller THEN r.required ELSE r.rows # {} /\ ~made.complete
         kept == [(IF smaller THEN Halved(r) ELSE Failed(r, i)) EXCEPT !.required = required]
     IN  /\ rec' = Refuse(kept, i)
         /\ result' = IF Refuse(kept, i) = kept THEN made ELSE Marked(made, Refuse(kept, i))
  /\ UNCHANGED <<table, length, scan, stable>>

-----------------------------------------------------------------------------
(* The live table.                                                         *)

Commit(i) ==
  /\ table[i] = "unborn"
  /\ table' = [table EXCEPT ![i] = "present"]
  /\ UNCHANGED <<length, scan, rec, result, stable>>

Purge(i) ==
  /\ table[i] = "present"
  /\ table' = [table EXCEPT ![i] = "gone"]
  /\ stable' = stable \ {i}
  /\ UNCHANGED <<length, scan, rec, result>>

HistoryStep ==
  \/ StartPipeline \/ RankingPage \/ BasePage \/ Reconcile \/ PageIsCut \/ ScanFails
  \/ \E i \in Ids : FetchSample(i) \/ SampleCallFails(i) \/ FetchChunk(i)
                    \/ ChunkIsCut(i) \/ ChunkCallFails(i)
TableStep == \E i \in Ids : Commit(i) \/ Purge(i)
=============================================================================
