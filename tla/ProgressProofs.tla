----------------------------- MODULE ProgressProofs -----------------------------
(***************************************************************************)
(* What holds of the components MCProgress runs side by side, for all      *)
(* values of their constants: the graph of a run (ReactLoop), its trace    *)
(* (AgentTrace), the scheduler without Redis (MemoryScheduler) and the     *)
(* adapters of a process (AdapterRetirement).  Each has its own inductive  *)
(* invariant: RInv, TraceInv, SchedulerInv and AdapterInv.                 *)
(***************************************************************************)
EXTENDS ReactLoop, MemoryScheduler, AgentTrace, AdapterRetirement,
        FiniteSetTheorems, WellFoundedInduction, TLAPS

-----------------------------------------------------------------------------
(* The graph, for any number of rounds, tools and crashes.                 *)
(*                                                                         *)
(* Sound is the set of states that agree with what is durable: each state  *)
(* has evidence that is stored, stands at a round the journal knows, and   *)
(* past the decisions has the outage the journal knows of.  The state of   *)
(* the process, the checkpoints it has put and the one that is stored are  *)
(* all Sound, and every step keeps Sound what was (Sound \subseteq Sound'):*)
(* that is why a crash may go back to any checkpoint.                      *)

Early == {"enrich", "knowledge"}
Late == {"advise", "validate", "report", "end"}
Nodes == Early \cup {"decide", "execute"} \cup Late

Entry == [round : Nat, failure : Failures, choice : Tools \cup {"finish"}]

(* Evidence a root cause may rest on. *)
Ground == {d \in Dispatches : d \in records /\ dispatch[d] = "ok"}

AgentState ==
  [next : Nodes, round : Nat, pending : Tools \cup {"none"}, failure : Failures,
   evidence : Seq(records), error : BOOLEAN, degraded : BOOLEAN, cited : SUBSET Ground,
   verdict : {"none", "COMPLETED", "INCONCLUSIVE", "FAILED"}]

(* No further decision is taken. *)
Closed ==
  \/ Len(journal) = MaxRounds
  \/ Len(journal) # 0 /\ journal[Len(journal)].choice \notin Tools

Agrees(s) ==
  /\ s.round <= Len(journal)
  /\ s.next \in Early => s.round = 0
  /\ s.next # "enrich" => Detail \in records
  /\ s.next \notin Late => s.failure # "outage"
  /\ s.next = "decide" => s.round = 0 \/ journal[s.round].choice \in Tools
  /\ s.next = "execute" => s.round # 0 /\ journal[s.round].choice \in Tools
  /\ s.next \in Late => Closed /\ (told => s.failure = "outage")
  /\ s.next \in {"report", "end"} <=> s.verdict # "none"
  /\ s.verdict = "COMPLETED" => s.cited # {} /\ ~s.degraded

Sound == {s \in AgentState : Agrees(s)}

JournalOK ==
  /\ journal \in Seq(Entry) /\ Len(journal) <= MaxRounds
  /\ \A i \in 1 .. Len(journal) :
       /\ journal[i].round = i
       /\ i < Len(journal) => journal[i].choice \in Tools
       /\ journal[i].choice \in Tools => journal[i].failure # "outage"
  /\ told \in BOOLEAN
  /\ told => Len(journal) # 0 /\ journal[Len(journal)].failure = "outage"

(* Where inside its node the process is. *)
Placed ==
  /\ pc \in {"node", "enriching", "enriched", "record", "calling", "observed", "down", "ended"}
  /\ pc \in {"enriching", "enriched"} => st.next = "enrich" /\ Detail \notin records
  /\ Detail \in records \/ pc = "enriched" => endpoint = "fresh"
  /\ pc = "record" => /\ st.next = "decide" /\ st.round = Len(journal)
                      /\ st.round < MaxRounds /\ draft \in Answers
  /\ pc = "calling" => st.next = "execute"
  /\ pc = "calling" /\ ThisDispatch \in Dispatches => dispatch[ThisDispatch] = "started"
  /\ pc = "observed" => st.next = "execute" /\ ThisDispatch \in records

Ended ==
  /\ pc = "ended" <=> ~Running
  /\ ~Running => \/ outcome.status = "FAILED"
                 \/ outcome = [status |-> st.verdict, failure |-> st.failure] /\ st.next = "end"

RInv ==
  /\ dispatch \in [Dispatches -> {"absent", "started", "ok", "failed", "unknown"}]
  /\ JournalOK /\ Placed /\ Ended /\ asked = 0
  /\ pc # "down" => st \in Sound
  /\ saved \in Sound \cup {NoState}
  /\ unsaved \in Seq(Sound)

(* None of the words for the other decisions names a tool. *)
Distinct == Tools \cap {"finish", "error", "outage", "none"} = {}

-----------------------------------------------------------------------------
LEMMA RoundsAreSound ==
  ASSUME RInv, MaxRounds \in Nat, NEW s \in Sound
  PROVE  /\ s.round \in 0 .. Len(journal) /\ Len(journal) \in Nat
         /\ s.next \in Late => s.round <= Len(journal)
BY DEF RInv, JournalOK, Sound, AgentState, Agrees

(* Nothing that is durable is taken back: what agreed with it still does. *)
LEMMA SoundGrows ==
  ASSUME RInv, MaxRounds \in Nat, records \subseteq records', Ground \subseteq Ground',
         UNCHANGED <<journal, told>>
  PROVE  Sound \subseteq Sound'
<1> SUFFICES ASSUME NEW s \in Sound
             PROVE  s \in Sound'
  OBVIOUS
<1>1. Seq(records) \subseteq Seq(records')
  OBVIOUS
<1>2. s \in AgentState'
  BY <1>1 DEF Sound, AgentState
<1>3. Agrees(s)'
  BY DEF Sound, Agrees, Closed
<1>4. QED
  BY <1>2, <1>3 DEF Sound

(* The entry that is appended finds no state past the decisions. *)
LEMMA SoundWhenDecided ==
  ASSUME RInv, MaxRounds \in Nat, ~Closed, NEW e \in Entry, journal' = Append(journal, e),
         UNCHANGED <<records, dispatch>>
  PROVE  Sound \subseteq Sound'
<1> SUFFICES ASSUME NEW s \in Sound
             PROVE  s \in Sound'
  OBVIOUS
<1>1. s \in AgentState'
  BY DEF Sound, AgentState, Ground
<1>2. /\ Len(journal') = Len(journal) + 1 /\ Len(journal) \in Nat /\ s.round \in 0 .. Len(journal)
      /\ \A i \in 1 .. Len(journal) : journal'[i] = journal[i]
  BY RoundsAreSound DEF RInv, JournalOK
<1>3. s.next \notin Late
  BY DEF Sound, Agrees
<1>4. s.round # 0 => journal'[s.round] = journal[s.round]
  BY <1>2
<1>5. Agrees(s)'
  BY <1>2, <1>3, <1>4 DEF Sound, Agrees
<1>6. QED
  BY <1>1, <1>5 DEF Sound

(* A grounded evidence stays grounded while rows in other states move on. *)
LEMMA GroundGrows ==
  ASSUME records \subseteq records',
         \A d \in Dispatches : dispatch[d] = "ok" => dispatch'[d] = "ok"
  PROVE  Ground \subseteq Ground'
BY DEF Ground

(* Checkpoints after a step of the process: none, or that of its new state. *)
LEMMA Checkpointed ==
  ASSUME RInv, Sound \subseteq Sound', UNCHANGED saved,
         \/ UNCHANGED unsaved
         \/ \E s \in Sound' : unsaved' = Append(unsaved, s)
  PROVE  saved' \in Sound' \cup {NoState} /\ unsaved' \in Seq(Sound')
<1>1. unsaved \in Seq(Sound')
  <2>1. Seq(Sound) \subseteq Seq(Sound')
    OBVIOUS
  <2>2. QED
    BY <2>1 DEF RInv
<1>2. QED
  BY <1>1 DEF RInv

-----------------------------------------------------------------------------
LEMMA InitInv ==
  ASSUME MaxRounds \in Nat, Init
  PROVE  RInv
<1>1. Fresh \in Sound
  <2>1. <<>> \in Seq(records)
    OBVIOUS
  <2>2. Fresh \in AgentState
    BY <2>1 DEF Fresh, AgentState, Nodes, Early, Failures
  <2>3. Agrees(Fresh)
    BY DEF Init, Agrees, Fresh, Early, Late, Failures
  <2>4. QED
    BY <2>2, <2>3 DEF Sound
<1>2. unsaved \in Seq(Sound)
  BY <1>1 DEF Init
<1>3. JournalOK
  <2>1. Len(journal) = 0 /\ journal \in Seq(Entry) /\ told = FALSE
    BY DEF Init
  <2>2. 1 .. Len(journal) = {}
    BY <2>1
  <2>3. told \in BOOLEAN /\ ~told
    BY <2>1
  <2>4. Len(journal) <= MaxRounds
    BY <2>1
  <2>5. QED
    BY <2>1, <2>2, <2>3, <2>4 DEF JournalOK
<1>4. Placed /\ Ended
  BY DEF Init, Placed, Ended, Running
<1>5. QED
  BY <1>1, <1>2, <1>3, <1>4 DEF Init, RInv

(* A node returns: only the state changes, and its checkpoint is put. *)
LEMMA ReturnInv ==
  ASSUME RInv, MaxRounds \in Nat, NEW s \in Sound, Return(s), Running, pc # "down",
         UNCHANGED <<durable, outcome, told>>, asked' = 0
  PROVE  RInv'
<1>1. /\ st' = s /\ pc' = "node" /\ unsaved' = Append(unsaved, s)
      /\ UNCHANGED <<saved, journal, dispatch, records, endpoint>>
  BY DEF Return, durable
<1>2. Sound' = Sound
  BY <1>1 DEF Sound, AgentState, Agrees, Ground, Closed
<1>3. saved' \in Sound' \cup {NoState} /\ unsaved' \in Seq(Sound')
  BY <1>1, <1>2, Checkpointed
<1>4. JournalOK' /\ Placed' /\ Ended'
  BY <1>1 DEF RInv, JournalOK, Placed, Ended, Running
<1>5. QED
  BY <1>1, <1>2, <1>3, <1>4 DEF RInv

-----------------------------------------------------------------------------
LEMMA EnrichInv ==
  ASSUME RInv, MaxRounds \in Nat,
         EnrichReplay \/ EnrichClear \/ EnrichUpdate \/ EnrichSave \/ MatchKnowledge
  PROVE  RInv'
<1>1. /\ Running /\ pc \notin {"down", "ended"} /\ st \in Sound /\ st \in AgentState /\ Agrees(st)
      /\ UNCHANGED <<saved, journal, dispatch, outcome, told>> /\ asked' = 0
  BY DEF RInv, EnrichReplay, EnrichClear, EnrichUpdate, EnrichSave, MatchKnowledge, At, Sound,
         durable, history
<1>2. ASSUME Detail \in records', records \subseteq records', st.next = "enrich",
             UNCHANGED journal
      PROVE  [st EXCEPT !.next = "knowledge", !.evidence = Take(Detail)] \in AgentState'
  <2>1. Take(Detail) \in Seq(records')
    <3>1. st.evidence \in Seq(records')
      <4>1. Seq(records) \subseteq Seq(records')
        BY <1>2
      <4>2. QED
        BY <1>1, <4>1 DEF AgentState
    <3>2. QED
      BY <1>2, <3>1 DEF Take
  <2>2. Ground \subseteq Ground'
    BY <1>1, <1>2 DEF Ground
  <2> DEFINE e == Take(Detail)
  <2> HIDE DEF e
  <2>3. [st EXCEPT !.next = "knowledge", !.evidence = e] \in AgentState'
    BY <1>1, <2>1, <2>2 DEF AgentState, Nodes, Early, e
  <2>4. QED
    BY <2>3 DEF e
<1>3. CASE EnrichReplay
  <2> DEFINE s == [st EXCEPT !.next = "knowledge", !.evidence = Take(Detail)]
  <2>1. Detail \in records /\ st.next = "enrich" /\ UNCHANGED <<durable, outcome>> /\ Return(s)
        /\ UNCHANGED <<records, journal>>
    BY <1>3 DEF EnrichReplay, At, durable
  <2>2. s \in AgentState
    BY <1>1, <1>2, <2>1 DEF AgentState, Ground
  <2>3. /\ s.next = "knowledge" /\ s.round = st.round /\ s.failure = st.failure
        /\ s.verdict = st.verdict /\ s.cited = st.cited /\ s.degraded = st.degraded
    BY <1>1 DEF AgentState
  <2> HIDE DEF s
  <2>4. Agrees(s)
    BY <1>1, <2>1, <2>3 DEF Agrees, Early, Late
  <2>5. QED
    BY <1>1, <2>1, <2>2, <2>4, ReturnInv DEF Sound
<1>4. CASE MatchKnowledge
  <2> DEFINE s == [st EXCEPT !.next = "decide"]
  <2>1. st.next = "knowledge" /\ UNCHANGED <<durable, outcome>> /\ Return(s)
    BY <1>4 DEF MatchKnowledge, At
  <2>2. s \in AgentState
    BY <1>1 DEF AgentState, Nodes
  <2>3. /\ s.next = "decide" /\ s.round = st.round /\ s.failure = st.failure
        /\ s.verdict = st.verdict /\ s.cited = st.cited /\ s.degraded = st.degraded
    BY <1>1 DEF AgentState
  <2> HIDE DEF s
  <2>4. Agrees(s)
    BY <1>1, <2>1, <2>3 DEF Agrees, Early, Late
  <2>5. QED
    BY <1>1, <2>1, <2>2, <2>4, ReturnInv DEF Sound
<1>5. CASE EnrichClear \/ EnrichUpdate
  <2>1. /\ UNCHANGED <<records, st, unsaved>> /\ st.next = "enrich" /\ Detail \notin records
        /\ \/ pc' = "enriching"
           \/ pc' = "enriched" /\ endpoint' = "fresh"
    BY <1>5 DEF EnrichClear, EnrichUpdate, At, Within, RInv, Placed
  <2>2. Sound' = Sound
    BY <1>1, <2>1 DEF Sound, AgentState, Agrees, Ground, Closed
  <2>3. saved' \in Sound' \cup {NoState} /\ unsaved' \in Seq(Sound')
    BY <1>1, <2>1, <2>2, Checkpointed
  <2>4. JournalOK' /\ Placed' /\ Ended'
    BY <1>1, <2>1 DEF RInv, JournalOK, Placed, Ended, Running
  <2>5. QED
    BY <1>1, <2>1, <2>2, <2>3, <2>4 DEF RInv
<1>6. CASE EnrichSave
  <2> DEFINE s == [st EXCEPT !.next = "knowledge", !.evidence = Take(Detail)]
  <2>1. /\ records' = records \cup {Detail} /\ st.next = "enrich" /\ Return(s)
        /\ pc = "enriched" /\ UNCHANGED endpoint
    BY <1>6 DEF EnrichSave, At
  <2>2. s \in AgentState'
    BY <1>1, <1>2, <2>1
  <2>3. /\ s.next = "knowledge" /\ s.round = st.round /\ s.failure = st.failure
        /\ s.verdict = st.verdict /\ s.cited = st.cited /\ s.degraded = st.degraded
    BY <1>1 DEF AgentState
  <2>4. st' = s /\ pc' = "node" /\ unsaved' = Append(unsaved, s)
    BY <2>1 DEF Return
  <2> HIDE DEF s
  <2>5. Agrees(st)'
    BY <1>1, <2>1, <2>3, <2>4 DEF Agrees, Early, Late
  <2>6. Sound \subseteq Sound'
    <3>1. records \subseteq records' /\ Ground \subseteq Ground'
      BY <1>1, <2>1, GroundGrows
    <3>2. QED
      BY <1>1, <3>1, SoundGrows
  <2>7. s \in Sound'
    BY <2>2, <2>4, <2>5 DEF Sound
  <2>8. saved' \in Sound' \cup {NoState} /\ unsaved' \in Seq(Sound')
    BY <1>1, <2>4, <2>6, <2>7, Checkpointed
  <2>9. JournalOK' /\ Placed' /\ Ended'
    BY <1>1, <2>1, <2>4 DEF RInv, JournalOK, Placed, Ended, Running
  <2>10. QED
    BY <1>1, <2>4, <2>7, <2>8, <2>9 DEF RInv
<1>7. QED
  BY <1>3, <1>4, <1>5, <1>6

-----------------------------------------------------------------------------
(* The decisions: taken over from the journal, or asked for and appended. *)
LEMMA DecisionsAre ==
  ASSUME RInv, st \in Sound
  PROVE  /\ DecisionsOfNext = IF st.round = Len(journal) THEN {} ELSE {st.round + 1}
         /\ DecisionsOfNext # {} => /\ st.round + 1 \in 1 .. Len(journal)
                                    /\ Newest(DecisionsOfNext) = journal[st.round + 1]
<1>1. st.round \in 0 .. Len(journal) /\ Len(journal) \in Nat
  BY DEF RInv, JournalOK, Sound, AgentState, Agrees
<1>2. DecisionsOfNext = {i \in 1 .. Len(journal) : i = st.round + 1}
  BY DEF DecisionsOfNext, RInv, JournalOK
<1>3. DecisionsOfNext = IF st.round = Len(journal) THEN {} ELSE {st.round + 1}
  BY <1>1, <1>2
<1>4. ASSUME DecisionsOfNext # {}
      PROVE  /\ st.round + 1 \in 1 .. Len(journal)
             /\ Newest(DecisionsOfNext) = journal[st.round + 1]
  <2>1. DecisionsOfNext = {st.round + 1} /\ st.round + 1 \in 1 .. Len(journal)
    BY <1>1, <1>3, <1>4
  <2>2. (CHOOSE i \in {st.round + 1} : \A j \in {st.round + 1} : j <= i) = st.round + 1
    BY <2>1
  <2>3. QED
    BY <2>1, <2>2 DEF Newest
<1>5. QED
  BY <1>3, <1>4

LEMMA DecideInv ==
  ASSUME RInv, MaxRounds \in Nat, Distinct, RoundLimit \/ Replay \/ Ask \/ Record
  PROVE  RInv'
<1>1. /\ Running /\ pc \notin {"down", "ended"} /\ st \in Sound /\ st \in AgentState /\ Agrees(st)
      /\ st.next = "decide" /\ UNCHANGED <<outcome, saved, dispatch, records, endpoint>>
  BY DEF RInv, RoundLimit, Replay, Ask, Record, At, Sound, durable
<1>2. /\ st.round \in 0 .. Len(journal) /\ Len(journal) \in Nat /\ journal \in Seq(Entry)
      /\ st.round \in Nat /\ Len(journal) <= MaxRounds
      /\ st.round = 0 \/ journal[st.round].choice \in Tools
  BY <1>1, RoundsAreSound DEF RInv, JournalOK, Agrees
<1>3. CASE RoundLimit
  <2> DEFINE s == [st EXCEPT !.next = "advise"]
  <2>1. st.round >= MaxRounds /\ UNCHANGED <<durable, outcome, history>> /\ Return(s)
    BY <1>3 DEF RoundLimit
  <2>2. st.round = Len(journal) /\ Len(journal) = MaxRounds
    BY <1>2, <2>1
  <2>3. ~told
    BY <1>2, <2>2 DEF RInv, JournalOK
  <2>4. s \in AgentState
    BY <1>1 DEF AgentState, Nodes, Late
  <2>5. /\ s.next = "advise" /\ s.round = st.round /\ s.failure = st.failure
        /\ s.verdict = st.verdict /\ s.cited = st.cited /\ s.degraded = st.degraded
    BY <1>1 DEF AgentState
  <2> HIDE DEF s
  <2>6. Agrees(s)
    BY <1>1, <2>2, <2>3, <2>5 DEF Agrees, Early, Late, Closed
  <2>7. QED
    BY <1>1, <2>1, <2>4, <2>6, ReturnInv DEF Sound, RInv, history
<1>4. CASE Replay
  <2> DEFINE e == journal[st.round + 1]
             s == [st EXCEPT
                     !.round = @ + 1,
                     !.pending = IF e.choice \in Tools THEN e.choice ELSE "none",
                     !.failure = IF e.failure # "none" THEN e.failure ELSE @,
                     !.next = IF e.choice \in Tools THEN "execute" ELSE "advise"]
  <2>1. /\ st.round + 1 \in 1 .. Len(journal) /\ Newest(DecisionsOfNext) = e
        /\ UNCHANGED <<durable, outcome, history>>
    BY <1>1, <1>4, DecisionsAre DEF Replay
  <2>2. Return(s)
    BY <1>4, <2>1 DEF Replay, Adopt
  <2>3. /\ e \in Entry
        /\ e.choice \in Tools => e.failure # "outage"
        /\ st.round + 1 < Len(journal) => e.choice \in Tools
        /\ st.failure # "outage"
    <3>1. e \in Entry
      BY <1>2, <2>1
    <3>2. QED
      BY <1>1, <2>1, <3>1 DEF RInv, JournalOK, Agrees, Late
  <2>4. s \in AgentState
    <3> HIDE DEF e
    <3>1. st.round + 1 \in Nat
      BY <1>2
    <3>2. (IF e.failure # "none" THEN e.failure ELSE st.failure) \in Failures
      BY <1>1, <2>3 DEF Entry, AgentState
    <3>3. (IF e.choice \in Tools THEN e.choice ELSE "none") \in Tools \cup {"none"}
      OBVIOUS
    <3>4. (IF e.choice \in Tools THEN "execute" ELSE "advise") \in Nodes
      BY DEF Nodes, Late
    <3>5. QED
      BY <1>1, <3>1, <3>2, <3>3, <3>4 DEF AgentState
  <2>5. /\ s.round = st.round + 1
        /\ s.next = IF e.choice \in Tools THEN "execute" ELSE "advise"
        /\ s.failure = IF e.failure # "none" THEN e.failure ELSE st.failure
        /\ s.verdict = st.verdict /\ s.cited = st.cited /\ s.degraded = st.degraded
    BY <1>1 DEF AgentState
  <2>6. journal[s.round] = e
    BY <2>5
  <2> HIDE DEF s, e
  <2>7. CASE e.choice \in Tools
    <3>1. /\ s.next = "execute" /\ s.failure # "outage" /\ s.round # 0 /\ s.round <= Len(journal)
          /\ journal[s.round].choice \in Tools
      BY <1>2, <2>1, <2>3, <2>5, <2>6, <2>7
    <3>2. Agrees(s)
      BY <1>1, <2>5, <3>1 DEF Agrees, Early, Late
    <3>3. QED
      BY <1>1, <2>1, <2>2, <2>4, <3>2, ReturnInv DEF Sound, RInv, history
  <2>8. CASE e.choice \notin Tools
    <3>1. /\ s.next = "advise" /\ s.round = Len(journal) /\ Len(journal) # 0
          /\ journal[Len(journal)] = e
      BY <1>2, <2>1, <2>3, <2>5, <2>6, <2>8
    <3>2. Closed /\ (told => s.failure = "outage")
      BY <2>5, <2>8, <3>1 DEF Closed, RInv, JournalOK
    <3>3. Agrees(s)
      BY <1>1, <2>5, <3>1, <3>2 DEF Agrees, Early, Late
    <3>4. QED
      BY <1>1, <2>1, <2>2, <2>4, <3>3, ReturnInv DEF Sound, RInv, history
  <2>9. QED
    BY <2>7, <2>8
<1>5. CASE Ask
  <2>1. /\ st.round = Len(journal) /\ st.round < MaxRounds /\ draft' \in Answers
        /\ UNCHANGED <<durable, st, unsaved, told>> /\ pc' = "record"
    BY <1>1, <1>5, DecisionsAre DEF Ask, Within, ProviderCall
  <2>2. ~told
    BY <1>2, <2>1 DEF RInv, JournalOK
  <2>3. asked' = 0
    BY <1>5, <2>2 DEF Ask, ProviderCall, RInv
  <2>4. UNCHANGED <<saved, journal, dispatch, records, endpoint>>
    BY <2>1 DEF durable
  <2>5. Sound' = Sound
    BY <2>1, <2>4 DEF Sound, AgentState, Agrees, Ground, Closed
  <2>6. saved' \in Sound' \cup {NoState} /\ unsaved' \in Seq(Sound')
    BY <2>1, <2>4, <2>5, Checkpointed
  <2>7. JournalOK'
    BY <2>1, <2>4 DEF RInv, JournalOK
  <2>8. Placed' /\ Ended'
    BY <1>1, <1>2, <2>1, <2>4 DEF RInv, Placed, Ended, Running
  <2>9. QED
    BY <1>1, <2>1, <2>3, <2>4, <2>5, <2>6, <2>7, <2>8 DEF RInv
<1>6. CASE Record
  <2> DEFINE e == Event(draft)
  <2>1. /\ st.round = Len(journal) /\ st.round < MaxRounds /\ draft \in Answers
        /\ UNCHANGED <<saved, st, unsaved, asked>> /\ pc' = "node"
        /\ journal' = Append(journal, e) /\ told' = (told \/ draft = "outage")
    BY <1>6 DEF Record, At, RInv, Placed, Within
  <2>2. ~Closed /\ ~told
    BY <1>2, <2>1 DEF Closed, RInv, JournalOK
  <2>3. /\ e \in Entry /\ e.round = Len(journal) + 1
        /\ e.choice \in Tools => e.failure # "outage"
        /\ draft = "outage" => e.failure = "outage"
    <3>1. st.round + 1 \in Nat /\ st.failure # "outage" /\ st.failure \in Failures
      BY <1>1, <1>2 DEF Agrees, AgentState, Late
    <3>2. "finish" \notin Tools /\ "outage" \notin Tools
      BY DEF Distinct
    <3>3. QED
      BY <2>1, <3>1, <3>2 DEF Event, Entry, Failures, Answers
  <2> HIDE DEF e
  <2>4. Sound \subseteq Sound'
    BY <1>1, <2>1, <2>2, <2>3, SoundWhenDecided
  <2>5. saved' \in Sound' \cup {NoState} /\ unsaved' \in Seq(Sound')
    BY <2>1, <2>4, Checkpointed
  <2>6. /\ Len(journal') = Len(journal) + 1 /\ journal' \in Seq(Entry)
        /\ \A i \in 1 .. Len(journal) : journal'[i] = journal[i]
        /\ journal'[Len(journal) + 1] = e
    BY <1>2, <2>1, <2>3
  <2>7. JournalOK'
    <3>1. Len(journal') <= MaxRounds /\ told' \in BOOLEAN
      BY <1>2, <2>1, <2>6 DEF RInv, JournalOK
    <3>2. ASSUME NEW i \in 1 .. Len(journal')
          PROVE  /\ journal'[i].round = i
                 /\ i < Len(journal') => journal'[i].choice \in Tools
                 /\ journal'[i].choice \in Tools => journal'[i].failure # "outage"
      <4>1. CASE i \in 1 .. Len(journal)
        <5>1. /\ journal[i].round = i
              /\ journal[i].choice \in Tools => journal[i].failure # "outage"
              /\ i < Len(journal) => journal[i].choice \in Tools
          BY <4>1 DEF RInv, JournalOK
        <5>2. i = Len(journal) => journal[i].choice \in Tools
          BY <1>2, <2>1, <4>1
        <5>3. journal'[i] = journal[i] /\ (i < Len(journal) \/ i = Len(journal))
          BY <1>2, <2>6, <4>1
        <5>4. QED
          BY <5>1, <5>2, <5>3
      <4>2. CASE i = Len(journal) + 1
        BY <1>2, <2>3, <2>6, <4>2
      <4>3. QED
        BY <1>2, <2>6, <4>1, <4>2
    <3>3. told' => Len(journal') # 0 /\ journal'[Len(journal')].failure = "outage"
      <4>1. told' => draft = "outage"
        BY <2>1, <2>2
      <4>2. Len(journal') # 0 /\ journal'[Len(journal')] = e
        BY <1>2, <2>6
      <4>3. QED
        BY <2>3, <4>1, <4>2
    <3>4. QED
      BY <2>6, <3>1, <3>2, <3>3 DEF JournalOK
  <2>8. Placed' /\ Ended'
    BY <1>1, <2>1 DEF RInv, Placed, Ended, Running
  <2>9. QED
    BY <1>1, <2>1, <2>4, <2>5, <2>7, <2>8 DEF RInv
<1>7. QED
  BY <1>3, <1>4, <1>5, <1>6

-----------------------------------------------------------------------------
(* The tool of the round: the row moves on, then its evidence is stored. *)
LEMMA ToolInv ==
  ASSUME RInv, MaxRounds \in Nat,
         StartTool \/ AnswerTool \/ RecoverTool \/ SaveEvidence \/ Observe
  PROVE  RInv'
<1>1. /\ Running /\ pc \notin {"down", "ended"} /\ st \in Sound /\ st \in AgentState /\ Agrees(st)
      /\ st.next = "execute" /\ UNCHANGED <<outcome, saved, journal, endpoint, told>> /\ asked' = 0
  BY DEF RInv, StartTool, AnswerTool, RecoverTool, SaveEvidence, Observe, At, Sound, durable,
         history
<1>2. Detail \in records
  BY <1>1 DEF Agrees
<1>3. ASSUME UNCHANGED st
      PROVE  ThisDispatch' = ThisDispatch
  BY <1>3 DEF ThisDispatch, InState, Dispatches, Rounds
<1>4. CASE StartTool \/ AnswerTool \/ RecoverTool
  <2>1. PICK r \in {"started", "ok", "failed", "unknown"} :
          /\ dispatch' = [dispatch EXCEPT ![ThisDispatch] = r]
          /\ pc' \in {"node", "calling"}
          /\ pc' = "calling" => r = "started"
    BY <1>4 DEF StartTool, AnswerTool, RecoverTool, Within
  <2>2. UNCHANGED <<st, unsaved, records>>
    BY <1>4 DEF StartTool, AnswerTool, RecoverTool, Within
  <2>3. ThisDispatch \in Dispatches => dispatch[ThisDispatch] # "ok"
    BY <1>4 DEF StartTool, AnswerTool, RecoverTool, At, RInv, Placed
  <2>4. /\ dispatch' \in [Dispatches -> {"absent", "started", "ok", "failed", "unknown"}]
        /\ \A d \in Dispatches : dispatch[d] = "ok" => dispatch'[d] = "ok"
        /\ ThisDispatch \in Dispatches => dispatch'[ThisDispatch] = r
    BY <2>1, <2>3 DEF RInv
  <2>5. Sound \subseteq Sound'
    <3>1. records \subseteq records' /\ Ground \subseteq Ground'
      BY <2>2, <2>4, GroundGrows
    <3>2. QED
      BY <1>1, <3>1, SoundGrows
  <2>6. saved' \in Sound' \cup {NoState} /\ unsaved' \in Seq(Sound')
    BY <1>1, <2>2, <2>5, Checkpointed
  <2>7. JournalOK'
    BY <1>1 DEF RInv, JournalOK
  <2>8. Placed' /\ Ended'
    BY <1>1, <1>2, <1>3, <2>1, <2>2, <2>4 DEF RInv, Placed, Ended, Running
  <2>9. QED
    BY <1>1, <2>2, <2>4, <2>5, <2>6, <2>7, <2>8 DEF RInv
<1>5. CASE SaveEvidence
  <2>1. /\ records' = records \cup {ThisDispatch} /\ pc' = "observed"
        /\ UNCHANGED <<st, unsaved, dispatch>>
    BY <1>5 DEF SaveEvidence, Within
  <2>2. Sound \subseteq Sound'
    <3>1. records \subseteq records' /\ Ground \subseteq Ground'
      BY <2>1, GroundGrows
    <3>2. QED
      BY <1>1, <3>1, SoundGrows
  <2>3. saved' \in Sound' \cup {NoState} /\ unsaved' \in Seq(Sound')
    BY <1>1, <2>1, <2>2, Checkpointed
  <2>4. JournalOK'
    BY <1>1 DEF RInv, JournalOK
  <2>5. Placed' /\ Ended'
    BY <1>1, <1>2, <1>3, <2>1 DEF RInv, Placed, Ended, Running
  <2>6. QED
    BY <1>1, <2>1, <2>2, <2>3, <2>4, <2>5 DEF RInv
<1>6. CASE Observe
  <2> DEFINE e == Take(ThisDispatch)
             s == [st EXCEPT !.next = "decide", !.pending = "none", !.evidence = e]
  <2>1. UNCHANGED <<durable, outcome, history>> /\ Return(s) /\ ThisDispatch \in records
    BY <1>6 DEF Observe, At, RInv, Placed
  <2>2. e \in Seq(records)
    BY <1>1, <2>1 DEF Take, AgentState
  <2> HIDE DEF e
  <2>3. s \in AgentState
    BY <1>1, <2>2 DEF AgentState, Nodes
  <2>4. /\ s.next = "decide" /\ s.round = st.round /\ s.failure = st.failure
        /\ s.verdict = st.verdict /\ s.cited = st.cited /\ s.degraded = st.degraded
    BY <1>1 DEF AgentState
  <2> HIDE DEF s
  <2>5. Agrees(s)
    BY <1>1, <2>4 DEF Agrees, Early, Late
  <2>6. QED
    BY <1>1, <2>1, <2>3, <2>5, ReturnInv DEF Sound
<1>7. QED
  BY <1>4, <1>5, <1>6

(* The final analysis, its validation and the report. *)
LEMMA AnalysisInv ==
  ASSUME RInv, MaxRounds \in Nat, Advise \/ AdviseFails \/ Validate \/ Report
  PROVE  RInv'
<1>1. /\ Running /\ pc \notin {"down", "ended"} /\ st \in Sound /\ st \in AgentState /\ Agrees(st)
      /\ st.next \in Late /\ UNCHANGED <<durable, outcome>>
  BY DEF RInv, Advise, AdviseFails, Validate, Report, At, Sound, Late
<1>2. told \in BOOLEAN /\ asked = 0 /\ (told => ~MayAsk)
  BY <1>1 DEF RInv, JournalOK, Agrees, MayAsk
<1>3. UNCHANGED told /\ asked' = 0
  <2>1. ProviderCall /\ MayAsk => UNCHANGED told /\ asked' = 0
    BY <1>2 DEF ProviderCall
  <2>2. UNCHANGED history => UNCHANGED told /\ asked' = 0
    BY <1>2 DEF history
  <2>3. QED
    BY <2>1, <2>2 DEF Advise, AdviseFails, Validate, Report, NoCall
<1>4. ASSUME NEW s \in AgentState, Return(s), s.round = st.round, s.next \in Late \ {"advise"},
             told => s.failure = "outage",
             s.next = "validate" <=> s.verdict = "none",
             s.verdict = "COMPLETED" => s.cited # {} /\ ~s.degraded
      PROVE  RInv'
  <2>1. Agrees(s)
    BY <1>1, <1>4 DEF Agrees, Early, Late
  <2>2. QED
    BY <1>1, <1>3, <1>4, <2>1, ReturnInv DEF Sound
<1>5. CASE Advise
  <2>1. PICK refs : Return([st EXCEPT !.next = "validate", !.cited = Qualified(refs)])
    BY <1>5 DEF Advise
  <2> DEFINE q == Qualified(refs)
             s == [st EXCEPT !.next = "validate", !.cited = q]
  <2>2. q \in SUBSET Ground
    <3>1. \A d : InState(d) => d \in records
      BY <1>1 DEF InState, AgentState
    <3>2. QED
      BY <3>1 DEF Qualified, Ground
  <2> HIDE DEF q
  <2>3. /\ s \in AgentState /\ s.round = st.round /\ s.next = "validate"
        /\ s.failure = st.failure /\ s.verdict = st.verdict
    BY <1>1, <2>2 DEF AgentState, Nodes, Late
  <2>4. st.verdict = "none" /\ (told => st.failure = "outage")
    BY <1>1, <1>5 DEF Agrees, Advise, At
  <2>5. Return(s)
    BY <2>1 DEF q
  <2> HIDE DEF s
  <2>6. QED
    BY <1>4, <2>3, <2>4, <2>5 DEF Late
<1>6. CASE AdviseFails
  <2>1. PICK f \in IF MayAsk THEN Failures \ {"none"} ELSE {st.failure}, fallback \in BOOLEAN :
          Return([st EXCEPT !.failure = f, !.degraded = fallback, !.error = ~fallback,
                            !.next = "validate"])
    BY <1>6 DEF AdviseFails
  <2> DEFINE s == [st EXCEPT !.failure = f, !.degraded = fallback, !.error = ~fallback,
                             !.next = "validate"]
  <2>2. f \in Failures /\ (told => f = "outage")
    <3>1. CASE MayAsk
      BY <1>2, <2>1, <3>1
    <3>2. CASE ~MayAsk
      BY <1>1, <2>1, <3>2 DEF AgentState, Failures, MayAsk
    <3>3. QED
      BY <3>1, <3>2
  <2>3. (~fallback) \in BOOLEAN
    OBVIOUS
  <2>4. /\ s \in AgentState /\ s.round = st.round /\ s.next = "validate"
        /\ s.failure = f /\ s.verdict = st.verdict
    BY <1>1, <2>2, <2>3 DEF AgentState, Nodes, Late
  <2>5. st.verdict = "none"
    BY <1>1, <1>6 DEF Agrees, AdviseFails, At
  <2>6. Return(s)
    BY <2>1
  <2> HIDE DEF s
  <2>7. QED
    BY <1>4, <2>2, <2>4, <2>5, <2>6 DEF Late
<1>7. CASE Validate
  <2>1. PICK passed \in BOOLEAN :
          Return([st EXCEPT
            !.next = "report",
            !.verdict = IF st.error THEN "FAILED"
                        ELSE IF passed /\ st.cited # {} /\ ~st.degraded
                             THEN "COMPLETED" ELSE "INCONCLUSIVE"])
    BY <1>7 DEF Validate
  <2> DEFINE v == IF st.error THEN "FAILED"
                  ELSE IF passed /\ st.cited # {} /\ ~st.degraded
                       THEN "COMPLETED" ELSE "INCONCLUSIVE"
             s == [st EXCEPT !.next = "report", !.verdict = v]
  <2>2. /\ v # "none" /\ v \in {"none", "COMPLETED", "INCONCLUSIVE", "FAILED"}
        /\ v = "COMPLETED" => st.cited # {} /\ ~st.degraded
    OBVIOUS
  <2>3. Return(s)
    BY <2>1
  <2> HIDE DEF v
  <2>4. /\ s \in AgentState /\ s.round = st.round /\ s.next = "report"
        /\ s.failure = st.failure /\ s.verdict = v /\ s.cited = st.cited
        /\ s.degraded = st.degraded
    BY <1>1, <2>2 DEF AgentState, Nodes, Late
  <2>5. told => st.failure = "outage"
    BY <1>1 DEF Agrees
  <2> HIDE DEF s
  <2>6. QED
    BY <1>4, <2>2, <2>3, <2>4, <2>5 DEF Late
<1>8. CASE Report
  <2> DEFINE c == IF st.verdict = "COMPLETED" THEN st.cited ELSE {}
             s == [st EXCEPT !.next = "end", !.cited = c]
  <2>1. Return(s)
    BY <1>8 DEF Report
  <2>2. c \in SUBSET Ground /\ (st.verdict = "COMPLETED" => c = st.cited)
    BY <1>1 DEF AgentState
  <2> HIDE DEF c
  <2>3. /\ s \in AgentState /\ s.round = st.round /\ s.next = "end"
        /\ s.failure = st.failure /\ s.verdict = st.verdict /\ s.cited = c
        /\ s.degraded = st.degraded
    BY <1>1, <2>2 DEF AgentState, Nodes, Late
  <2>4. /\ told => st.failure = "outage"
        /\ st.verdict = "COMPLETED" => st.cited # {} /\ ~st.degraded
        /\ st.verdict # "none"
    BY <1>1, <1>8 DEF Agrees, Report, At
  <2> HIDE DEF s
  <2>5. QED
    BY <1>4, <2>1, <2>2, <2>3, <2>4 DEF Late
<1>9. QED
  BY <1>5, <1>6, <1>7, <1>8

-----------------------------------------------------------------------------
(* The end of the run, the store of the checkpoints, and the crashes. *)
LEMMA EndInv ==
  ASSUME RInv, EnrichFails \/ ToolUnavailable \/ Finalize
  PROVE  RInv'
<1>1. /\ Running /\ pc \notin {"down", "ended"} /\ pc' = "ended" /\ UNCHANGED <<st, unsaved>>
      /\ UNCHANGED <<durable, history>>
      /\ \/ outcome' = [status |-> "FAILED", failure |-> "none"]
         \/ outcome' = [status |-> st.verdict, failure |-> st.failure] /\ st.next = "end"
      /\ outcome'.status # "none"
  <2>1. CASE EnrichFails \/ ToolUnavailable
    BY <2>1 DEF EnrichFails, ToolUnavailable, At, Raise
  <2>2. CASE Finalize
    <3>1. st.verdict # "none"
      BY <2>2 DEF Finalize, At, RInv, Sound, Agrees
    <3>2. QED
      BY <2>2, <3>1 DEF Finalize, At
  <2>3. QED
    BY <2>1, <2>2
<1>2. UNCHANGED <<saved, journal, dispatch, records, endpoint, told, asked>>
  BY <1>1 DEF durable, history
<1>3. Sound' = Sound
  BY <1>2 DEF Sound, AgentState, Agrees, Ground, Closed
<1>4. saved' \in Sound' \cup {NoState} /\ unsaved' \in Seq(Sound')
  BY <1>1, <1>2, <1>3, Checkpointed
<1>5. JournalOK'
  BY <1>2 DEF RInv, JournalOK
<1>6. Placed' /\ Ended'
  BY <1>1, <1>2 DEF RInv, Placed, Ended, Running
<1>7. QED
  BY <1>1, <1>2, <1>3, <1>4, <1>5, <1>6 DEF RInv

LEMMA RestInv ==
  ASSUME RInv, MaxRounds \in Nat, StoreCheckpoint \/ Crash \/ Resume \/ UNCHANGED vars
  PROVE  RInv'
<1>1. /\ UNCHANGED <<journal, dispatch, records, endpoint, outcome, told, asked>>
  BY DEF StoreCheckpoint, Crash, Resume, vars, durable, history
<1>2. Sound' = Sound
  BY <1>1 DEF Sound, AgentState, Agrees, Ground, Closed
<1>3. JournalOK'
  BY <1>1 DEF RInv, JournalOK
<1>4. CASE StoreCheckpoint
  <2>1. /\ unsaved # <<>> /\ saved' = Head(unsaved) /\ unsaved' = Tail(unsaved)
        /\ UNCHANGED <<st, pc, draft>>
    BY <1>4 DEF StoreCheckpoint
  <2>2. saved' \in Sound /\ unsaved' \in Seq(Sound)
    BY <2>1 DEF RInv
  <2>3. ThisDispatch' = ThisDispatch
    BY <2>1 DEF ThisDispatch, InState, Dispatches, Rounds
  <2>4. Placed' /\ Ended'
    BY <1>1, <2>1, <2>3 DEF RInv, Placed, Ended, Running
  <2>5. QED
    BY <1>1, <1>2, <1>3, <2>1, <2>2, <2>4 DEF RInv
<1>5. CASE Crash
  <2>1. pc' = "down" /\ unsaved' = <<>> /\ UNCHANGED saved /\ pc \notin {"down", "ended"}
    BY <1>5 DEF Crash, durable
  <2>2. Placed' /\ Ended'
    BY <1>1, <2>1 DEF RInv, Placed, Ended, Running
  <2>3. QED
    BY <1>1, <1>2, <1>3, <2>1, <2>2 DEF RInv
<1>6. CASE Resume
  <2>1. /\ pc = "down" /\ pc' = "node" /\ UNCHANGED saved
        /\ st' = (IF saved = NoState THEN Fresh ELSE saved)
        /\ unsaved' = (IF saved = NoState THEN <<Fresh>> ELSE <<>>)
    BY <1>6 DEF Resume, durable
  <2>2. Fresh \in Sound
    <3>1. <<>> \in Seq(records) /\ Len(journal) \in Nat
      BY DEF RInv, JournalOK
    <3>2. Fresh \in AgentState
      BY <3>1 DEF Fresh, AgentState, Nodes, Early, Failures
    <3>3. Agrees(Fresh)
      BY <3>1 DEF Agrees, Fresh, Early, Late
    <3>4. QED
      BY <3>2, <3>3 DEF Sound
  <2>3. st' \in Sound /\ unsaved' \in Seq(Sound)
    BY <2>1, <2>2 DEF RInv
  <2>4. Placed' /\ Ended'
    BY <1>1, <2>1 DEF RInv, Placed, Ended, Running
  <2>5. QED
    BY <1>1, <1>2, <1>3, <2>1, <2>3, <2>4 DEF RInv
<1>7. CASE UNCHANGED vars
  <2>1. UNCHANGED <<st, pc, draft, unsaved, saved>>
    BY <1>7 DEF vars, durable
  <2>2. ThisDispatch' = ThisDispatch
    BY <2>1 DEF ThisDispatch, InState, Dispatches, Rounds
  <2>3. Placed' /\ Ended'
    BY <1>1, <2>1, <2>2 DEF RInv, Placed, Ended, Running
  <2>4. QED
    BY <1>1, <1>2, <1>3, <2>1, <2>3 DEF RInv
<1>8. QED
  BY <1>4, <1>5, <1>6, <1>7

LEMMA NextInv ==
  ASSUME RInv, MaxRounds \in Nat, Distinct, [Next]_vars
  PROVE  RInv'
<1>1. CASE Work
  BY <1>1, EnrichInv, DecideInv, ToolInv, AnalysisInv, EndInv DEF Work
<1>2. QED
  BY <1>1, RestInv DEF Next

LEMMA SpecInv ==
  ASSUME MaxRounds \in Nat, Distinct
  PROVE  Spec => []RInv
<1>1. Init => RInv
  BY InitInv
<1>2. RInv /\ [Next]_vars => RInv'
  BY NextInv
<1>3. QED
  BY <1>1, <1>2, PTL DEF Spec

-----------------------------------------------------------------------------
(* A run that completes names causes that rest on stored, successful evidence,
   with the authoritative detail of the alert, whatever its crashes lost.     *)
THEOREM SpecCompletedIsGrounded ==
  ASSUME MaxRounds \in Nat, Distinct
  PROVE  Spec => []CompletedIsGrounded
<1>1. RInv => CompletedIsGrounded
  <2> SUFFICES ASSUME RInv, outcome.status = "COMPLETED"
               PROVE  /\ st.cited # {} /\ st.cited \subseteq records
                      /\ st.cited \subseteq {d \in Dispatches : dispatch[d] = "ok"}
                      /\ endpoint = "fresh" /\ Detail \in records
                      /\ ~st.degraded
    BY DEF CompletedIsGrounded
  <2>1. pc = "ended" /\ st.verdict = "COMPLETED" /\ st.next = "end"
    BY DEF RInv, Ended, Running
  <2>2. st \in AgentState /\ Agrees(st)
    BY <2>1 DEF RInv, Sound
  <2>3. Detail \in records /\ endpoint = "fresh"
    BY <2>1, <2>2 DEF RInv, Placed, Agrees
  <2>4. st.cited # {} /\ ~st.degraded /\ st.cited \in SUBSET Ground
    BY <2>1, <2>2 DEF Agrees, AgentState
  <2>5. QED
    BY <2>3, <2>4 DEF Ground
<1>2. QED
  BY <1>1, SpecInv, PTL

(* A provider that the journal knows to be out is not asked again, and the run
   ends with the outage.                                                      *)
THEOREM SpecOutageIsRemembered ==
  ASSUME MaxRounds \in Nat, Distinct
  PROVE  Spec => []OutageIsRemembered
<1>1. RInv => OutageIsRemembered
  <2> SUFFICES ASSUME RInv, outcome.status \notin {"none", "FAILED"}, told
               PROVE  outcome.failure = "outage"
    BY DEF OutageIsRemembered, RInv
  <2>1. pc = "ended" /\ outcome.failure = st.failure /\ st.next = "end"
    BY DEF RInv, Ended, Running
  <2>2. Agrees(st)
    BY <2>1 DEF RInv, Sound
  <2>3. QED
    BY <2>1, <2>2 DEF Agrees, Late
<1>2. QED
  BY <1>1, SpecInv, PTL

-----------------------------------------------------------------------------
(* Rounds are taken over, for any number of rounds, tools and crashes.     *)
(*                                                                         *)
(* TakenInv numbers the dispatches: those of a tool that a state has       *)
(* evidence of are 1 .. the rounds that decided for the tool up to the     *)
(* state's round.  So the dispatch a state asks for next is that of its    *)
(* round (DispatchOfRound), in every process and from every checkpoint,    *)
(* and no dispatch is ahead of the journal.                                *)

(* The rounds up to k that decided for a tool. *)
RoundsOf(t, k) == {i \in 1 .. k : journal[i].choice = t}
Count(t, k) == Cardinality(RoundsOf(t, k))

(* The rounds whose tool a state has been through. *)
Through(s) == IF s.next = "execute" THEN s.round - 1 ELSE s.round

HasEvidence(s, id) == \E i \in 1 .. Len(s.evidence) : s.evidence[i] = id

GraphStates ==
  [next : Nodes, round : Nat, pending : Tools \cup {"none"}, failure : Failures,
   evidence : Seq(Dispatches \cup {Detail}), error : BOOLEAN, degraded : BOOLEAN,
   cited : SUBSET Dispatches, verdict : {"none", "COMPLETED", "INCONCLUSIVE", "FAILED"}]

(* A state has the evidence of just those rounds, each once: the dispatches
   of a tool are numbered by the rounds that decided for it.               *)
ExactEvidence(s) ==
  /\ s.round <= Len(journal)
  /\ s.next = "execute" => s.round # 0 /\ s.pending = journal[s.round].choice
  /\ s.next \in Late => s.round = Len(journal) /\ Closed
  /\ \A i, j \in 1 .. Len(s.evidence) : s.evidence[i] = s.evidence[j] => i = j
  /\ \A t \in Tools, n \in Rounds : HasEvidence(s, <<t, n>>) <=> n <= Count(t, Through(s))

Taking == {s \in GraphStates : ExactEvidence(s)}

(* No dispatch is ahead of the journal, and no record ahead of its dispatch. *)
DispatchesFollow ==
  /\ records \subseteq Dispatches \cup {Detail}
  /\ \A d \in Dispatches : d \in records => dispatch[d] # "absent"
  /\ \A t \in Tools, n \in Rounds :
       dispatch[<<t, n>>] # "absent" => n <= Count(t, Len(journal))

TakenInv ==
  /\ DispatchesFollow
  /\ pc # "down" => st \in Taking
  /\ saved \in Taking \cup {NoState}
  /\ unsaved \in Seq(Taking)

-----------------------------------------------------------------------------
LEMMA CountType ==
  ASSUME NEW k \in Nat, NEW t
  PROVE  IsFiniteSet(RoundsOf(t, k)) /\ Count(t, k) \in Nat /\ Count(t, k) <= k
<1>1. IsFiniteSet(1 .. k) /\ Cardinality(1 .. k) = k
  BY FS_Interval
<1>2. RoundsOf(t, k) \subseteq 1 .. k
  BY DEF RoundsOf
<1> QED BY <1>1, <1>2, FS_Subset, FS_CardinalityType DEF Count

LEMMA CountNext ==
  ASSUME NEW k \in Nat, NEW t
  PROVE  Count(t, k + 1) = IF journal[k + 1].choice = t THEN Count(t, k) + 1 ELSE Count(t, k)
<1>1. CASE journal[k + 1].choice = t
  <2>1. RoundsOf(t, k + 1) = RoundsOf(t, k) \cup {k + 1} /\ k + 1 \notin RoundsOf(t, k)
    BY <1>1 DEF RoundsOf
  <2> QED BY <1>1, <2>1, CountType, FS_AddElement DEF Count
<1>2. CASE journal[k + 1].choice # t
  <2>1. RoundsOf(t, k + 1) = RoundsOf(t, k)
    BY <1>2 DEF RoundsOf
  <2> QED BY <1>2, <2>1 DEF Count
<1> QED BY <1>1, <1>2

LEMMA CountGrows ==
  ASSUME NEW k \in Nat, NEW l \in Nat, k <= l, NEW t
  PROVE  Count(t, k) <= Count(t, l)
<1>1. RoundsOf(t, k) \subseteq RoundsOf(t, l)
  BY DEF RoundsOf
<1> QED BY <1>1, CountType, FS_Subset DEF Count

(* The first n dispatches of a tool are n. *)
LEMMA Numbered ==
  ASSUME NEW t, NEW n \in Nat
  PROVE  LET S == {<<t, m>> : m \in 1 .. n} IN IsFiniteSet(S) /\ Cardinality(S) = n
<1> DEFINE S == {<<t, m>> : m \in 1 .. n}
           f == [m \in 1 .. n |-> <<t, m>>]
<1>1. f \in Bijection(1 .. n, S)
  <2>1. f \in [1 .. n -> S] /\ \A x \in S : \E m \in 1 .. n : f[m] = x
    OBVIOUS
  <2>2. \A m, k \in 1 .. n : f[m] = f[k] => m = k
    OBVIOUS
  <2> QED BY <2>1, <2>2 DEF Bijection, Injection, Surjection, IsInjective
<1>2. IsFiniteSet(1 .. n) /\ Cardinality(1 .. n) = n
  BY FS_Interval
<1> QED BY <1>1, <1>2, FS_Bijection DEF ExistsBijection

(* The next dispatch of a state that is about to execute is that of its round. *)
LEMMA DispatchOfRound ==
  ASSUME RInv, MaxRounds \in Nat, "detail" \notin Tools, TakenInv,
         pc # "down", st.next = "execute"
  PROVE  /\ st.pending \in Tools /\ st.round \in 1 .. Len(journal) /\ Len(journal) <= MaxRounds
         /\ journal[st.round].choice = st.pending
         /\ ThisDispatch = <<st.pending, Count(st.pending, st.round)>>
         /\ ThisDispatch \in Dispatches
         /\ Count(st.pending, st.round) = Count(st.pending, st.round - 1) + 1
         /\ Count(st.pending, st.round) <= Count(st.pending, Len(journal))
<1>1. /\ st \in Sound /\ ExactEvidence(st) /\ Len(journal) \in Nat /\ Len(journal) <= MaxRounds
      /\ st.round \in 1 .. Len(journal) /\ journal[st.round].choice \in Tools
  BY DEF RInv, TakenInv, Taking, JournalOK, Sound, AgentState, Agrees
<1>2. st.pending \in Tools /\ st.pending = journal[st.round].choice
  BY <1>1 DEF ExactEvidence
<1> DEFINE k == st.round - 1
           t == st.pending
<1>3. k \in Nat /\ k + 1 = st.round /\ k + 1 <= MaxRounds
  BY <1>1
<1>4. Count(t, st.round) = Count(t, k) + 1 /\ Count(t, k) \in Nat /\ Count(t, k) <= k
  <2> HIDE DEF k, t
  <2>1. Count(t, k + 1) = Count(t, k) + 1
    BY <1>2, <1>3, CountNext DEF t
  <2> QED BY <1>3, <2>1, CountType
<1>5. {d \in Dispatches : d[1] = t /\ InState(d)} = {<<t, m>> : m \in 1 .. Count(t, k)}
  <2>1. \A m \in Rounds : InState(<<t, m>>) <=> m <= Count(t, k)
    BY <1>1, <1>2 DEF ExactEvidence, HasEvidence, InState, Through
  <2>2. 1 .. Count(t, k) \subseteq Rounds
    BY <1>3, <1>4 DEF Rounds
  <2> HIDE DEF k, t
  <2>3. ASSUME NEW d \in Dispatches, d[1] = t, InState(d)
        PROVE  \E m \in 1 .. Count(t, k) : d = <<t, m>>
    <3>1. d = <<t, d[2]>> /\ d[2] \in Rounds
      BY <2>3 DEF Dispatches
    <3>2. d[2] <= Count(t, k) /\ d[2] \in 1 .. Count(t, k)
      BY <1>4, <2>1, <2>3, <3>1 DEF Rounds
    <3> QED BY <3>1, <3>2
  <2>4. ASSUME NEW m \in 1 .. Count(t, k)
        PROVE  <<t, m>> \in Dispatches /\ <<t, m>>[1] = t /\ InState(<<t, m>>)
    BY <1>2, <1>4, <2>1, <2>2 DEF Dispatches, t
  <2> QED BY <2>3, <2>4
<1>6. ThisDispatch = <<t, 1 + Count(t, k)>>
  <2> HIDE DEF k, t
  <2>1. Cardinality({d \in Dispatches : d[1] = t /\ InState(d)}) = Count(t, k)
    BY <1>4, <1>5, Numbered
  <2> QED BY <2>1 DEF ThisDispatch, t
<1>7. ThisDispatch = <<t, Count(t, st.round)>>
  BY <1>4, <1>6
<1>8. Count(t, st.round) \in Rounds
  BY <1>3, <1>4 DEF Rounds
<1>9. Count(t, st.round) <= Count(t, Len(journal))
  BY <1>1, CountGrows
<1> QED BY <1>1, <1>2, <1>4, <1>7, <1>8, <1>9 DEF Dispatches

(* The journal only grows: what was exact still is, unless it is past the
   decisions.                                                              *)
LEMMA TakingKept ==
  ASSUME UNCHANGED journal \/ (journal \in Seq(Entry) /\ ~Closed /\ \E e : journal' = Append(journal, e))
  PROVE  Taking \subseteq Taking'
<1>1. CASE UNCHANGED journal
  BY <1>1 DEF Taking, ExactEvidence, Closed, HasEvidence, Through, Count, RoundsOf
<1>2. CASE journal \in Seq(Entry) /\ ~Closed /\ \E e : journal' = Append(journal, e)
  <2>1. /\ Len(journal) \in Nat /\ Len(journal') = Len(journal) + 1
        /\ \A i \in 1 .. Len(journal) : journal'[i] = journal[i]
    BY <1>2
  <2>2. ASSUME NEW s \in Taking PROVE s \in Taking'
    <3>1. s \in GraphStates /\ ExactEvidence(s) /\ s.round \in Nat /\ s.round <= Len(journal)
          /\ s.next \notin Late
      BY <1>2, <2>2 DEF Taking, ExactEvidence, GraphStates
    <3>2. Through(s) \in Int /\ Through(s) <= Len(journal)
      BY <2>1, <3>1 DEF Through
    <3>3. \A t : Count(t, Through(s))' = Count(t, Through(s))
      <4>1. ASSUME NEW t PROVE RoundsOf(t, Through(s))' = RoundsOf(t, Through(s))
        <5>1. \A i \in 1 .. Through(s) : journal'[i] = journal[i]
          BY <2>1, <3>2
        <5>2. Through(s)' = Through(s)
          BY DEF Through
        <5> QED BY <5>1, <5>2 DEF RoundsOf
      <4> QED BY <4>1 DEF Count
    <3>4. s.next = "execute" => journal'[s.round] = journal[s.round]
      BY <2>1, <3>1 DEF ExactEvidence
    <3>5. ASSUME NEW t \in Tools, NEW n \in Rounds
          PROVE  HasEvidence(s, <<t, n>>) <=> n <= Count(t, Through(s))'
      BY <3>1, <3>3 DEF ExactEvidence
    <3>6. ExactEvidence(s)'
      <4>1. s.round <= Len(journal')
        BY <2>1, <3>1
      <4>2. s.next = "execute" => s.round # 0 /\ s.pending = journal'[s.round].choice
        BY <3>1, <3>4 DEF ExactEvidence
      <4>3. \A i, j \in 1 .. Len(s.evidence) : s.evidence[i] = s.evidence[j] => i = j
        BY <3>1 DEF ExactEvidence
      <4> QED BY <3>1, <3>5, <4>1, <4>2, <4>3 DEF ExactEvidence, HasEvidence
    <3> QED BY <3>1, <3>6 DEF Taking
  <2> QED BY <2>2
<1> QED BY <1>1, <1>2

LEMMA TakenStep ==
  ASSUME TakenInv, DispatchesFollow', Taking \subseteq Taking',
         pc' # "down" => st' \in Taking',
         saved' \in Taking' \cup {NoState},
         unsaved' = unsaved \/ \E s \in Taking' : unsaved' = Append(unsaved, s)
  PROVE  TakenInv'
<1>1. unsaved \in Seq(Taking')
  <2>1. Seq(Taking) \subseteq Seq(Taking')
    OBVIOUS
  <2> QED BY <2>1 DEF TakenInv
<1>2. unsaved' \in Seq(Taking')
  BY <1>1
<1> QED BY <1>2 DEF TakenInv

(* The process goes on, without a decision: its state changes to an exact
   one, or the dispatches do.                                              *)
LEMMA TakenGoesOn ==
  ASSUME TakenInv, UNCHANGED <<journal, saved>>, DispatchesFollow', pc # "down",
         UNCHANGED <<st, unsaved>> \/ \E s \in Taking : Return(s)
  PROVE  TakenInv'
<1>1. Taking \subseteq Taking'
  BY TakingKept
<1>2. st' \in Taking' /\ saved' \in Taking' \cup {NoState}
  BY <1>1 DEF TakenInv, Return
<1>3. unsaved' = unsaved \/ \E s \in Taking' : unsaved' = Append(unsaved, s)
  BY <1>1 DEF Return
<1> QED BY <1>1, <1>2, <1>3, TakenStep

(* Evidence that is taken is there then, once, with what was there before. *)
LEMMA TakeOnce ==
  ASSUME st \in Taking, NEW id \in Dispatches \cup {Detail}
  PROVE  /\ Take(id) \in Seq(Dispatches \cup {Detail})
         /\ \A i, j \in 1 .. Len(Take(id)) : Take(id)[i] = Take(id)[j] => i = j
         /\ \A x : (\E i \in 1 .. Len(Take(id)) : Take(id)[i] = x) <=> InState(x) \/ x = id
<1>1. /\ st.evidence \in Seq(Dispatches \cup {Detail})
      /\ \A i, j \in 1 .. Len(st.evidence) : st.evidence[i] = st.evidence[j] => i = j
  BY DEF Taking, GraphStates, ExactEvidence
<1>2. CASE InState(id)
  BY <1>1, <1>2 DEF Take, InState
<1>3. CASE ~InState(id)
  <2>1. Take(id) = Append(st.evidence, id)
    BY <1>3 DEF Take
  <2>2. /\ Take(id) \in Seq(Dispatches \cup {Detail})
        /\ Len(Take(id)) = Len(st.evidence) + 1 /\ Len(st.evidence) \in Nat
        /\ \A i \in 1 .. Len(st.evidence) : Take(id)[i] = st.evidence[i]
        /\ Take(id)[Len(st.evidence) + 1] = id
    BY <1>1, <2>1
  <2>3. \A i \in 1 .. Len(Take(id)) : i \in 1 .. Len(st.evidence) \/ i = Len(st.evidence) + 1
    BY <2>2
  <2>4. \A i \in 1 .. Len(st.evidence) : i \in 1 .. Len(Take(id)) /\ Take(id)[i] # id
    BY <1>3, <2>2 DEF InState
  <2>5. Len(st.evidence) + 1 \in 1 .. Len(Take(id))
    BY <2>2
  <2>6. \A i, j \in 1 .. Len(Take(id)) : Take(id)[i] = Take(id)[j] => i = j
    BY <1>1, <2>2, <2>3, <2>4
  <2>7. \A x : (\E i \in 1 .. Len(Take(id)) : Take(id)[i] = x) <=> InState(x) \/ x = id
    BY <2>2, <2>3, <2>4, <2>5 DEF InState
  <2> QED BY <2>2, <2>6, <2>7
<1> QED BY <1>2, <1>3

(* A state with the evidence and the round of another one. *)
LEMMA SameRounds ==
  ASSUME st \in Taking, NEW s \in GraphStates, s.evidence = st.evidence, s.round = st.round,
         s.next # "execute", st.next # "execute",
         s.next \in Late => st.round = Len(journal) /\ Closed
  PROVE  s \in Taking
<1>1. Through(s) = Through(st)
  BY DEF Through
<1>2. \A t, n : HasEvidence(s, <<t, n>>) <=> HasEvidence(st, <<t, n>>)
  BY DEF HasEvidence
<1> QED BY <1>1, <1>2 DEF Taking, ExactEvidence

LEMMA EnrichTaken ==
  ASSUME RInv, TakenInv, "detail" \notin Tools,
         EnrichReplay \/ EnrichClear \/ EnrichFails \/ EnrichUpdate \/ EnrichSave
         \/ MatchKnowledge
  PROVE  TakenInv'
<1>1. /\ pc # "down" /\ st \in Taking /\ st \in GraphStates
      /\ st.next \in Early /\ UNCHANGED <<journal, saved, dispatch>>
  BY DEF EnrichReplay, EnrichClear, EnrichFails, EnrichUpdate, EnrichSave, MatchKnowledge, At,
         RInv, Placed, TakenInv, Taking, durable, Early
<1>2. DispatchesFollow'
  <2>1. records' = records \/ records' = records \cup {Detail}
    BY DEF EnrichReplay, EnrichClear, EnrichFails, EnrichUpdate, EnrichSave, MatchKnowledge,
           durable
  <2>2. Detail \notin Dispatches
    BY DEF Detail, Dispatches
  <2> QED BY <1>1, <2>1, <2>2 DEF TakenInv, DispatchesFollow, Dispatches, Rounds, Count, RoundsOf
<1>3. CASE EnrichClear \/ EnrichFails \/ EnrichUpdate
  <2>1. UNCHANGED <<st, unsaved>>
    BY <1>3 DEF EnrichClear, EnrichFails, EnrichUpdate, Within, Raise
  <2> QED BY <1>1, <1>2, <2>1, TakenGoesOn
<1>4. CASE EnrichReplay \/ EnrichSave
  <2> DEFINE e == Take(Detail)
             s == [st EXCEPT !.next = "knowledge", !.evidence = e]
  <2>1. Return(s)
    BY <1>4 DEF EnrichReplay, EnrichSave
  <2>2. /\ e \in Seq(Dispatches \cup {Detail})
        /\ \A i, j \in 1 .. Len(e) : e[i] = e[j] => i = j
        /\ \A x : (\E i \in 1 .. Len(e) : e[i] = x) <=> InState(x) \/ x = Detail
    BY <1>1, TakeOnce
  <2> HIDE DEF e
  <2>3. s \in GraphStates /\ s.next = "knowledge" /\ s.round = st.round /\ s.evidence = e
    BY <1>1, <2>2 DEF GraphStates, Nodes, Early
  <2>4. Through(s) = Through(st)
    BY <1>1, <2>3 DEF Through, Early
  <2>5. ASSUME NEW t \in Tools, NEW n \in Rounds
        PROVE  HasEvidence(s, <<t, n>>) <=> n <= Count(t, Through(s))
    <3>1. <<t, n>> # Detail
      BY DEF Detail
    <3>2. HasEvidence(s, <<t, n>>) <=> HasEvidence(st, <<t, n>>)
      BY <2>2, <2>3, <3>1 DEF HasEvidence, InState
    <3> QED BY <1>1, <2>4, <3>2 DEF Taking, ExactEvidence
  <2>6. s \in Taking
    BY <1>1, <2>2, <2>3, <2>5 DEF Taking, ExactEvidence, Late
  <2> HIDE DEF s
  <2> QED BY <1>1, <1>2, <2>1, <2>6, TakenGoesOn
<1>5. CASE MatchKnowledge
  <2> DEFINE s == [st EXCEPT !.next = "decide"]
  <2>1. Return(s)
    BY <1>5 DEF MatchKnowledge
  <2>2. /\ s \in GraphStates /\ s.next = "decide" /\ s.round = st.round
        /\ s.evidence = st.evidence
    BY <1>1 DEF GraphStates, Nodes
  <2>3. s \in Taking
    BY <1>1, <2>2, SameRounds DEF Early, Late
  <2> HIDE DEF s
  <2> QED BY <1>1, <1>2, <2>1, <2>3, TakenGoesOn
<1> QED BY <1>3, <1>4, <1>5

LEMMA SameDispatches ==
  ASSUME DispatchesFollow, UNCHANGED <<journal, dispatch, records>>
  PROVE  DispatchesFollow'
  BY DEF DispatchesFollow, Dispatches, Rounds, Count, RoundsOf

(* A decision, from the journal or new. *)
LEMMA DecideTaken ==
  ASSUME RInv, MaxRounds \in Nat, Distinct, TakenInv,
         RoundLimit \/ Replay \/ Ask \/ Record \/ ToolUnavailable
  PROVE  TakenInv'
<1>1. /\ pc # "down" /\ st \in Taking /\ st \in GraphStates /\ st \in Sound
      /\ st.next = "decide" /\ UNCHANGED <<saved, dispatch, records>>
      /\ st.round \in 0 .. Len(journal) /\ Len(journal) \in Nat /\ Len(journal) <= MaxRounds
      /\ journal \in Seq(Entry)
  <2>1. /\ pc # "down" /\ st.next = "decide" /\ UNCHANGED <<saved, dispatch, records>>
    BY DEF RoundLimit, Replay, Ask, Record, ToolUnavailable, At, RInv, Placed, durable
  <2> QED BY <2>1, RoundsAreSound DEF RInv, JournalOK, TakenInv, Taking
<1>2. CASE Ask \/ ToolUnavailable
  <2>1. UNCHANGED <<st, unsaved, journal>>
    BY <1>2 DEF Ask, ToolUnavailable, Within, Raise, durable
  <2> QED BY <1>1, <2>1, SameDispatches, TakenGoesOn DEF TakenInv
<1>3. CASE RoundLimit
  <2> DEFINE s == [st EXCEPT !.next = "advise"]
  <2>1. st.round >= MaxRounds /\ Return(s) /\ UNCHANGED journal
    BY <1>3 DEF RoundLimit, durable
  <2>2. /\ s \in GraphStates /\ s.next = "advise" /\ s.round = st.round
        /\ s.evidence = st.evidence
    BY <1>1 DEF GraphStates, Nodes, Late
  <2>3. st.round = Len(journal) /\ Closed
    BY <1>1, <2>1 DEF Closed
  <2>4. s \in Taking
    BY <1>1, <2>2, <2>3, SameRounds
  <2> HIDE DEF s
  <2> QED BY <1>1, <2>1, <2>4, SameDispatches, TakenGoesOn DEF TakenInv
<1>4. CASE Replay
  <2> DEFINE k == st.round + 1
             e == journal[k]
             p == IF e.choice \in Tools THEN e.choice ELSE "none"
             f == IF e.failure # "none" THEN e.failure ELSE st.failure
             x == IF e.choice \in Tools THEN "execute" ELSE "advise"
             s == [st EXCEPT !.round = k, !.pending = p, !.failure = f, !.next = x]
  <2>1. k \in 1 .. Len(journal) /\ Newest(DecisionsOfNext) = e /\ UNCHANGED journal
    BY <1>1, <1>4, DecisionsAre DEF Replay, durable
  <2>2. Return(s)
    <3>1. Adopt(e.choice, e.failure)
      BY <1>4, <2>1 DEF Replay
    <3> QED BY <3>1 DEF Adopt
  <2>3. e \in Entry /\ k \in Nat
    BY <1>1, <2>1
  <2>4. s \in GraphStates /\ s.next = x /\ s.round = k /\ s.pending = p /\ s.evidence = st.evidence
    <3>1. p \in Tools \cup {"none"} /\ f \in Failures /\ x \in Nodes
      BY <1>1, <2>3 DEF Entry, GraphStates, Nodes, Late
    <3> HIDE DEF p, f, x, k
    <3> QED BY <1>1, <2>3, <3>1 DEF GraphStates
  <2>5. Through(st) = st.round /\ st.round \in Nat /\ st.round + 1 = k
    BY <1>1 DEF Through, GraphStates
  <2>6. ASSUME NEW t \in Tools
        PROVE  Count(t, Through(s)) = Count(t, st.round)
    <3>1. CASE e.choice \in Tools
      <4>1. Through(s) = st.round
        BY <2>4, <2>5, <3>1 DEF Through
      <4> QED BY <4>1
    <3>2. CASE e.choice \notin Tools
      <4>1. Through(s) = st.round + 1
        BY <2>4, <3>2 DEF Through
      <4>2. journal[st.round + 1].choice # t
        BY <3>2
      <4> QED BY <2>5, <4>1, <4>2, CountNext
    <3> QED BY <3>1, <3>2
  <2>7. ASSUME NEW t \in Tools, NEW n \in Rounds
        PROVE  HasEvidence(s, <<t, n>>) <=> n <= Count(t, Through(s))
    <3> HIDE DEF s, k
    <3>1. HasEvidence(s, <<t, n>>) <=> HasEvidence(st, <<t, n>>)
      BY <2>4 DEF HasEvidence
    <3>2. HasEvidence(st, <<t, n>>) <=> n <= Count(t, Through(st))
      BY <1>1 DEF Taking, ExactEvidence
    <3> QED BY <2>5, <2>6, <3>1, <3>2
  <2>8. s.next \in Late => s.round = Len(journal) /\ Closed
    <3>1. s.next \in Late => e.choice \notin Tools
      BY <2>4 DEF Late
    <3>2. k < Len(journal) => e.choice \in Tools
      BY <2>1 DEF RInv, JournalOK
    <3> QED BY <1>1, <2>1, <2>4, <3>1, <3>2 DEF Closed
  <2>9. s.next = "execute" => s.round # 0 /\ s.pending = journal[s.round].choice
    <3>1. s.next = "execute" => e.choice \in Tools
      BY <2>4
    <3>2. e.choice \in Tools => s.pending = e.choice
      BY <2>4
    <3> HIDE DEF s
    <3> QED BY <2>1, <2>4, <3>1, <3>2
  <2>10. s.round <= Len(journal)
    BY <2>1, <2>4
  <2>11. s \in Taking
    <3>1. \A i, j \in 1 .. Len(s.evidence) : s.evidence[i] = s.evidence[j] => i = j
      BY <1>1, <2>4 DEF Taking, ExactEvidence
    <3> HIDE DEF s
    <3> QED BY <2>4, <2>7, <2>8, <2>9, <2>10, <3>1 DEF Taking, ExactEvidence
  <2> HIDE DEF s
  <2> QED BY <1>1, <2>1, <2>2, <2>11, SameDispatches, TakenGoesOn DEF TakenInv
<1>5. CASE Record
  <2> DEFINE e == Event(draft)
  <2>1. /\ st.round = Len(journal) /\ st.round < MaxRounds /\ UNCHANGED <<st, unsaved>>
        /\ journal' = Append(journal, e)
    BY <1>5 DEF Record, At, RInv, Placed, Within
  <2>2. ~Closed
    <3>1. st.round = 0 \/ journal[st.round].choice \in Tools
      BY <1>1 DEF Sound, Agrees
    <3> QED BY <1>1, <2>1, <3>1 DEF Closed
  <2> HIDE DEF e
  <2>3. Taking \subseteq Taking'
    BY <1>1, <2>1, <2>2, TakingKept
  <2>4. DispatchesFollow'
    <3>1. ASSUME NEW t PROVE Count(t, Len(journal)) <= Count(t, Len(journal))'
      <4>1. RoundsOf(t, Len(journal)) \subseteq RoundsOf(t, Len(journal))'
        BY <1>1, <2>1 DEF RoundsOf
      <4>2. IsFiniteSet(RoundsOf(t, Len(journal))')
        <5>1. Len(journal') \in Nat
          BY <1>1, <2>1
        <5>2. IsFiniteSet(1 .. Len(journal'))
          BY <5>1, FS_Interval
        <5>3. RoundsOf(t, Len(journal))' \subseteq 1 .. Len(journal')
          BY DEF RoundsOf
        <5> QED BY <5>2, <5>3, FS_Subset
      <4> QED BY <4>1, <4>2, FS_Subset DEF Count
    <3>2. ASSUME NEW t PROVE Count(t, Len(journal)) \in Nat /\ Count(t, Len(journal))' \in Nat
      <4>1. IsFiniteSet(RoundsOf(t, Len(journal))')
        <5>1. Len(journal') \in Nat
          BY <1>1, <2>1
        <5>2. IsFiniteSet(1 .. Len(journal'))
          BY <5>1, FS_Interval
        <5>3. RoundsOf(t, Len(journal))' \subseteq 1 .. Len(journal')
          BY DEF RoundsOf
        <5> QED BY <5>2, <5>3, FS_Subset
      <4> QED BY <1>1, <4>1, CountType, FS_CardinalityType DEF Count
    <3>3. ASSUME NEW t \in Tools, NEW n \in Rounds, dispatch'[<<t, n>>] # "absent"
          PROVE  n <= Count(t, Len(journal))'
      <4>1. n <= Count(t, Len(journal)) /\ n \in Nat
        BY <1>1, <3>3 DEF TakenInv, DispatchesFollow, Rounds
      <4> QED BY <3>1, <3>2, <4>1
    <3> QED BY <1>1, <3>3 DEF TakenInv, DispatchesFollow, Dispatches, Rounds
  <2>5. st' \in Taking' /\ saved' \in Taking' \cup {NoState}
    BY <1>1, <2>1, <2>3 DEF TakenInv
  <2> QED BY <2>1, <2>3, <2>4, <2>5, TakenStep
<1> QED BY <1>2, <1>3, <1>4, <1>5

(* A tool call, from its dispatch to its observation. *)
LEMMA ToolTaken ==
  ASSUME RInv, MaxRounds \in Nat, "detail" \notin Tools, TakenInv,
         StartTool \/ AnswerTool \/ RecoverTool \/ SaveEvidence \/ Observe
  PROVE  TakenInv'
<1>1. /\ pc # "down" /\ st \in Taking /\ st \in GraphStates /\ ExactEvidence(st)
      /\ st.next = "execute" /\ UNCHANGED <<saved, journal>>
      /\ dispatch \in [Dispatches -> {"absent", "started", "ok", "failed", "unknown"}]
  <2>1. /\ pc # "down" /\ st.next = "execute" /\ UNCHANGED <<saved, journal>>
    BY DEF StartTool, AnswerTool, RecoverTool, SaveEvidence, Observe, At, RInv, Placed, durable
  <2> QED BY <2>1 DEF RInv, TakenInv, Taking
<1> DEFINE p == st.pending
           k == st.round - 1
           m == Count(p, st.round)
           this == ThisDispatch
<1>2. /\ p \in Tools /\ k \in Nat /\ k + 1 = st.round /\ st.round <= Len(journal)
      /\ journal[k + 1].choice = p
      /\ this = <<p, m>> /\ this \in Dispatches
      /\ m = Count(p, k) + 1 /\ m <= Count(p, Len(journal))
  BY DispatchOfRound, <1>1
<1> HIDE DEF k, m, p, this
<1>3. CASE StartTool \/ AnswerTool \/ RecoverTool
  <2>1. PICK r \in {"started", "ok", "failed", "unknown"} :
          dispatch' = [dispatch EXCEPT ![this] = r]
    BY <1>3 DEF StartTool, AnswerTool, RecoverTool, this
  <2>2. UNCHANGED <<st, unsaved, records>>
    BY <1>3 DEF StartTool, AnswerTool, RecoverTool, Within
  <2>3. \A d \in Dispatches : dispatch[d] # "absent" => dispatch'[d] # "absent"
    BY <1>1, <2>1
  <2>4. ASSUME NEW t \in Tools, NEW n \in Rounds, dispatch'[<<t, n>>] # "absent"
        PROVE  n <= Count(t, Len(journal))
    <3>1. <<t, n>> \in Dispatches
      BY DEF Dispatches
    <3>2. CASE <<t, n>> = this
      BY <1>2, <3>2
    <3>3. CASE <<t, n>> # this
      <4>1. dispatch[<<t, n>>] # "absent"
        BY <1>1, <2>1, <2>4, <3>1, <3>3
      <4> QED BY <4>1 DEF TakenInv, DispatchesFollow
    <3> QED BY <3>2, <3>3
  <2>5. DispatchesFollow'
    BY <1>1, <2>2, <2>3, <2>4
       DEF TakenInv, DispatchesFollow, Dispatches, Rounds, Count, RoundsOf
  <2> QED BY <1>1, <2>2, <2>5, TakenGoesOn
<1>4. CASE SaveEvidence
  <2>1. /\ dispatch[this] # "absent" /\ records' = records \cup {this}
        /\ UNCHANGED <<st, unsaved, dispatch>>
    BY <1>4 DEF SaveEvidence, Within, Terminal, this
  <2>2. DispatchesFollow'
    BY <1>1, <1>2, <2>1
       DEF TakenInv, DispatchesFollow, Dispatches, Rounds, Count, RoundsOf
  <2> QED BY <1>1, <2>1, <2>2, TakenGoesOn
<1>5. CASE Observe
  <2> DEFINE e == Take(this)
             s == [st EXCEPT !.next = "decide", !.pending = "none", !.evidence = e]
  <2>1. Return(s) /\ UNCHANGED <<dispatch, records>>
    BY <1>5 DEF Observe, durable, this
  <2>2. /\ e \in Seq(Dispatches \cup {Detail})
        /\ \A i, j \in 1 .. Len(e) : e[i] = e[j] => i = j
        /\ \A x : (\E i \in 1 .. Len(e) : e[i] = x) <=> InState(x) \/ x = this
    <3>1. st \in Taking /\ this \in Dispatches \cup {Detail}
      BY <1>1, <1>2
    <3>2. /\ Take(this) \in Seq(Dispatches \cup {Detail})
          /\ \A i, j \in 1 .. Len(Take(this)) : Take(this)[i] = Take(this)[j] => i = j
          /\ \A x : (\E i \in 1 .. Len(Take(this)) : Take(this)[i] = x) <=> InState(x) \/ x = this
      BY <3>1, TakeOnce
    <3> QED BY <3>2
  <2> HIDE DEF e
  <2>3. s \in GraphStates /\ s.next = "decide" /\ s.round = st.round /\ s.evidence = e
    BY <1>1, <2>2 DEF GraphStates, Nodes
  <2>4. Through(s) = k + 1 /\ Through(st) = k
    BY <1>1, <1>2, <2>3 DEF Through, k
  <2> HIDE DEF s
  <2>5. ASSUME NEW t \in Tools, NEW n \in Rounds
        PROVE  HasEvidence(s, <<t, n>>) <=> n <= Count(t, Through(s))
    <3>1. HasEvidence(s, <<t, n>>) <=> HasEvidence(st, <<t, n>>) \/ <<t, n>> = this
      BY <2>2, <2>3 DEF HasEvidence, InState
    <3>2. HasEvidence(st, <<t, n>>) <=> n <= Count(t, k)
      BY <1>1, <2>4 DEF ExactEvidence
    <3>3. n \in Nat /\ Count(t, k) \in Nat
      BY <1>2, CountType DEF Rounds
    <3>4. CASE t = p
      <4>1. <<t, n>> = this <=> n = m
        BY <1>2, <3>4
      <4>2. Count(t, k + 1) = m
        BY <1>2, <3>4 DEF m
      <4> QED BY <1>2, <2>4, <3>1, <3>2, <3>3, <3>4, <4>1, <4>2
    <3>5. CASE t # p
      <4>1. <<t, n>> # this
        BY <1>2, <3>5
      <4>2. Count(t, k + 1) = Count(t, k)
        BY <1>2, <3>5, CountNext
      <4> QED BY <2>4, <3>1, <3>2, <4>1, <4>2
    <3> QED BY <3>4, <3>5
  <2>6. s \in Taking
    BY <1>1, <2>2, <2>3, <2>5 DEF Taking, ExactEvidence, Late
  <2> QED BY <1>1, <2>1, <2>6, SameDispatches, TakenGoesOn DEF TakenInv
<1> QED BY <1>3, <1>4, <1>5

(* From the final analysis on the state keeps the evidence and the round. *)
LEMMA AnalysisTaken ==
  ASSUME TakenInv, RInv,
         Advise \/ AdviseFails \/ Validate \/ Report \/ EnrichFails \/ Finalize
  PROVE  TakenInv'
<1>1. /\ pc # "down" /\ st \in Taking /\ st \in GraphStates /\ ExactEvidence(st)
      /\ UNCHANGED <<saved, journal, dispatch, records>>
  <2>1. pc # "down" /\ UNCHANGED <<saved, journal, dispatch, records>>
    BY DEF Advise, AdviseFails, Validate, Report, EnrichFails, Finalize, At, durable
  <2> QED BY <2>1 DEF TakenInv, Taking
<1>2. DispatchesFollow'
  BY <1>1, SameDispatches DEF TakenInv
<1>3. CASE EnrichFails \/ Finalize
  <2>1. UNCHANGED <<st, unsaved>>
    BY <1>3 DEF EnrichFails, Finalize, Raise
  <2> QED BY <1>1, <1>2, <2>1, TakenGoesOn
<1>4. ASSUME NEW s \in GraphStates, Return(s), s.evidence = st.evidence, s.round = st.round,
             s.next \in Late, st.next \in Late
      PROVE  TakenInv'
  <2>1. s \in Taking
    <3>1. st.round = Len(journal) /\ Closed /\ s.next # "execute" /\ st.next # "execute"
      BY <1>1, <1>4 DEF ExactEvidence, Late
    <3> QED BY <1>1, <1>4, <3>1, SameRounds
  <2> QED BY <1>1, <1>2, <1>4, <2>1, TakenGoesOn
<1>5. CASE Advise
  <2>1. PICK refs : Return([st EXCEPT !.next = "validate", !.cited = Qualified(refs)])
    BY <1>5 DEF Advise
  <2> DEFINE s == [st EXCEPT !.next = "validate", !.cited = Qualified(refs)]
  <2>2. /\ s \in GraphStates /\ s.evidence = st.evidence /\ s.round = st.round
        /\ s.next \in Late /\ st.next \in Late
    BY <1>1, <1>5 DEF GraphStates, Nodes, Late, Qualified, Advise, At
  <2> QED BY <1>4, <2>1, <2>2
<1>6. CASE AdviseFails
  <2>1. PICK f \in Failures, b \in BOOLEAN :
          Return([st EXCEPT !.failure = f, !.degraded = b, !.error = ~b, !.next = "validate"])
    BY <1>1, <1>6 DEF AdviseFails, GraphStates
  <2> DEFINE s == [st EXCEPT !.failure = f, !.degraded = b, !.error = ~b, !.next = "validate"]
  <2>2. /\ s \in GraphStates /\ s.evidence = st.evidence /\ s.round = st.round
        /\ s.next \in Late /\ st.next \in Late
    BY <1>1, <1>6 DEF GraphStates, Nodes, Late, AdviseFails, At
  <2> QED BY <1>4, <2>1, <2>2
<1>7. CASE Validate
  <2>1. PICK v \in {"FAILED", "COMPLETED", "INCONCLUSIVE"} :
          Return([st EXCEPT !.next = "report", !.verdict = v])
    BY <1>7 DEF Validate
  <2> DEFINE s == [st EXCEPT !.next = "report", !.verdict = v]
  <2>2. /\ s \in GraphStates /\ s.evidence = st.evidence /\ s.round = st.round
        /\ s.next \in Late /\ st.next \in Late
    BY <1>1, <1>7 DEF GraphStates, Nodes, Late, Validate, At
  <2> QED BY <1>4, <2>1, <2>2
<1>8. CASE Report
  <2> DEFINE c == IF st.verdict = "COMPLETED" THEN st.cited ELSE {}
             s == [st EXCEPT !.next = "end", !.cited = c]
  <2>1. Return(s)
    BY <1>8 DEF Report
  <2>2. /\ s \in GraphStates /\ s.evidence = st.evidence /\ s.round = st.round
        /\ s.next \in Late /\ st.next \in Late
    BY <1>1, <1>8 DEF GraphStates, Nodes, Late, Report, At
  <2> QED BY <1>4, <2>1, <2>2
<1> QED BY <1>3, <1>5, <1>6, <1>7, <1>8

(* A run starts with a state of no round. *)
LEMMA FreshTaken ==
  ASSUME Len(journal) \in Nat
  PROVE  Fresh \in Taking
<1>1. Fresh \in GraphStates
  BY DEF Fresh, GraphStates, Nodes, Early, Failures
<1>2. Fresh.evidence = <<>> /\ Fresh.round = 0 /\ Fresh.next = "enrich"
  BY DEF Fresh
<1>3. \A t : Count(t, 0) = 0
  <2>1. \A t : RoundsOf(t, 0) = {}
    BY DEF RoundsOf
  <2> QED BY <2>1, FS_EmptySet DEF Count
<1>4. ASSUME NEW t \in Tools, NEW n \in Rounds
      PROVE  HasEvidence(Fresh, <<t, n>>) <=> n <= Count(t, Through(Fresh))
  <2>1. Through(Fresh) = 0
    BY <1>2 DEF Through
  <2>2. ~HasEvidence(Fresh, <<t, n>>)
    BY <1>2 DEF HasEvidence
  <2>3. ~(n <= 0)
    BY DEF Rounds
  <2> QED BY <1>3, <2>1, <2>2, <2>3
<1>5. \A i, j \in 1 .. Len(Fresh.evidence) : Fresh.evidence[i] = Fresh.evidence[j] => i = j
  BY <1>2
<1> QED BY <1>1, <1>2, <1>4, <1>5 DEF Taking, ExactEvidence, Late

(* A checkpoint is stored, or the process is lost and the next one resumes. *)
LEMMA RestTaken ==
  ASSUME TakenInv, RInv, StoreCheckpoint \/ Crash \/ Resume \/ UNCHANGED vars
  PROVE  TakenInv'
<1>1. UNCHANGED <<journal, dispatch, records>>
  BY DEF StoreCheckpoint, Crash, Resume, vars, durable
<1>2. DispatchesFollow' /\ Taking' = Taking
  <2>1. Taking' = Taking
    BY <1>1 DEF Taking, ExactEvidence, Closed, HasEvidence, Through, Count, RoundsOf
  <2> QED BY <1>1, <2>1, SameDispatches DEF TakenInv
<1>3. Fresh \in Taking
  BY FreshTaken DEF RInv, JournalOK
<1>4. CASE StoreCheckpoint
  <2>1. Head(unsaved) \in Taking /\ Tail(unsaved) \in Seq(Taking)
    BY <1>4 DEF StoreCheckpoint, TakenInv
  <2> QED BY <1>2, <1>4, <2>1 DEF StoreCheckpoint, TakenInv
<1>5. CASE Crash
  BY <1>2, <1>5 DEF Crash, TakenInv, durable
<1>6. CASE Resume
  BY <1>2, <1>3, <1>6 DEF Resume, TakenInv, durable
<1>7. CASE UNCHANGED vars
  BY <1>2, <1>7 DEF vars, TakenInv, durable
<1> QED BY <1>4, <1>5, <1>6, <1>7

LEMMA InitTaken ==
  ASSUME Init, RInv, MaxRounds \in Nat
  PROVE  TakenInv
<1>1. /\ journal = <<>> /\ records = {} /\ dispatch = [d \in Dispatches |-> "absent"]
      /\ st = Fresh /\ unsaved = <<Fresh>> /\ saved = NoState
  BY DEF Init
<1>2. Fresh \in Taking
  BY <1>1, FreshTaken
<1>3. DispatchesFollow
  BY <1>1 DEF DispatchesFollow, Dispatches
<1> QED BY <1>1, <1>2, <1>3 DEF TakenInv

LEMMA TakenNext ==
  ASSUME RInv, TakenInv, MaxRounds \in Nat, Distinct, "detail" \notin Tools, [Next]_vars
  PROVE  TakenInv'
BY EnrichTaken, DecideTaken, ToolTaken, AnalysisTaken, RestTaken DEF Next, Work

(* Whatever checkpoints a crash lost: one decision for every round, one
   dispatch for the tool of every decision, and its evidence once in the
   state the final analysis sees.                                          *)
THEOREM SpecRoundsAreTakenOver ==
  ASSUME MaxRounds \in Nat, Distinct, "detail" \notin Tools
  PROVE  Spec => []RoundsAreTakenOver
<1>1. RInv /\ TakenInv => RoundsAreTakenOver
  <2> SUFFICES ASSUME RInv, TakenInv
               PROVE  RoundsAreTakenOver
    OBVIOUS
  <2>1. \A i \in 1 .. Len(journal) : journal[i].round = i
    BY DEF RInv, JournalOK
  <2>2. ASSUME pc # "down", st.next \in Late
        PROVE  /\ \A i, j \in 1 .. Len(st.evidence) : st.evidence[i] = st.evidence[j] => i = j
               /\ {st.evidence[i] : i \in 1 .. Len(st.evidence)} \ {Detail}
                    = {d \in Dispatches : dispatch[d] # "absent"}
               /\ \A t \in Tools :
                    Cardinality({d \in Dispatches : d[1] = t /\ dispatch[d] # "absent"})
                      = Cardinality({i \in ToolRounds : journal[i].choice = t})
    <3>1. /\ st \in GraphStates /\ ExactEvidence(st) /\ st.round = Len(journal) /\ Through(st) = Len(journal)
          /\ Len(journal) \in Nat /\ Len(journal) <= MaxRounds
          /\ st.evidence \in Seq(records)
      BY <2>2 DEF TakenInv, Taking, ExactEvidence, Late, Through, RInv, JournalOK, Sound, AgentState
    <3>2. \A d \in Dispatches : dispatch[d] # "absent" <=> HasEvidence(st, d)
      <4>1. ASSUME NEW t \in Tools, NEW n \in Rounds
            PROVE  dispatch[<<t, n>>] # "absent" <=> HasEvidence(st, <<t, n>>)
        <5>1. <<t, n>> \in Dispatches
          BY DEF Dispatches
        <5>2. dispatch[<<t, n>>] # "absent" => HasEvidence(st, <<t, n>>)
          BY <3>1 DEF TakenInv, DispatchesFollow, ExactEvidence
        <5>3. HasEvidence(st, <<t, n>>) => <<t, n>> \in records
          BY <3>1 DEF HasEvidence
        <5> QED BY <5>1, <5>2, <5>3 DEF TakenInv, DispatchesFollow
      <4> QED BY <4>1 DEF Dispatches
    <3>3. Detail \notin Dispatches
      BY DEF Detail, Dispatches
    <3>4. {st.evidence[i] : i \in 1 .. Len(st.evidence)} \ {Detail}
            = {d \in Dispatches : dispatch[d] # "absent"}
      <4>1. \A i \in 1 .. Len(st.evidence) : st.evidence[i] \in Dispatches \cup {Detail}
        BY <3>1 DEF GraphStates
      <4> QED BY <3>2, <3>3, <4>1 DEF HasEvidence
    <3>5. ASSUME NEW t \in Tools
          PROVE  Cardinality({d \in Dispatches : d[1] = t /\ dispatch[d] # "absent"})
                   = Cardinality({i \in ToolRounds : journal[i].choice = t})
      <4> DEFINE c == Count(t, Len(journal))
      <4>1. c \in Nat /\ c <= MaxRounds
        BY <3>1, CountType
      <4>2. {i \in ToolRounds : journal[i].choice = t} = RoundsOf(t, Len(journal))
        BY DEF ToolRounds, RoundsOf
      <4>3. \A n \in Rounds : dispatch[<<t, n>>] # "absent" <=> n <= c
        BY <3>1, <3>2 DEF ExactEvidence, Dispatches
      <4> HIDE DEF c
      <4>4. ASSUME NEW d \in Dispatches, d[1] = t, dispatch[d] # "absent"
            PROVE  \E m \in 1 .. c : d = <<t, m>>
        <5>1. d = <<t, d[2]>> /\ d[2] \in Rounds
          BY <4>4 DEF Dispatches
        <5>2. d[2] \in 1 .. c
          BY <4>1, <4>3, <4>4, <5>1 DEF Rounds
        <5> QED BY <5>1, <5>2
      <4>5. ASSUME NEW m \in 1 .. c
            PROVE  <<t, m>> \in Dispatches /\ <<t, m>>[1] = t /\ dispatch[<<t, m>>] # "absent"
        BY <4>1, <4>3 DEF Dispatches, Rounds
      <4>6. {d \in Dispatches : d[1] = t /\ dispatch[d] # "absent"} = {<<t, m>> : m \in 1 .. c}
        BY <4>4, <4>5
      <4>7. Cardinality({<<t, m>> : m \in 1 .. c}) = c
        BY <4>1, Numbered
      <4>8. c = Cardinality(RoundsOf(t, Len(journal)))
        BY DEF c, Count
      <4> QED BY <4>2, <4>6, <4>7, <4>8
    <3> QED BY <3>1, <3>4, <3>5 DEF ExactEvidence
  <2> QED BY <2>1, <2>2 DEF RoundsAreTakenOver, Late
<1>2. Init => RInv /\ TakenInv
  BY InitInv, InitTaken
<1>3. RInv /\ TakenInv /\ [Next]_vars => (RInv /\ TakenInv)'
  BY NextInv, TakenNext
<1> QED BY <1>1, <1>2, <1>3, PTL DEF Spec

-----------------------------------------------------------------------------
(* An alert has at most one worker, for every number of alerts and workers *)
(* and however often it is enqueued.                                       *)
(*                                                                         *)
(* _queued is the whole of what the scheduler has in hand: an id is in the *)
(* queue once (InQueueOnce), or with one worker (InHandOnce), never both.  *)

WorkerPlaces == {"get", "admit", "analyze", "claim", "run", "settled", "paused", "leased", "failed"}

SchedulerTyped ==
  /\ queue \in Seq(Alerts) /\ calls \subseteq Alerts
  /\ worker \in [Workers -> [pc : WorkerPlaces, alert : Alerts \cup {"none"}]]

InQueueOnce ==
  /\ \A i \in 1 .. Len(queue) : queue[i] \in queued
  /\ \A i, j \in 1 .. Len(queue) : queue[i] = queue[j] => i = j

InHandOnce ==
  \A w \in Workers : ~WorkerAt(w, "get") =>
    /\ worker[w].alert \in queued
    /\ \A i \in 1 .. Len(queue) : queue[i] # worker[w].alert

SchedulerInv == SchedulerTyped /\ InQueueOnce /\ InHandOnce /\ OneWorkerPerAlert

(* A worker moves on, with the alert it has. *)
Moves ==
  \E w \in Workers, place \in WorkerPlaces \ {"get"} : ~WorkerAt(w, "get") /\ Goes(w, place)

LEMMA SchedulerInitInv == MemoryInit => SchedulerInv
BY DEF MemoryInit, SchedulerInv, SchedulerTyped, InQueueOnce, InHandOnce, OneWorkerPerAlert, WorkerAt, Waiting, WorkerPlaces

(* Whatever the scheduler does not have in hand, this step does not give it. *)
LEMMA AsideInv ==
  ASSUME SchedulerInv, UNCHANGED <<queue, queued>>, calls' \subseteq Alerts,
         UNCHANGED worker \/ Moves
  PROVE  SchedulerInv'
<1>1. CASE UNCHANGED worker
  BY <1>1 DEF SchedulerInv, SchedulerTyped, InQueueOnce, InHandOnce, OneWorkerPerAlert, WorkerAt
<1>2. CASE Moves
  <2>1. PICK w \in Workers, place \in WorkerPlaces \ {"get"} :
          ~WorkerAt(w, "get") /\ worker' = [worker EXCEPT ![w].pc = place]
    BY <1>2 DEF Moves, Goes
  <2>2. /\ worker' \in [Workers -> [pc : WorkerPlaces, alert : Alerts \cup {"none"}]]
        /\ \A v \in Workers : worker'[v].alert = worker[v].alert
        /\ \A v \in Workers : worker'[v].pc = "get" <=> worker[v].pc = "get"
    BY <2>1 DEF SchedulerInv, SchedulerTyped, WorkerAt
  <2>3. SchedulerTyped'
    BY <2>2 DEF SchedulerInv, SchedulerTyped
  <2>4. InQueueOnce'
    BY DEF SchedulerInv, InQueueOnce
  <2>5. InHandOnce' /\ OneWorkerPerAlert'
    BY <2>2 DEF SchedulerInv, InHandOnce, OneWorkerPerAlert, WorkerAt
  <2>6. QED
    BY <2>3, <2>4, <2>5 DEF SchedulerInv
<1>3. QED
  BY <1>1, <1>2

LEMMA PutInv ==
  ASSUME SchedulerInv, NEW a \in Alerts, Put(a)
  PROVE  SchedulerInv'
<1>1. calls' \subseteq Alerts /\ UNCHANGED worker
  BY DEF Put, SchedulerInv, SchedulerTyped
<1>2. CASE a \in queued
  BY <1>1, <1>2, AsideInv DEF Put
<1>3. CASE a \notin queued
  <2>1. queue' = Append(queue, a) /\ queued' = queued \cup {a} /\ queue \in Seq(Alerts)
    BY <1>3 DEF Put, SchedulerInv, SchedulerTyped
  <2>2. /\ Len(queue') = Len(queue) + 1 /\ Len(queue) \in Nat
        /\ \A i \in 1 .. Len(queue) : queue'[i] = queue[i]
        /\ queue'[Len(queue) + 1] = a
        /\ queue' \in Seq(Alerts)
    BY <2>1
  <2>3. SchedulerTyped'
    BY <1>1, <2>2 DEF SchedulerInv, SchedulerTyped
  <2>4. \A i \in 1 .. Len(queue) : queue[i] # a
    BY <1>3 DEF SchedulerInv, InQueueOnce
  <2>5. InQueueOnce'
    BY <2>1, <2>2, <2>4 DEF SchedulerInv, InQueueOnce
  <2>6. InHandOnce'
    BY <1>1, <1>3, <2>1, <2>2 DEF SchedulerInv, InHandOnce, WorkerAt
  <2>7. OneWorkerPerAlert'
    BY <1>1 DEF SchedulerInv, OneWorkerPerAlert, WorkerAt
  <2>8. QED
    BY <2>3, <2>5, <2>6, <2>7 DEF SchedulerInv
<1>4. QED
  BY <1>2, <1>3

LEMMA GetInv ==
  ASSUME SchedulerInv, NEW w \in Workers, Get(w)
  PROVE  SchedulerInv'
<1> DEFINE a == Head(queue)
<1>1. /\ worker[w].pc = "get" /\ queue' = Tail(queue) /\ UNCHANGED <<queued, calls>>
      /\ worker' = [worker EXCEPT ![w] = [pc |-> "admit", alert |-> a]]
      /\ queue \in Seq(Alerts) /\ queue # <<>>
  BY DEF Get, WorkerAt, SchedulerInv, SchedulerTyped
<1>2. /\ Len(queue) \in Nat /\ Len(queue) > 0 /\ a = queue[1] /\ a \in Alerts
      /\ queue' \in Seq(Alerts) /\ Len(queue') = Len(queue) - 1
      /\ \A i \in 1 .. Len(queue') : queue'[i] = queue[i + 1]
  BY <1>1
<1> HIDE DEF a
<1>3. /\ worker'[w].pc = "admit" /\ worker'[w].alert = a
      /\ \A v \in Workers : v # w => worker'[v] = worker[v]
      /\ worker' \in [Workers -> [pc : WorkerPlaces, alert : Alerts \cup {"none"}]]
  BY <1>1, <1>2 DEF SchedulerInv, SchedulerTyped, WorkerPlaces
<1>4. SchedulerTyped'
  BY <1>1, <1>2, <1>3 DEF SchedulerInv, SchedulerTyped
<1>5. a \in queued /\ \A i \in 1 .. Len(queue') : i + 1 \in 1 .. Len(queue) /\ queue'[i] # a
  BY <1>2 DEF SchedulerInv, InQueueOnce
<1>6. InQueueOnce'
  <2> SUFFICES ASSUME NEW i \in 1 .. Len(queue'), NEW j \in 1 .. Len(queue')
               PROVE  /\ queue'[i] \in queued
                      /\ queue'[i] = queue'[j] => i = j
    BY <1>1 DEF InQueueOnce
  <2>1. i + 1 \in 1 .. Len(queue) /\ j + 1 \in 1 .. Len(queue)
    BY <1>5
  <2>2. queue'[i] = queue[i + 1] /\ queue'[j] = queue[j + 1]
    BY <1>2
  <2>3. queue[i + 1] \in queued /\ (queue[i + 1] = queue[j + 1] => i + 1 = j + 1)
    BY <2>1 DEF SchedulerInv, InQueueOnce
  <2>4. i \in Nat /\ j \in Nat
    OBVIOUS
  <2>5. QED
    BY <2>2, <2>3, <2>4
<1>7. InHandOnce'
  <2> SUFFICES ASSUME NEW v \in Workers, worker'[v].pc # "get"
               PROVE  /\ worker'[v].alert \in queued
                      /\ \A i \in 1 .. Len(queue') : queue'[i] # worker'[v].alert
    BY <1>1 DEF InHandOnce, WorkerAt
  <2>1. CASE v = w
    BY <1>3, <1>5, <2>1
  <2>2. CASE v # w
    <3>1. worker'[v] = worker[v]
      BY <1>3, <2>2
    <3>2. /\ worker[v].alert \in queued
          /\ \A i \in 1 .. Len(queue) : queue[i] # worker[v].alert
      BY <3>1 DEF SchedulerInv, InHandOnce, WorkerAt
    <3>3. QED
      BY <1>2, <1>5, <3>1, <3>2
  <2>3. QED
    BY <2>1, <2>2
<1>8. OneWorkerPerAlert'
  <2>1. 1 \in 1 .. Len(queue)
    BY <1>2
  <2>2. \A v \in Workers : worker[v].pc # "get" => worker[v].alert # a
    BY <1>2, <2>1 DEF SchedulerInv, InHandOnce, WorkerAt
  <2>3. QED
    BY <1>3, <2>2 DEF SchedulerInv, OneWorkerPerAlert, WorkerAt
<1>9. QED
  BY <1>4, <1>6, <1>7, <1>8 DEF SchedulerInv

LEMMA DoneInv ==
  ASSUME SchedulerInv, NEW w \in Workers, Done(w)
  PROVE  SchedulerInv'
<1>1. /\ worker[w].pc # "get" /\ UNCHANGED <<queue, calls>>
      /\ queued' = queued \ {worker[w].alert}
      /\ worker' = [worker EXCEPT ![w] = Waiting]
  BY DEF Done
<1>2. /\ worker'[w].pc = "get" /\ \A v \in Workers : v # w => worker'[v] = worker[v]
      /\ worker' \in [Workers -> [pc : WorkerPlaces, alert : Alerts \cup {"none"}]]
  BY <1>1 DEF SchedulerInv, SchedulerTyped, Waiting, WorkerPlaces
<1>3. SchedulerTyped'
  BY <1>1, <1>2 DEF SchedulerInv, SchedulerTyped
<1>4. InQueueOnce'
  BY <1>1 DEF SchedulerInv, InQueueOnce, InHandOnce, WorkerAt
<1>5. InHandOnce'
  BY <1>1, <1>2 DEF SchedulerInv, InHandOnce, OneWorkerPerAlert, WorkerAt
<1>6. OneWorkerPerAlert'
  BY <1>2 DEF SchedulerInv, OneWorkerPerAlert, WorkerAt
<1>7. QED
  BY <1>3, <1>4, <1>5, <1>6 DEF SchedulerInv

LEMMA SchedulerNextInv ==
  ASSUME SchedulerInv, [MemoryNext]_schedulerVars
  PROVE  SchedulerInv'
<1>1. CASE UNCHANGED schedulerVars
  BY <1>1, AsideInv DEF schedulerVars, SchedulerInv, SchedulerTyped
<1>2. CASE Pause \/ ResumeDispatch \/ \E n \in 1 .. MaxWorkers : Resize(n)
  BY <1>2, AsideInv DEF Pause, ResumeDispatch, Resize, SchedulerInv, SchedulerTyped
<1>3. ASSUME NEW a \in Alerts,
             Enqueue(a) \/ RetryLater(a) \/ RetryFails(a) \/ Leased(a) \/ LeaseEnds(a) \/ Lapse(a)
      PROVE  SchedulerInv'
  BY <1>3, AsideInv
     DEF Enqueue, RetryLater, RetryFails, Leased, LeaseEnds, Lapse, SchedulerInv, SchedulerTyped
<1>4. ASSUME NEW w \in Workers,
             Admit(w) \/ Read(w) \/ Claim(w) \/ Settle(w) \/ LoseLease(w) \/ Fail(w)
      PROVE  SchedulerInv'
  <2>1. Moves
    <3>1. CASE Admit(w)
      BY <3>1 DEF Moves, WorkerPlaces, Admit, Goes, WorkerAt
    <3>2. CASE Read(w)
      BY <3>2 DEF Moves, WorkerPlaces, Read, Goes, WorkerAt
    <3>3. CASE Claim(w)
      BY <3>3 DEF Moves, WorkerPlaces, Claim, Goes, WorkerAt
    <3>4. CASE Settle(w)
      BY <3>4 DEF Moves, WorkerPlaces, Settle, Goes, WorkerAt
    <3>5. CASE LoseLease(w)
      BY <3>5 DEF Moves, WorkerPlaces, LoseLease, Goes, WorkerAt
    <3>6. CASE Fail(w)
      BY <3>6 DEF Moves, WorkerPlaces, Fail, Goes, WorkerAt
    <3>7. QED
      BY <1>4, <3>1, <3>2, <3>3, <3>4, <3>5, <3>6
  <2>2. UNCHANGED <<queue, queued, calls>>
    BY <1>4 DEF Admit, Read, Claim, Settle, LoseLease, Fail
  <2>3. QED
    BY <2>1, <2>2, AsideInv DEF SchedulerInv, SchedulerTyped
<1>5. QED
  BY <1>1, <1>2, <1>3, <1>4, PutInv, GetInv, DoneInv DEF MemoryNext, Turn

-----------------------------------------------------------------------------
(* No two workers have the same alert, for all constants. *)
THEOREM SpecOneWorkerPerAlert == MemorySpec => []OneWorkerPerAlert
<1>1. SchedulerInv => OneWorkerPerAlert
  BY DEF SchedulerInv
<1>2. QED
  BY <1>1, SchedulerInitInv, SchedulerNextInv, PTL DEF MemorySpec

-----------------------------------------------------------------------------
(* The trace, for any number of decisions, deltas and losses.              *)
(*                                                                         *)
(* What a node tells a second time was told of its one decision, or of its *)
(* durable evidence; a request that is repeated has an attempt no delta    *)
(* was told under (Telling: the deltas of this attempt are the process's). *)

TraceKey == [node : Nat, attempt : Nat, delta : Nat]
Content == [text : Texts, form : {"plain"}]
TraceRow ==
  [kind : TraceKinds \cup {"DECISION"}, key : TraceKey, content : Content]
TraceProcess ==
  [node : 1 .. Last + 1, at : {"start", "ask", "stream", "record", "reason", "act"},
   answer : Content \cup {None}, attempt : Nat, deltas : Nat]

TraceTyped ==
  /\ stream \in Seq(TraceRow) /\ proc \in TraceProcess
  /\ stored \in 1 .. Last + 1 /\ stored <= proc.node

(* A node has one decision ... *)
DecisionsAgree ==
  \A j, k \in DOMAIN stream :
    stream[j].kind = "DECISION" /\ stream[k].kind = "DECISION"
      /\ stream[j].key.node = stream[k].key.node => stream[j].content = stream[k].content

(* What a node tells again of its decision when it is executed again. *)
Repeats(r) == r.kind = "ACTION" \/ (r.kind = "REASONING" /\ r.key.delta = 0)

(* ... and what is told of it as a whole is that decision. *)
ToldIsDecided ==
  \A k \in DOMAIN stream :
    /\ stream[k].kind = "DECISION" => IsDecision(stream[k].key.node)
    /\ Repeats(stream[k]) =>
         \E j \in DOMAIN stream :
           /\ stream[j].kind = "DECISION" /\ stream[j].key.node = stream[k].key.node
           /\ stream[j].content = stream[k].content

(* Where in its node the process is, and what it has told there. *)
Telling ==
  /\ IsTool(proc.node) => proc.at = "start"
  /\ proc.at \in {"start", "ask"} => proc.deltas = 0
  /\ proc.at \in {"ask", "stream"} =>
       \A k \in DOMAIN stream :
         stream[k].kind = "REASONING" /\ stream[k].key.node = proc.node
           /\ stream[k].key.attempt = proc.attempt => stream[k].key.delta <= proc.deltas
  /\ proc.at \in {"ask", "stream", "record"} => Decided(proc.node) = {}
  /\ proc.at \in {"stream", "record", "reason", "act"} => proc.answer \in Content
  /\ proc.at \in {"record", "act"} => IsDecision(proc.node)
  /\ proc.at \in {"reason", "act"} /\ IsDecision(proc.node) =>
       \E k \in Decided(proc.node) : stream[k].content = proc.answer
  /\ proc.at = "reason" /\ ~IsDecision(proc.node) => proc.deltas > 0

TraceInv == TraceTyped /\ DecisionsAgree /\ ToldIsDecided /\ Telling /\ ~refused

(* A deployment that streams the reasoning, and whose texts sanitization leaves alone. *)
Deployment == Streaming /\ Masked = {} /\ MaxDecisions \in Nat

-----------------------------------------------------------------------------
LEMMA MinOfNaturals ==
  ASSUME NEW S \in SUBSET Nat, S # {}
  PROVE  \E x \in S : \A y \in S : x <= y
<1> DEFINE R == {ss \in Nat \X Nat : ss[1] < ss[2]}
<1>1. PICK x \in S : \A y \in S : ~ (<<y, x>> \in R)
  <2>1. IsWellFoundedOn(R, Nat)
    BY NatLessThanWellFounded DEF OpToRel
  <2>2. QED
    <3> HIDE DEF R
    <3>1. QED BY <2>1, WFMin
<1>2. \A y \in S : x <= y
  <2> SUFFICES ASSUME NEW y \in S
               PROVE  x <= y
    OBVIOUS
  <2>1. <<y, x>> \in Nat \X Nat /\ <<y, x>>[1] = y /\ <<y, x>>[2] = x
    OBVIOUS
  <2>2. ~(y < x)
    BY <1>1, <2>1
  <2>3. QED
    BY <2>2
<1>3. QED
  BY <1>2

(* A set without a highest member would have a smallest such part. *)
LEMMA MaxOfNaturals ==
  ASSUME NEW S \in SUBSET Nat, S # {}, IsFiniteSet(S)
  PROVE  Max(S) \in S /\ \A y \in S : y <= Max(S)
<1> DEFINE Topped(T) == \E x \in T : \A y \in T : y <= x
           Topless == {T \in SUBSET S : T # {} /\ ~Topped(T)}
           Sizes == {Cardinality(T) : T \in Topless}
<1>1. \A T \in SUBSET S : IsFiniteSet(T) /\ Cardinality(T) \in Nat
  BY FS_Subset, FS_CardinalityType
<1>2. ASSUME NEW T \in Topless
      PROVE  \E U \in Topless : Cardinality(U) < Cardinality(T)
  <2>1. PICK x \in T : TRUE
    OBVIOUS
  <2> DEFINE U == T \ {x}
  <2>2. Cardinality(U) = Cardinality(T) - 1 /\ U \in SUBSET S
    BY <1>1, FS_RemoveElement
  <2>3. U # {}
    BY <2>1
  <2>4. ~Topped(U)
    <3>1. SUFFICES ASSUME NEW m \in U, \A y \in U : y <= m
                   PROVE  FALSE
      OBVIOUS
    <3>2. CASE x <= m
      BY <3>1, <3>2
    <3>3. CASE m <= x
      BY <3>1, <3>3
    <3>4. QED
      BY <3>2, <3>3
  <2>5. QED
    <3>1. U \in Topless
      BY <2>2, <2>3, <2>4
    <3>2. Cardinality(U) < Cardinality(T)
      BY <1>1, <2>2
    <3>3. QED
      BY <3>1, <3>2
<1>3. Topless = {}
  <2> SUFFICES ASSUME Topless # {}
               PROVE  FALSE
    OBVIOUS
  <2>1. Sizes \in SUBSET Nat /\ Sizes # {}
    BY <1>1
  <2>2. PICK n \in Sizes : \A m \in Sizes : n <= m
    <3> HIDE DEF Sizes
    <3>1. QED BY <2>1, MinOfNaturals
  <2>3. PICK T \in Topless : n = Cardinality(T)
    OBVIOUS
  <2>4. PICK U \in Topless : Cardinality(U) < Cardinality(T)
    BY <1>2
  <2>5. Cardinality(T) \in Nat /\ Cardinality(U) \in Nat /\ Cardinality(U) \in Sizes
    BY <1>1
  <2>6. n <= Cardinality(U)
    BY <2>2, <2>5
  <2>7. QED
    BY <2>3, <2>4, <2>5, <2>6
<1>4. Topped(S)
  BY <1>3
<1>5. QED
  BY <1>4 DEF Max

LEMMA NodeKinds ==
  ASSUME MaxDecisions \in Nat, NEW n \in 1 .. Last + 1
  PROVE  /\ Last \in Nat
         /\ ~(IsDecision(n) /\ IsTool(n))
         /\ IsDecision(n) \/ IsTool(n) \/ n >= Last
         /\ IsDecision(n) \/ IsTool(n) => n < Last
BY DEF Last, IsDecision, IsTool

LEMMA Appended ==
  ASSUME stream \in Seq(TraceRow), NEW r \in TraceRow, stream' = Append(stream, r)
  PROVE  /\ stream' \in Seq(TraceRow)
         /\ DOMAIN stream' = DOMAIN stream \cup {Len(stream) + 1}
         /\ Len(stream) + 1 \notin DOMAIN stream
         /\ \A k \in DOMAIN stream : stream'[k] = stream[k] /\ stream[k] \in TraceRow
         /\ stream'[Len(stream) + 1] = r
         /\ \A n : Decided(n)' = IF r.kind = "DECISION" /\ r.key.node = n
                                 THEN Decided(n) \cup {Len(stream) + 1} ELSE Decided(n)
<1>1. /\ stream' \in Seq(TraceRow)
      /\ DOMAIN stream' = DOMAIN stream \cup {Len(stream) + 1}
      /\ Len(stream) + 1 \notin DOMAIN stream
      /\ \A k \in DOMAIN stream : stream'[k] = stream[k] /\ stream[k] \in TraceRow
      /\ stream'[Len(stream) + 1] = r
  OBVIOUS
<1>2. QED
  BY <1>1 DEF Decided

-----------------------------------------------------------------------------
LEMMA TraceInitInv == TraceInit /\ MaxDecisions \in Nat => TraceInv
BY NodeKinds DEF TraceInit, TraceInv, TraceTyped, DecisionsAgree, ToldIsDecided, Telling, Entering,
   TraceProcess, Last, IsTool, IsDecision

LEMMA RowsTyped ==
  ASSUME TraceTyped
  PROVE  \A k \in DOMAIN stream : stream[k] \in TraceRow
BY DEF TraceTyped

(* The next attempt is later than those whose deltas were told. *)
LEMMA NextAttemptIsLater ==
  ASSUME TraceTyped, NEW n
  PROVE  /\ NextAttempt(n) \in Nat
         /\ \A k \in DOMAIN stream :
              stream[k].kind = "REASONING" /\ stream[k].key.node = n /\ stream[k].key.delta > 0
                => stream[k].key.attempt < NextAttempt(n)
<1> DEFINE D == {k \in DOMAIN stream : stream[k].kind = "REASONING" /\ stream[k].key.node = n
                                       /\ stream[k].key.delta > 0}
           seen == {stream[k].key.attempt : k \in D}
           f == [k \in D |-> stream[k].key.attempt]
<1>1. DOMAIN stream = 1 .. Len(stream) /\ Len(stream) \in Nat
      /\ \A k \in DOMAIN stream : stream[k] \in TraceRow
  BY DEF TraceTyped
<1>2. seen \in SUBSET Nat
  BY <1>1 DEF TraceRow, TraceKey
<1>3. IsFiniteSet(seen)
  <2>1. IsFiniteSet(D)
    <3>1. IsFiniteSet(1 .. Len(stream))
      BY <1>1, FS_Interval
    <3>2. D \in SUBSET (1 .. Len(stream))
      BY <1>1
    <3>3. QED
      BY <3>1, <3>2, FS_Subset
  <2>2. f \in Surjection(D, seen)
    BY DEF Surjection
  <2>3. QED
    BY <2>1, <2>2, FS_Surjection DEF ExistsSurjection
<1>4. CASE seen = {}
  <2>1. D = {} /\ NextAttempt(n) = 0
    BY <1>4 DEF NextAttempt
  <2>2. QED
    BY <2>1
<1>5. CASE seen # {}
  <2>1. Max(seen) \in seen /\ \A y \in seen : y <= Max(seen)
    BY <1>2, <1>3, <1>5, MaxOfNaturals
  <2>2. NextAttempt(n) = Max(seen) + 1
    BY <1>5 DEF NextAttempt
  <2>3. Max(seen) \in Nat /\ NextAttempt(n) \in Nat
    BY <1>2, <2>1, <2>2
  <2>4. ASSUME NEW k \in D
        PROVE  stream[k].key.attempt < NextAttempt(n)
    <3>1. stream[k].key.attempt \in seen
      OBVIOUS
    <3> HIDE DEF seen
    <3>2. stream[k].key.attempt \in Nat /\ stream[k].key.attempt <= Max(seen)
      BY <1>2, <2>1, <3>1
    <3>3. QED
      BY <2>2, <2>3, <3>2
  <2>5. QED
    BY <2>3, <2>4
<1>6. QED
  BY <1>4, <1>5

(* The last row of a decision is the decision of its node. *)
LEMMA OldDecision ==
  ASSUME TraceTyped, NEW n, Decided(n) # {}
  PROVE  Max(Decided(n)) \in Decided(n)
<1>1. DOMAIN stream = 1 .. Len(stream) /\ Len(stream) \in Nat
  BY DEF TraceTyped
<1>2. Decided(n) \in SUBSET (1 .. Len(stream)) /\ IsFiniteSet(1 .. Len(stream))
  BY <1>1, FS_Interval DEF Decided
<1>3. Decided(n) \in SUBSET Nat /\ IsFiniteSet(Decided(n))
  BY <1>1, <1>2, FS_Subset
<1>4. QED
  BY <1>3, MaxOfNaturals

(* The process moves within or between nodes and tells nothing. *)
LEMMA SilentInv ==
  ASSUME TraceInv, UNCHANGED <<stream, refused>>, proc' \in TraceProcess,
         stored' \in 1 .. Last + 1, stored' <= proc'.node, Telling'
  PROVE  TraceInv'
BY DEF TraceInv, TraceTyped, DecisionsAgree, ToldIsDecided, Decided

LEMMA EntersANode ==
  ASSUME MaxDecisions \in Nat, NEW n \in 1 .. Last + 1, proc' = Entering(n)
  PROVE  proc' \in TraceProcess /\ Telling' /\ proc'.node = n
BY NodeKinds DEF Entering, TraceProcess, Telling

LEMMA StartInv ==
  ASSUME TraceInv, Deployment, StartAsking
  PROVE  TraceInv'
<1> DEFINE n == proc.node
           old == Decided(n)
<1>1. /\ proc.at = "start" /\ ~IsTool(n) /\ proc.deltas = 0
      /\ UNCHANGED <<stream, stored, refused>> /\ proc \in TraceProcess
      /\ proc' = [proc EXCEPT
           !.attempt = NextAttempt(n),
           !.answer = IF old = {} THEN None ELSE stream[Max(old)].content,
           !.at = IF old = {} THEN "ask" ELSE "reason"]
  BY DEF StartAsking, TraceInv, TraceTyped, Telling
<1>2. NextAttempt(n) \in Nat
  BY NextAttemptIsLater DEF TraceInv
<1>3. old # {} => /\ Max(old) \in old /\ stream[Max(old)].content \in Content /\ IsDecision(n)
  <2>1. SUFFICES ASSUME old # {}
                 PROVE  Max(old) \in old /\ stream[Max(old)].content \in Content /\ IsDecision(n)
    OBVIOUS
  <2>2. Max(old) \in old
    BY <2>1, OldDecision DEF TraceInv
  <2>3. QED
    BY <2>2, RowsTyped DEF TraceInv, ToldIsDecided, Decided, TraceRow
<1>4. /\ proc' \in TraceProcess /\ proc'.node = n /\ proc'.deltas = 0
      /\ proc'.attempt = NextAttempt(n)
      /\ old = {} => proc'.at = "ask"
      /\ old # {} => proc'.at = "reason" /\ proc'.answer = stream[Max(old)].content
  BY <1>1, <1>2, <1>3 DEF TraceProcess
<1>5. Decided(n)' = old
  BY <1>1, <1>4 DEF Decided
<1>6. Telling'
  <2>1. CASE old = {}
    <3>1. \A k \in DOMAIN stream :
            stream[k].kind = "REASONING" /\ stream[k].key.node = n
              /\ stream[k].key.attempt = NextAttempt(n) => stream[k].key.delta <= 0
      <4> SUFFICES ASSUME NEW k \in DOMAIN stream, stream[k].kind = "REASONING",
                          stream[k].key.node = n, stream[k].key.attempt = NextAttempt(n)
                   PROVE  stream[k].key.delta <= 0
        OBVIOUS
      <4>1. stream[k].key.delta \in Nat
        BY RowsTyped DEF TraceInv, TraceRow, TraceKey
      <4>2. stream[k].key.delta > 0 => NextAttempt(n) < NextAttempt(n)
        BY NextAttemptIsLater DEF TraceInv
      <4>3. QED
        BY <1>2, <4>1, <4>2
    <3>2. QED
      BY <1>1, <1>4, <1>5, <2>1, <3>1 DEF Telling
  <2>2. CASE old # {}
    BY <1>1, <1>3, <1>4, <1>5, <2>2 DEF Telling
  <2>3. QED
    BY <2>1, <2>2
<1>7. QED
  BY <1>1, <1>4, <1>6, SilentInv DEF TraceInv, TraceTyped

LEMMA AskInv ==
  ASSUME TraceInv, Deployment, NEW text \in Texts, AskModel(text)
  PROVE  TraceInv'
<1> DEFINE a == [text |-> text, form |-> "plain"]
<1>1. /\ proc.at = "ask" /\ proc' = [proc EXCEPT !.answer = a, !.at = "stream"] /\ a \in Content
      /\ UNCHANGED <<stream, stored, refused>> /\ proc \in TraceProcess
  BY DEF AskModel, TraceInv, TraceTyped, Deployment, Content
<1>2. /\ proc' \in TraceProcess /\ proc'.at = "stream" /\ proc'.node = proc.node
      /\ proc'.answer = a /\ proc'.deltas = proc.deltas /\ proc'.attempt = proc.attempt
  BY <1>1 DEF TraceProcess
<1>3. Decided(proc.node)' = Decided(proc.node)
  BY <1>1, <1>2 DEF Decided
<1>4. Telling'
  BY <1>1, <1>2, <1>3 DEF Telling, TraceInv
<1>5. QED
  BY <1>1, <1>2, <1>4, SilentInv DEF TraceInv, TraceTyped

(* What the trace has under a key agrees with what is told now: the event is
   new, or nothing happens.                                                  *)
LEMMA EmitAgrees ==
  ASSUME TraceInv, Deployment, NEW kind \in TraceKinds, NEW key \in TraceKey,
         NEW content \in Content, Emit(kind, key, content),
         \A k \in Told(kind, key) : stream[k].content = content
  PROVE  /\ ~refused'
         /\ \/ UNCHANGED stream
            \/ LET r == [kind |-> kind, key |-> key, content |-> content]
               IN  r \in TraceRow /\ stream' = Append(stream, r)
BY DEF Emit, Recorded, Sanitized, Deployment, TraceInv, TraceRow

(* The process tells the trace a row that agrees, or nothing new. *)
LEMMA ToldInv ==
  ASSUME TraceInv, ~refused', proc' \in TraceProcess, UNCHANGED stored,
         stored <= proc'.node, Telling',
         \/ UNCHANGED stream
         \/ \E r \in TraceRow :
              /\ stream' = Append(stream, r) /\ r.kind # "DECISION"
              /\ Repeats(r) => \E j \in Decided(r.key.node) : stream[j].content = r.content
  PROVE  TraceInv'
<1>1. CASE UNCHANGED stream
  BY <1>1 DEF TraceInv, TraceTyped, DecisionsAgree, ToldIsDecided, Decided
<1>2. ASSUME NEW r \in TraceRow, stream' = Append(stream, r), r.kind # "DECISION",
             Repeats(r) => \E j \in Decided(r.key.node) : stream[j].content = r.content
      PROVE  TraceInv'
  <2>1. /\ stream' \in Seq(TraceRow)
        /\ DOMAIN stream' = DOMAIN stream \cup {Len(stream) + 1}
        /\ \A k \in DOMAIN stream : stream'[k] = stream[k]
        /\ stream'[Len(stream) + 1] = r
        /\ \A n : Decided(n)' = Decided(n)
    BY <1>2, Appended DEF TraceInv, TraceTyped
  <2>2. TraceTyped'
    BY <2>1 DEF TraceInv, TraceTyped
  <2>3. DecisionsAgree'
    BY <1>2, <2>1 DEF TraceInv, DecisionsAgree
  <2>4. ToldIsDecided'
    <3>1. SUFFICES ASSUME NEW k \in DOMAIN stream'
                   PROVE  /\ stream'[k].kind = "DECISION" => IsDecision(stream'[k].key.node)
                          /\ Repeats(stream'[k]) =>
                               \E j \in DOMAIN stream' :
                                 /\ stream'[j].kind = "DECISION"
                                 /\ stream'[j].key.node = stream'[k].key.node
                                 /\ stream'[j].content = stream'[k].content
      BY DEF ToldIsDecided, Repeats, IsDecision, Last
    <3>2. CASE k \in DOMAIN stream
      BY <2>1, <3>2 DEF TraceInv, ToldIsDecided
    <3>3. CASE k = Len(stream) + 1
      BY <1>2, <2>1, <3>3 DEF Decided
    <3>4. QED
      BY <2>1, <3>2, <3>3
  <2>5. QED
    BY <2>2, <2>3, <2>4 DEF TraceInv
<1>3. QED
  BY <1>1, <1>2

LEMMA DeltaInv ==
  ASSUME TraceInv, Deployment, TellDelta
  PROVE  TraceInv'
<1> DEFINE d == proc.deltas + 1
           key == Key(proc.node, proc.attempt, d)
<1>1. /\ proc.at = "stream" /\ Emit("REASONING", key, proc.answer) /\ UNCHANGED stored
      /\ proc' = [proc EXCEPT !.deltas = d, !.at = IF d = MaxDeltas THEN Answered ELSE "stream"]
      /\ proc \in TraceProcess /\ ~refused /\ proc.answer \in Content
  BY DEF TellDelta, TraceInv, TraceTyped, Telling
<1>2. d \in Nat /\ d > 0 /\ d > proc.deltas /\ proc.deltas \in Nat
  BY <1>1 DEF TraceProcess
<1>3. /\ proc' \in TraceProcess /\ proc'.node = proc.node /\ proc'.attempt = proc.attempt
      /\ proc'.deltas = d /\ proc'.answer = proc.answer
      /\ proc'.at \in {"stream", IF IsDecision(proc.node) THEN "record" ELSE "reason"}
  BY <1>1, <1>2 DEF TraceProcess, Answered
<1>4. key \in TraceKey /\ key.node = proc.node /\ key.attempt = proc.attempt /\ key.delta = d
  BY <1>1, <1>2 DEF Key, TraceKey, TraceProcess
<1>5. Told("REASONING", key) = {}
  <2>1. SUFFICES ASSUME NEW k \in DOMAIN stream, stream[k].kind = "REASONING", stream[k].key = key
                 PROVE  FALSE
    BY DEF Told
  <2>2. stream[k].key.delta <= proc.deltas
    BY <1>1, <1>4, <2>1 DEF TraceInv, Telling
  <2>3. QED
    BY <1>2, <1>4, <2>1, <2>2
<1> HIDE DEF key, d
<1>6. /\ ~refused'
      /\ \/ UNCHANGED stream
         \/ LET r == [kind |-> "REASONING", key |-> key, content |-> proc.answer]
            IN  r \in TraceRow /\ stream' = Append(stream, r)
  BY <1>1, <1>4, <1>5, EmitAgrees DEF TraceKinds
<1>7. /\ \A n : Decided(n)' = Decided(n)
      /\ \A k \in DOMAIN stream' :
           \/ k \in DOMAIN stream /\ stream'[k] = stream[k]
           \/ stream'[k].key.delta = d /\ stream'[k].kind = "REASONING"
      /\ \A n : \A k \in Decided(n) : k \in DOMAIN stream /\ stream'[k] = stream[k]
  <2>1. \A n : \A k \in Decided(n) : k \in DOMAIN stream
    BY DEF Decided
  <2>2. CASE UNCHANGED stream
    BY <2>1, <2>2 DEF Decided
  <2>3. CASE ~UNCHANGED stream
    BY <1>4, <1>6, <2>1, <2>3, Appended DEF TraceInv, TraceTyped
  <2>4. QED
    BY <2>2, <2>3
<1>8. Telling'
  <2>1. \A k \in DOMAIN stream' :
          stream'[k].kind = "REASONING" /\ stream'[k].key.node = proc.node
            /\ stream'[k].key.attempt = proc.attempt => stream'[k].key.delta <= d
    <3> SUFFICES ASSUME NEW k \in DOMAIN stream', stream'[k].kind = "REASONING",
                        stream'[k].key.node = proc.node, stream'[k].key.attempt = proc.attempt
                 PROVE  stream'[k].key.delta <= d
      OBVIOUS
    <3>1. CASE stream'[k].key.delta = d
      BY <1>2, <3>1
    <3>2. CASE k \in DOMAIN stream /\ stream'[k] = stream[k]
      <4>1. stream[k].key.delta <= proc.deltas /\ stream[k].key.delta \in Nat
        BY <1>1, <3>2, RowsTyped DEF TraceInv, Telling, TraceRow, TraceKey
      <4>2. QED
        BY <1>2, <3>2, <4>1
    <3>3. QED
      BY <1>7, <3>1, <3>2
  <2>2. ~IsTool(proc.node) /\ Decided(proc.node) = {}
    BY <1>1 DEF TraceInv, Telling
  <2>3. {k \in DOMAIN stream' : stream'[k].kind = "DECISION" /\ stream'[k].key.node = proc.node} = {}
    BY <1>7, <2>2 DEF Decided
  <2>4. proc'.at = "reason" => ~IsDecision(proc.node)
    BY <1>3
  <2>5. proc'.at = "record" => IsDecision(proc.node)
    BY <1>3
  <2>6. proc'.node = proc.node /\ proc'.attempt = proc.attempt /\ proc'.deltas = d /\ d > 0
        /\ proc'.answer \in Content /\ proc'.at \in {"stream", "record", "reason"}
    BY <1>1, <1>2, <1>3
  <2> DEFINE rows == {k \in DOMAIN stream' : stream'[k].kind = "DECISION"
                                            /\ stream'[k].key.node = proc.node}
  <2>7. rows = {}
    BY <2>3
  <2>8. Decided(proc.node)' = rows
    BY <2>6 DEF Decided
  <2>9. /\ IsTool(proc.node)' <=> IsTool(proc.node)
        /\ IsDecision(proc.node)' <=> IsDecision(proc.node)
    BY <2>6 DEF IsDecision, IsTool, Last
  <2> HIDE DEF rows
  <2>10. proc'.at \in {"ask", "stream"} =>
           \A k \in DOMAIN stream' :
             stream'[k].kind = "REASONING" /\ stream'[k].key.node = proc'.node
               /\ stream'[k].key.attempt = proc'.attempt => stream'[k].key.delta <= proc'.deltas
    BY <2>1, <2>6
  <2>11. Decided(proc.node)' = {}
    BY <2>7, <2>8
  <2>12. ~IsTool(proc.node)' /\ (proc'.at = "reason" => ~IsDecision(proc.node)')
         /\ (proc'.at = "record" => IsDecision(proc.node)')
    BY <2>2, <2>4, <2>5, <2>9
  <2>13. proc'.deltas > 0
    BY <2>6
  <2>14. QED
    BY <2>6, <2>10, <2>11, <2>12, <2>13 DEF Telling
<1>9. \/ UNCHANGED stream
      \/ \E r \in TraceRow : stream' = Append(stream, r) /\ r.kind # "DECISION" /\ ~Repeats(r)
  BY <1>2, <1>4, <1>6 DEF Repeats
<1>10. stored <= proc'.node
  BY <1>3 DEF TraceInv, TraceTyped
<1>11. QED
  BY <1>1, <1>3, <1>6, <1>8, <1>9, <1>10, ToldInv

LEMMA RecordInv ==
  ASSUME TraceInv, Deployment, RecordDecision
  PROVE  TraceInv'
<1> DEFINE n == proc.node
           r == [kind |-> "DECISION", key |-> Key(n, 0, 0), content |-> proc.answer]
<1>1. /\ proc.at = "record" /\ proc' = [proc EXCEPT !.at = "reason"]
      /\ UNCHANGED <<stored, refused>> /\ stream' = Append(stream, r)
      /\ proc \in TraceProcess /\ proc.answer \in Content /\ Decided(n) = {} /\ IsDecision(n)
      /\ ~IsTool(n)
  BY DEF RecordDecision, Recorded, Sanitized, Goto, Deployment, TraceInv, TraceTyped, Telling
<1>2. r \in TraceRow /\ r.key.node = n /\ r.kind = "DECISION" /\ r.content = proc.answer
  BY <1>1 DEF TraceRow, TraceKey, Key, TraceProcess
<1>3. /\ proc' \in TraceProcess /\ proc'.node = n /\ proc'.at = "reason"
      /\ proc'.answer = proc.answer
  BY <1>1 DEF TraceProcess
<1> HIDE DEF r
<1>4. /\ stream' \in Seq(TraceRow)
      /\ DOMAIN stream' = DOMAIN stream \cup {Len(stream) + 1}
      /\ \A k \in DOMAIN stream : stream'[k] = stream[k]
      /\ stream'[Len(stream) + 1] = r
      /\ Decided(n)' = Decided(n) \cup {Len(stream) + 1}
  BY <1>1, <1>2, Appended DEF TraceInv, TraceTyped
<1>5. TraceTyped'
  BY <1>1, <1>3, <1>4 DEF TraceInv, TraceTyped
<1>6. DecisionsAgree'
  <2>1. \A k \in DOMAIN stream : ~(stream[k].kind = "DECISION" /\ stream[k].key.node = n)
    BY <1>1 DEF Decided
  <2>2. QED
    BY <1>2, <1>4, <2>1 DEF TraceInv, DecisionsAgree
<1>7. ToldIsDecided'
  <2>1. SUFFICES ASSUME NEW k \in DOMAIN stream'
                 PROVE  /\ stream'[k].kind = "DECISION" => IsDecision(stream'[k].key.node)
                        /\ Repeats(stream'[k]) =>
                             \E j \in DOMAIN stream' :
                               /\ stream'[j].kind = "DECISION"
                               /\ stream'[j].key.node = stream'[k].key.node
                               /\ stream'[j].content = stream'[k].content
    BY DEF ToldIsDecided, Repeats, IsDecision, Last
  <2>2. CASE k \in DOMAIN stream
    BY <1>4, <2>2 DEF TraceInv, ToldIsDecided
  <2>3. CASE k = Len(stream) + 1
    BY <1>1, <1>2, <1>4, <2>3 DEF Repeats
  <2>4. QED
    BY <1>4, <2>2, <2>3
<1>8. Telling'
  <2>1. Len(stream) + 1 \in Decided(n)' /\ stream'[Len(stream) + 1].content = proc'.answer
    BY <1>2, <1>3, <1>4
  <2>2. proc'.at = "reason" /\ proc'.node = n /\ proc'.answer \in Content
    BY <1>1, <1>3
  <2>3. \E k \in Decided(proc.node)' : stream'[k].content = proc'.answer
    BY <2>1, <2>2
  <2>4. QED
    BY <1>1, <2>2, <2>3 DEF Telling, IsDecision, IsTool, Last
<1>9. QED
  BY <1>1, <1>5, <1>6, <1>7, <1>8 DEF TraceInv

(* The end of a node leaves its rows as they are and enters the next one. *)
LEMMA NextNode ==
  ASSUME TraceInv, Deployment, Working, EndNode
  PROVE  proc' \in TraceProcess /\ Telling' /\ stored <= proc'.node
<1>1. proc.node + 1 \in 1 .. Last + 1 /\ proc.node \in Nat /\ proc.node <= Last
  BY NodeKinds DEF Working, TraceInv, TraceTyped, TraceProcess, Deployment, Last
<1>2. /\ proc' \in TraceProcess /\ Telling' /\ proc'.node = proc.node + 1
  BY <1>1, EntersANode DEF EndNode, Deployment
<1>3. QED
  BY <1>1, <1>2 DEF TraceInv, TraceTyped

LEMMA ReasoningInv ==
  ASSUME TraceInv, Deployment, TellReasoning
  PROVE  TraceInv'
<1> DEFINE n == proc.node
<1>1. /\ proc.at = "reason" /\ UNCHANGED stored /\ proc \in TraceProcess /\ proc.answer \in Content
      /\ ~IsTool(n) /\ Working /\ ~refused
  BY DEF TellReasoning, TraceInv, TraceTyped, Telling
<1>2. /\ ~refused'
      /\ \/ UNCHANGED stream
         \/ \E r \in TraceRow :
              /\ stream' = Append(stream, r) /\ r.kind # "DECISION"
              /\ \E j \in Decided(r.key.node) : stream[j].content = r.content
  <2>1. CASE proc.deltas > 0
    BY <1>1, <2>1 DEF TellReasoning
  <2>2. CASE ~(proc.deltas > 0)
    <3> DEFINE key == Key(n, 0, 0)
    <3>1. IsDecision(n)
      BY <1>1, <2>2 DEF TraceInv, Telling
    <3>2. key \in TraceKey /\ key.node = n
      BY <1>1 DEF Key, TraceKey, TraceProcess
    <3>3. Emit("REASONING", key, proc.answer)
      BY <2>2, <3>1 DEF TellReasoning
    <3>4. PICK d \in Decided(n) : stream[d].content = proc.answer
      BY <1>1, <3>1 DEF TraceInv, Telling
    <3>5. \A k \in Told("REASONING", key) : stream[k].content = proc.answer
      <4>1. SUFFICES ASSUME NEW k \in DOMAIN stream, stream[k].kind = "REASONING",
                            stream[k].key = key
                     PROVE  stream[k].content = proc.answer
        BY DEF Told
      <4>2. key.delta = 0
        BY DEF Key
      <4>3. PICK j \in DOMAIN stream :
              /\ stream[j].kind = "DECISION" /\ stream[j].key.node = n
              /\ stream[j].content = stream[k].content
        BY <3>2, <4>1, <4>2 DEF TraceInv, ToldIsDecided, Repeats
      <4>4. QED
        BY <3>4, <4>3 DEF TraceInv, DecisionsAgree, Decided
    <3> HIDE DEF key
    <3>6. /\ ~refused'
          /\ \/ UNCHANGED stream
             \/ LET r == [kind |-> "REASONING", key |-> key, content |-> proc.answer]
                IN  r \in TraceRow /\ stream' = Append(stream, r)
      BY <1>1, <3>2, <3>3, <3>5, EmitAgrees DEF TraceKinds
    <3>7. QED
      BY <3>2, <3>4, <3>6
  <2>3. QED
    BY <2>1, <2>2
<1>3. CASE IsDecision(n)
  <2>1. proc' = [proc EXCEPT !.at = "act"]
    BY <1>3 DEF TellReasoning, Goto
  <2>2. proc' \in TraceProcess /\ proc'.at = "act" /\ proc'.node = n /\ proc'.answer = proc.answer
    BY <1>1, <2>1 DEF TraceProcess
  <2>3. PICK d \in Decided(n) : stream[d].content = proc.answer
    BY <1>1, <1>3 DEF TraceInv, Telling
  <2>4. d \in DOMAIN stream' /\ stream'[d] = stream[d] /\ d \in DOMAIN stream
    <3>1. d \in DOMAIN stream
      BY <2>3 DEF Decided
    <3>2. CASE UNCHANGED stream
      BY <3>1, <3>2
    <3>3. CASE ~UNCHANGED stream
      BY <1>2, <3>1, <3>3, Appended DEF TraceInv, TraceTyped
    <3>4. QED
      BY <3>1, <3>2, <3>3
  <2>5. stream[d].kind = "DECISION" /\ stream[d].key.node = n
    BY <2>3 DEF Decided
  <2>6. \E k \in {k \in DOMAIN stream' : stream'[k].kind = "DECISION" /\ stream'[k].key.node = proc'.node} :
          stream'[k].content = proc'.answer
    BY <2>2, <2>3, <2>4, <2>5
  <2>7. Telling'
    BY <1>1, <1>3, <2>2, <2>6 DEF Telling, IsDecision, IsTool, Last, Decided
  <2>8. QED
    BY <1>1, <1>2, <2>2, <2>7, ToldInv DEF TraceInv, TraceTyped
<1>4. CASE ~IsDecision(n)
  <2>1. EndNode
    BY <1>4 DEF TellReasoning
  <2>2. QED
    BY <1>1, <1>2, <2>1, NextNode, ToldInv
<1>5. QED
  BY <1>3, <1>4

LEMMA ActionInv ==
  ASSUME TraceInv, Deployment, TellAction
  PROVE  TraceInv'
<1> DEFINE n == proc.node
           key == Key(n, 0, 0)
<1>1. /\ proc.at = "act" /\ UNCHANGED stored /\ proc \in TraceProcess /\ proc.answer \in Content
      /\ IsDecision(n) /\ Working /\ EndNode /\ Emit("ACTION", key, proc.answer)
  BY DEF TellAction, TraceInv, TraceTyped, Telling
<1>2. key \in TraceKey /\ key.node = n
  BY <1>1 DEF Key, TraceKey, TraceProcess
<1>3. PICK d \in Decided(n) : stream[d].content = proc.answer
  BY <1>1 DEF TraceInv, Telling
<1>4. \A k \in Told("ACTION", key) : stream[k].content = proc.answer
  <2>1. SUFFICES ASSUME NEW k \in DOMAIN stream, stream[k].kind = "ACTION", stream[k].key = key
                 PROVE  stream[k].content = proc.answer
    BY DEF Told
  <2>2. PICK j \in DOMAIN stream :
          /\ stream[j].kind = "DECISION" /\ stream[j].key.node = n
          /\ stream[j].content = stream[k].content
    BY <1>2, <2>1 DEF TraceInv, ToldIsDecided, Repeats
  <2>3. QED
    BY <1>3, <2>2 DEF TraceInv, DecisionsAgree, Decided
<1> HIDE DEF key
<1>5. /\ ~refused'
      /\ \/ UNCHANGED stream
         \/ LET r == [kind |-> "ACTION", key |-> key, content |-> proc.answer]
            IN  r \in TraceRow /\ stream' = Append(stream, r)
  BY <1>1, <1>2, <1>4, EmitAgrees DEF TraceKinds
<1>6. QED
  BY <1>1, <1>2, <1>3, <1>5, NextNode, ToldInv

LEMMA ObservationInv ==
  ASSUME TraceInv, Deployment, NEW text \in Texts, TellObservation(text)
  PROVE  TraceInv'
<1> DEFINE key == Key(proc.node, 0, 0)
           content == [text |-> text, form |-> "plain"]
<1>1. /\ UNCHANGED stored /\ proc \in TraceProcess /\ Working /\ EndNode
      /\ Emit("OBSERVATION", key, content) /\ content \in Content
      /\ \A k \in Told("OBSERVATION", key) : text = stream[k].content.text
  BY DEF TellObservation, TraceInv, TraceTyped, Content
<1>2. key \in TraceKey
  BY <1>1 DEF Key, TraceKey, TraceProcess
<1>3. \A k \in Told("OBSERVATION", key) : stream[k].content = content
  <2>1. \A k \in DOMAIN stream : stream[k].content \in Content
    BY RowsTyped DEF TraceInv, TraceRow
  <2>2. QED
    BY <1>1, <2>1 DEF Told, Content
<1> HIDE DEF key, content
<1>4. /\ ~refused'
      /\ \/ UNCHANGED stream
         \/ LET r == [kind |-> "OBSERVATION", key |-> key, content |-> content]
            IN  r \in TraceRow /\ stream' = Append(stream, r)
  BY <1>1, <1>2, <1>3, EmitAgrees DEF TraceKinds
<1>5. QED
  BY <1>1, <1>4, NextNode, ToldInv DEF Repeats

LEMMA TraceNextInv ==
  ASSUME TraceInv, Deployment, [TraceNext]_traceVars
  PROVE  TraceInv'
<1>1. CASE SaveCheckpoint
  <2>1. /\ UNCHANGED <<stream, proc, refused>> /\ stored' = stored + 1 /\ stored < proc.node
        /\ proc \in TraceProcess
    BY <1>1 DEF SaveCheckpoint, TraceInv, TraceTyped
  <2>2. stored' \in 1 .. Last + 1 /\ stored' <= proc'.node
    BY <2>1 DEF TraceInv, TraceTyped, TraceProcess, Deployment, Last
  <2>3. Telling'
    BY <2>1 DEF TraceInv, Telling, Decided
  <2>4. QED
    BY <2>1, <2>2, <2>3, SilentInv
<1>2. CASE Lose
  <2>1. /\ UNCHANGED <<stream, stored, refused>> /\ proc' = Entering(stored)
        /\ stored \in 1 .. Last + 1
    BY <1>2 DEF Lose, TraceInv, TraceTyped
  <2>2. proc' \in TraceProcess /\ Telling' /\ proc'.node = stored
    BY <2>1, EntersANode DEF Deployment
  <2>3. stored <= stored
    BY <2>1 DEF Last, Deployment
  <2>4. QED
    BY <2>1, <2>2, <2>3, SilentInv
<1>3. CASE Poll \/ UNCHANGED traceVars
  <2>1. UNCHANGED streamVars
    BY <1>3 DEF Poll, traceVars
  <2>2. Telling'
    BY <2>1 DEF streamVars, TraceInv, Telling, Decided
  <2>3. QED
    BY <2>1, <2>2, SilentInv DEF streamVars, TraceInv, TraceTyped
<1>4. QED
  BY <1>1, <1>2, <1>3, StartInv, AskInv, DeltaInv, RecordInv, ReasoningInv, ActionInv,
     ObservationInv DEF TraceNext, GraphNext

-----------------------------------------------------------------------------
(* However often the process is lost and its nodes are executed again, what
   they tell the trace agrees with what it has: the run is not failed by it. *)
THEOREM SpecRunSurvivesItsTrace ==
  ASSUME Deployment
  PROVE  TraceSpec => []RunSurvivesItsTrace
<1>1. TraceInit => TraceInv
  BY TraceInitInv DEF Deployment
<1>2. TraceInv /\ [TraceNext]_traceVars => TraceInv'
  BY TraceNextInv
<1>3. TraceInv => RunSurvivesItsTrace
  BY DEF TraceInv, RunSurvivesItsTrace
<1>4. QED
  BY <1>1, <1>2, <1>3, PTL DEF TraceSpec

-----------------------------------------------------------------------------
(* The types of the trace: the process and the page of a reader. *)

(* Where the process and the page are. *)
Placing ==
  /\ DOMAIN proc = {"node", "at", "answer", "attempt", "deltas"}
  /\ proc.node \in 1 .. Last + 1 /\ stored \in 1 .. Last + 1 /\ stored <= proc.node
  /\ refused \in BOOLEAN

Paging ==
  /\ \E S : stream \in Seq(S)
  /\ cursor \in 0 .. Len(stream) /\ shown \subseteq 1 .. Len(stream)

LEMMA Placings ==
  ASSUME MaxDecisions \in Nat, Placing, [TraceNext]_traceVars
  PROVE  Placing'
<1>1. Last \in Nat
  BY DEF Last
<1>2. CASE StartAsking \/ TellDelta \/ RecordDecision \/ \E text \in Texts : AskModel(text)
  <2>1. UNCHANGED stored /\ refused' \in BOOLEAN
    BY <1>2 DEF StartAsking, TellDelta, RecordDecision, AskModel, Emit, Placing
  <2>2. DOMAIN proc' = DOMAIN proc /\ proc'.node = proc.node
    BY <1>2 DEF StartAsking, TellDelta, RecordDecision, AskModel, Goto, Placing
  <2> QED BY <2>1, <2>2 DEF Placing
<1>3. CASE TellReasoning
  <2>1. UNCHANGED stored /\ refused' \in BOOLEAN /\ proc.node <= Last
    BY <1>3 DEF TellReasoning, Emit, Working, Placing
  <2>2. CASE EndNode
    BY <1>1, <2>1, <2>2 DEF EndNode, Entering, Placing
  <2>3. CASE Goto("act")
    BY <2>1, <2>3 DEF Goto, Placing
  <2> QED BY <1>3, <2>2, <2>3 DEF TellReasoning
<1>4. CASE TellAction \/ \E text \in Texts : TellObservation(text)
  <2>1. UNCHANGED stored /\ refused' \in BOOLEAN /\ proc.node <= Last /\ EndNode
    BY <1>4 DEF TellAction, TellObservation, Emit, Working, Placing
  <2> QED BY <1>1, <2>1 DEF EndNode, Entering, Placing
<1>5. CASE SaveCheckpoint \/ Lose
  BY <1>1, <1>5 DEF SaveCheckpoint, Lose, Entering, Placing
<1>6. CASE Poll \/ UNCHANGED traceVars
  BY <1>6 DEF Poll, traceVars, streamVars, Placing
<1> QED BY <1>2, <1>3, <1>4, <1>5, <1>6 DEF TraceNext, GraphNext

LEMMA Pagings ==
  ASSUME PageLimit \in Nat, Paging, [TraceNext]_traceVars
  PROVE  Paging'
<1>1. CASE UNCHANGED <<stream, cursor, shown>>
  BY <1>1 DEF Paging
<1>2. ASSUME UNCHANGED pageVars, NEW r, stream' = Append(stream, r)
      PROVE  Paging'
  <2>1. PICK S : stream \in Seq(S)
    BY DEF Paging
  <2>2. stream \in Seq(S \cup {r})
    <3>1. Seq(S) \subseteq Seq(S \cup {r})
      OBVIOUS
    <3> QED BY <2>1, <3>1
  <2>3. stream' \in Seq(S \cup {r}) /\ Len(stream') = Len(stream) + 1 /\ Len(stream) \in Nat
    BY <1>2, <2>2
  <2> QED BY <1>2, <2>3 DEF Paging, pageVars
<1>3. CASE Poll
  <2>1. Len(stream) \in Nat
    BY DEF Paging
  <2>2. PageEnd \in cursor .. Len(stream)
    BY <1>3, <2>1 DEF Poll, PageEnd, Paging
  <2>3. Entries(PageEnd) \subseteq 1 .. Len(stream)
    BY <2>1, <2>2 DEF Entries, Paging
  <2>4. /\ stream' = stream /\ cursor' = PageEnd /\ shown' = shown \cup Entries(PageEnd)
        /\ cursor \in Nat /\ shown \subseteq 1 .. Len(stream)
    BY <1>3, <2>1 DEF Poll, streamVars, NextSequence, Paging
  <2>5. cursor' \in 0 .. Len(stream')
    BY <2>1, <2>2, <2>4
  <2>6. shown' \subseteq 1 .. Len(stream')
    BY <2>3, <2>4
  <2> QED BY <2>4, <2>5, <2>6 DEF Paging
<1>4. GraphNext => UNCHANGED pageVars /\ (UNCHANGED stream \/ \E r : stream' = Append(stream, r))
  BY DEF GraphNext, StartAsking, TellDelta, RecordDecision, TellReasoning, TellAction, AskModel,
         TellObservation, SaveCheckpoint, Lose, Emit, Recorded
<1> QED BY <1>1, <1>2, <1>3, <1>4 DEF TraceNext, traceVars, streamVars, pageVars

(* The process and its checkpoint stand at nodes of the graph, and the page
   has read and shown nothing that is not in the stream.                    *)
THEOREM SpecTraceTypeOK ==
  ASSUME MaxDecisions \in Nat, PageLimit \in Nat
  PROVE  TraceSpec => []TraceTypeOK
<1>1. TraceInit => Placing /\ Paging
  <2> SUFFICES ASSUME TraceInit PROVE Placing /\ Paging
    OBVIOUS
  <2>1. Last \in Nat
    BY DEF Last
  <2>2. stream \in Seq({}) /\ Len(stream) = 0
    BY DEF TraceInit
  <2>3. Placing
    <3>1. proc = Entering(1) /\ stored = 1 /\ refused \in BOOLEAN
      BY DEF TraceInit
    <3> QED BY <2>1, <3>1 DEF Entering, Placing
  <2>4. Paging
    BY <2>2 DEF TraceInit, Paging
  <2> QED BY <2>3, <2>4
<1>2. Placing /\ Paging /\ [TraceNext]_traceVars => (Placing /\ Paging)'
  BY Placings, Pagings
<1>3. Placing /\ Paging => TraceTypeOK
  <2> SUFFICES ASSUME Placing, Paging PROVE TraceTypeOK
    OBVIOUS
  <2>1. DOMAIN stream = 1 .. Len(stream)
    BY DEF Paging
  <2> QED BY <2>1 DEF Placing, Paging, TraceTypeOK
<1> QED BY <1>1, <1>2, <1>3, PTL DEF TraceSpec
-----------------------------------------------------------------------------
(* The adapters of a process.  An analysis that is counted when it captures its
   adapter holds back every closing: what is closed, or taken to be closed
   (Doomed), was taken while nobody was counted, and an analysis that begins
   afterwards captures the adapter in force, which was never retired.         *)
Using  == {t \in Investigations : task[t].pc = "using"}
Doomed == closed \cup retirement.batch

AdapterInv ==
  /\ current \in Nat
  /\ active = Cardinality(Using)
  /\ task \in [Investigations ->
                 [pc : {"new", "creating", "using", "done"}, adapter : Nat]]
  /\ \A a \in retired \cup Doomed : a \in Nat /\ a < current
  /\ \A t \in Analyses : /\ task[t].pc # "creating"
                         /\ task[t].pc = "using" => task[t].adapter \notin Doomed

(* A task that begins to use its adapter is counted, and one that ends is not. *)
LEMMA UsersAreCounted ==
  ASSUME AdapterInv, IsFiniteSet(Investigations), NEW t \in Investigations,
         NEW r, r \in [pc : {"new", "creating", "using", "done"}, adapter : Nat],
         task' = [task EXCEPT ![t] = r],
         active' = IF r.pc = "using" THEN active + 1
                   ELSE IF task[t].pc = "using" THEN active - 1 ELSE active,
         r.pc = "using" => task[t].pc # "using"
  PROVE  /\ active' = Cardinality(Using')
         /\ task' \in [Investigations ->
                         [pc : {"new", "creating", "using", "done"}, adapter : Nat]]
<1>1. IsFiniteSet(Using)
  BY FS_Subset DEF Using
<1>2. DOMAIN task = Investigations
  BY DEF AdapterInv
<1>3. \A u \in Investigations : task'[u] = IF u = t THEN r ELSE task[u]
  BY <1>2
<1>4. active = Cardinality(Using)
  BY DEF AdapterInv
<1>5. Cardinality(Using) \in Nat
  BY <1>1, FS_CardinalityType
<1>6. CASE r.pc = "using"
  <2>1. Using' = Using \cup {t}
    BY <1>3, <1>6 DEF Using
  <2>2. t \notin Using
    BY <1>6 DEF Using
  <2>3. Cardinality(Using') = Cardinality(Using) + 1
    BY <1>1, <2>1, <2>2, FS_AddElement
  <2> QED BY <1>4, <1>6, <2>3 DEF AdapterInv
<1>7. CASE r.pc # "using" /\ task[t].pc = "using"
  <2>1. Using' = Using \ {t}
    BY <1>3, <1>7 DEF Using
  <2>2. t \in Using
    BY <1>7 DEF Using
  <2>3. Cardinality(Using') = Cardinality(Using) - 1
    BY <1>1, <2>1, <2>2, FS_RemoveElement
  <2> QED BY <1>4, <1>7, <2>3 DEF AdapterInv
<1>8. CASE r.pc # "using" /\ task[t].pc # "using"
  <2>1. Using' = Using
    BY <1>3, <1>8 DEF Using
  <2> QED BY <1>4, <1>8, <2>1 DEF AdapterInv
<1> QED BY <1>6, <1>7, <1>8

(* Whatever replaces, takes or closes adapters, no step takes away the one that
   a counted analysis uses.                                                   *)
LEMMA AdapterNextInv ==
  ASSUME IsFiniteSet(Investigations), Analyses \cap Reanalyses = {},
         AdapterInv, [RetirementNext]_adapterVars
  PROVE  AdapterInv'
<1> USE DEF Doomed
<1>1. CASE Apply
  <2>1. current' = current + 1 /\ retired' = retired \cup {current}
    BY <1>1 DEF Apply
  <2>2. retirement' = retirement \/ retirement' = [running |-> TRUE, batch |-> {}]
    BY <1>1 DEF Apply, Scheduled
  <2>3. Doomed' \subseteq Doomed
    BY <1>1, <2>2 DEF Apply
  <2>4. active' = active /\ task' = task /\ Using' = Using
    BY <1>1 DEF Apply, Using
  <2>5. \A a \in (retired \cup Doomed)' : a \in Nat /\ a < current'
    BY <2>1, <2>3 DEF AdapterInv
  <2> QED BY <2>1, <2>3, <2>4, <2>5 DEF AdapterInv
<1>2. CASE CloseBatch
  <2>1. /\ active = 0 /\ current' = current /\ active' = active /\ task' = task
        /\ closed' = closed /\ retired' = {} /\ Using' = Using
    BY <1>2 DEF CloseBatch, Using
  <2>2. retirement'.batch \subseteq retired \cup retirement.batch
    BY <1>2 DEF CloseBatch
  <2>3. Using = {}
    <3>1. IsFiniteSet(Using)
      BY FS_Subset DEF Using
    <3> QED BY <2>1, <3>1, FS_EmptySet DEF AdapterInv
  <2>4. \A t \in Analyses : task'[t].pc # "using"
    BY <2>1, <2>3 DEF Using, Investigations
  <2>5. \A a \in (retired \cup Doomed)' : a \in Nat /\ a < current'
    BY <2>1, <2>2 DEF AdapterInv
  <2> QED BY <2>1, <2>4, <2>5 DEF AdapterInv
<1>3. CASE \E a \in 0 .. MaxGeneration : CloseOne(a)
  <2>1. /\ current' = current /\ active' = active /\ task' = task
        /\ retired' = retired /\ Using' = Using
    BY <1>3 DEF CloseOne, Using
  <2>2. Doomed' \subseteq Doomed
    BY <1>3 DEF CloseOne
  <2> QED BY <2>1, <2>2 DEF AdapterInv
<1>4. CASE CloseEnds
  <2>1. /\ current' = current /\ active' = active /\ task' = task
        /\ retired' = retired /\ Using' = Using
    BY <1>4 DEF CloseEnds, Using
  <2>2. Doomed' \subseteq Doomed
    BY <1>4 DEF CloseEnds, NoRetirement
  <2> QED BY <2>1, <2>2 DEF AdapterInv
<1>5. ASSUME NEW t \in Investigations,
             Begin(t) \/ Capture(t) \/ NotCreated(t) \/ BackgroundRun(t) \/ End(t)
      PROVE  AdapterInv'
  <2> DEFINE Records == [pc : {"new", "creating", "using", "done"}, adapter : Nat]
  <2>1. current' = current /\ closed' = closed /\ retired' = retired
    BY <1>5 DEF Begin, Capture, NotCreated, BackgroundRun, End
  <2>2. retirement' = retirement \/ retirement' = [running |-> TRUE, batch |-> {}]
    BY <1>5 DEF Begin, Capture, NotCreated, BackgroundRun, End, Scheduled
  <2>3. Doomed' \subseteq Doomed
    BY <2>1, <2>2
  <2>4. current \in Nat /\ task \in [Investigations -> Records] /\ task[t] \in Records
    BY DEF AdapterInv
  <2>5. active \in Nat
    <3>1. IsFiniteSet(Using)
      BY FS_Subset DEF Using
    <3> QED BY <3>1, FS_CardinalityType DEF AdapterInv
  <2>6. current \notin Doomed
    BY <2>4 DEF AdapterInv
  <2> DEFINE Becomes(r) ==
        /\ task' = [task EXCEPT ![t] = r]
        /\ active' = IF r.pc = "using" THEN active + 1
                     ELSE IF task[t].pc = "using" THEN active - 1 ELSE active
        /\ r.pc = "using" => task[t].pc # "using"
        /\ t \in Analyses => /\ r.pc # "creating"
                             /\ r.pc = "using" => r.adapter = current
      Captured(where) == [pc |-> where, adapter |-> current]
      Moved(where)    == [pc |-> where, adapter |-> task[t].adapter]
  <2>7. \E r \in Records : Becomes(r)
    <3>1. \A where : [task[t] EXCEPT !.pc = where] = Moved(where)
      BY <2>4
    <3>2. \A where \in {"new", "creating", "using", "done"} :
            Captured(where) \in Records /\ Moved(where) \in Records
      BY <2>4
    <3>3. Begin(t) => Becomes(Captured("using"))
      BY DEF Begin
    <3>4. Capture(t) => Becomes(Captured("creating"))
      BY DEF Capture
    <3>5. NotCreated(t) => Becomes(Moved("done"))
      BY <2>4, <3>1 DEF NotCreated
    <3>6. BackgroundRun(t) => Becomes(Moved("using"))
      <4>1. BackgroundRun(t) => t \notin Analyses
        BY DEF BackgroundRun, AdapterInv
      <4> QED BY <2>4, <3>1, <4>1 DEF BackgroundRun
    <3>7. End(t) => Becomes(Moved("done"))
      BY <2>4, <3>1 DEF End
    <3> HIDE DEF Becomes, Records
    <3> QED BY <1>5, <3>2, <3>3, <3>4, <3>5, <3>6, <3>7
  <2>8. PICK r \in Records : Becomes(r)
    BY <2>7
  <2>9. active' = Cardinality(Using') /\ task' \in [Investigations -> Records]
    BY <2>8, UsersAreCounted
  <2>10. \A u \in Analyses : /\ task'[u].pc # "creating"
                             /\ task'[u].pc = "using" => task'[u].adapter \notin Doomed'
    <3> SUFFICES ASSUME NEW u \in Analyses
                 PROVE  /\ task'[u].pc # "creating"
                        /\ task'[u].pc = "using" => task'[u].adapter \notin Doomed'
      OBVIOUS
    <3>1. CASE u = t
      BY <2>3, <2>4, <2>6, <2>8, <3>1
    <3>2. CASE u # t
      <4>1. task'[u] = task[u]
        BY <2>4, <2>8, <3>2 DEF Investigations
      <4> QED BY <2>3, <4>1 DEF AdapterInv
    <3> QED BY <3>1, <3>2
  <2>11. \A a \in (retired \cup Doomed)' : a \in Nat /\ a < current'
    BY <2>1, <2>3 DEF AdapterInv
  <2> HIDE DEF Doomed
  <2> QED BY <2>1, <2>4, <2>9, <2>10, <2>11 DEF AdapterInv
<1>6. CASE UNCHANGED adapterVars
  BY <1>6 DEF adapterVars, AdapterInv, Using
<1> QED BY <1>1, <1>2, <1>3, <1>4, <1>5, <1>6 DEF RetirementNext

(* An analysis of the scheduler and a probe of the administrator are counted when
   they capture their adapter, and it is open until they end, however many
   settings are applied and whatever is closed meanwhile.  (A reanalysis is
   counted too late: ClaimedRunsKeepTheirAdapter does not hold.)               *)
THEOREM SpecCountedRunsKeepTheirAdapter ==
  ASSUME IsFiniteSet(Investigations), Analyses \cap Reanalyses = {}
  PROVE  RetirementSpec => []CountedRunsKeepTheirAdapter
<1>1. RetirementInit => AdapterInv
  <2> SUFFICES ASSUME RetirementInit PROVE AdapterInv
    OBVIOUS
  <2>1. task = [t \in Investigations |-> [pc |-> "new", adapter |-> 0]]
    BY DEF RetirementInit
  <2>2. Using = {} /\ Cardinality({}) = 0
    BY <2>1, FS_EmptySet DEF Using
  <2>3. \A t \in Analyses : task[t].pc = "new"
    BY <2>1 DEF Investigations
  <2>4. retired \cup Doomed = {}
    BY DEF RetirementInit, NoRetirement, Doomed
  <2> QED BY <2>1, <2>2, <2>3, <2>4 DEF RetirementInit, AdapterInv
<1>2. AdapterInv /\ [RetirementNext]_adapterVars => AdapterInv'
  BY AdapterNextInv
<1>3. AdapterInv => CountedRunsKeepTheirAdapter
  BY DEF AdapterInv, Doomed, CountedRunsKeepTheirAdapter
<1> QED BY <1>1, <1>2, <1>3, PTL DEF RetirementSpec
=================================================================================
