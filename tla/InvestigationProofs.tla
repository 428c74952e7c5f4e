------------------------- MODULE InvestigationProofs -------------------------
(***************************************************************************)
(* Proofs about what an investigation keeps and what is made of it: the    *)
(* checkpoints of a generic MCP investigation, the facts of a Prometheus   *)
(* investigation, the parts of an Archery result, and the conclusion.  They *)
(* hold for every set of calls, rows, metrics and evidence.                *)
(***************************************************************************)
EXTENDS GenericInvestigation, PrometheusInvestigation, EvidenceUnits, Conclusion,
        FiniteSetTheorems, TLAPS

-----------------------------------------------------------------------------
(* The generic investigation.  Three records of the same conversation are
   compared: the checkpoint (Restored), the artifacts (kept) and the memory of
   the process.  The memory is never more than one response ahead of the
   checkpoint, and never behind an artifact.                               *)

Conversation ==
  [responses : Seq(Response), observations : Seq(Response), round : Nat,
   pending : Nat, completed : BOOLEAN]

AgentState ==
  [at : Investigating \cup {"idle", "persist", "salvage", "done", "failed"},
   mem : Conversation, call : Calls \cup {"finish", None}, next : Nat \ {0},
   result : {None, "no_tools", "NO_DATA", "SUCCESS"}]

Typed ==
  /\ Restored \in Conversation
  /\ kept \in [Indices -> Response \cup {None}]
  /\ agent \in AgentState
  /\ paid \in 0 .. MaxReplies

(* What is durable agrees: the artifacts are those of the checkpoint and at
   most the one response that follows it, which an open checkpoint adopts.   *)
DurableAgrees ==
  /\ Consistent(Restored)
  /\ Len(Restored.responses) <= paid
  /\ \A i \in Indices :
       kept[i] # None =>
         /\ kept[i].round = i /\ i <= paid
         /\ i <= Len(Restored.responses) + 1
         /\ Restored.pending # 0 \/ Restored.completed => i <= Len(Restored.responses)
         /\ i <= Len(Restored.responses) => kept[i] = Restored.responses[i]

Active == Investigating \cup {"persist", "salvage"}

Numbered(m) == \A i \in 1 .. Len(m.responses) : m.responses[i].round = i

(* The memory continues the checkpoint and knows every artifact. *)
Continues(m) ==
  /\ Len(Restored.responses) <= Len(m.responses)
  /\ Len(m.responses) <= Len(Restored.responses) + 1
  /\ Len(m.responses) <= paid
  /\ \A i \in 1 .. Len(Restored.responses) : m.responses[i] = Restored.responses[i]
  /\ Len(m.responses) > Len(Restored.responses) =>
       Restored.pending = 0 /\ ~Restored.completed
  /\ Numbered(m)
  /\ \A i \in Indices : kept[i] # None => i <= Len(m.responses)

(* The checkpoint is up to date and open: nothing is pending in it. *)
UpToDate(m) ==
  /\ Len(m.responses) = Len(Restored.responses)
  /\ Restored.pending = 0 /\ ~Restored.completed

Settled(m) == m.pending = 0 /\ Len(m.observations) = Len(m.responses)

(* The shape of the conversation at each place of the loop. *)
Shape(place, m) ==
  /\ place \in {"connect", "ask"} =>
       UpToDate(m) /\ Settled(m) /\ ~m.completed /\ m.round = Len(m.responses)
  /\ place = "applied" => Settled(m) /\ ~m.completed /\ m.round = Len(m.responses)
  /\ place \in {"announce", "call"} =>
       UpToDate(m) /\ Settled(m) /\ ~m.completed /\ m.round = Len(m.responses) + 1
  /\ place \in {"stage", "apply"} =>
       /\ m.pending = Len(m.responses) /\ m.pending = Len(m.observations) + 1
       /\ ~m.completed /\ m.round = Len(m.responses)
  /\ place = "finish" =>
       UpToDate(m) /\ Settled(m) /\ m.completed /\ m.round = Len(m.responses) + 1

Inv ==
  /\ Typed
  /\ DurableAgrees
  /\ agent.at \in Active => Continues(mem)
  /\ Shape(agent.at, mem)
  /\ ArtifactsAgree

-----------------------------------------------------------------------------
LEMMA FreshType == Fresh \in Conversation /\ Len(Fresh.responses) = 0 /\ Consistent(Fresh)
BY DEF Fresh, Conversation, Consistent

LEMMA IdleType ==
  ASSUME NEW place \in {"idle", "failed", "persist", "apply", "connect"}
  PROVE  /\ Blank(place) \in AgentState /\ Blank(place).at = place
         /\ Blank(place).mem = Fresh
BY FreshType DEF Blank, AgentState, Investigating

LEMMA Memory2 ==
  ASSUME Inv
  PROVE  /\ mem \in Conversation /\ mem.responses \in Seq(Response)
         /\ mem.observations \in Seq(Response) /\ Len(mem.responses) \in Nat
         /\ Len(mem.observations) \in Nat
         /\ Restored \in Conversation /\ Restored.responses \in Seq(Response)
         /\ Len(Restored.responses) \in Nat
BY DEF Inv, Typed, AgentState, mem, Conversation

LEMMA InitInv == MaxReplies \in Nat /\ GenericInit => Inv
<1> SUFFICES ASSUME MaxReplies \in Nat, GenericInit
             PROVE  Inv
  OBVIOUS
<1>1. Restored = Fresh /\ agent = Blank("idle") /\ \A i \in Indices : kept[i] = None
  BY DEF GenericInit, Restored
<1>2. mem = Fresh /\ agent.at = "idle"
  BY <1>1, IdleType DEF mem
<1>3. Typed
  BY <1>1, FreshType, IdleType DEF GenericInit, Typed
<1>4. DurableAgrees
  BY <1>1, FreshType DEF GenericInit, DurableAgrees
<1>5. ArtifactsAgree
  BY <1>2 DEF ArtifactsAgree, Fresh
<1>6. QED
  BY <1>2, <1>3, <1>4, <1>5 DEF Inv, Shape, Active, Investigating

(* A step that writes nothing durable and leaves the loop. *)
LEMMA LeavesLoop ==
  ASSUME Inv, NEW s \in AgentState, agent' = s, UNCHANGED <<saved, kept, paid>>,
         s.at \in {"idle", "failed", "done", "salvage", "persist"},
         s.at \in {"salvage", "persist"} => agent.at \in Active,
         s.mem = mem \/ (s.mem = Fresh /\ s.at \notin Active)
  PROVE  Inv'
<1>1. Restored' = Restored /\ mem' = s.mem /\ agent'.at = s.at
  BY DEF Restored, mem
<1>2. Typed' /\ DurableAgrees'
  BY <1>1 DEF Inv, Typed, DurableAgrees, Consistent
<1>3. Shape(agent.at, mem)'
  BY <1>1 DEF Shape
<1>4. agent'.at \in Active => Continues(mem)'
  BY <1>1 DEF Inv, Continues, Numbered, Active, Investigating
<1>5. ArtifactsAgree'
  BY <1>1 DEF Inv, ArtifactsAgree, Conflict, Fresh
<1>6. QED
  BY <1>2, <1>3, <1>4, <1>5 DEF Inv

(* A step inside the loop that writes nothing durable and changes at most the
   observations and the round.                                              *)
LEMMA InLoop ==
  ASSUME Inv, NEW s \in AgentState, agent' = s, UNCHANGED <<saved, kept, paid>>,
         agent.at \in Active, s.mem.responses = mem.responses, Shape(s.at, s.mem)
  PROVE  Inv'
<1>1. Restored' = Restored /\ mem' = s.mem /\ agent'.at = s.at
  BY DEF Restored, mem
<1>2. Typed' /\ DurableAgrees'
  BY <1>1 DEF Inv, Typed, DurableAgrees, Consistent
<1>3. Shape(agent.at, mem)'
  BY <1>1 DEF Shape, UpToDate, Settled
<1>4. Continues(mem)'
  BY <1>1 DEF Inv, Continues, Numbered
<1>5. ArtifactsAgree'
  BY <1>1 DEF Inv, ArtifactsAgree, Conflict
<1>6. QED
  BY <1>2, <1>3, <1>4, <1>5 DEF Inv

(* The memory becomes the checkpoint. *)
LEMMA Saves ==
  ASSUME None \notin Conversation, Inv, NEW s \in AgentState, agent' = s,
         s.mem = mem, saved' = mem, UNCHANGED <<kept, paid>>,
         agent.at \in {"stage", "applied", "finish"},
         s.at = "salvage"
           \/ (agent.at = "stage" /\ s.at = "apply")
           \/ (agent.at = "applied" /\ s.at \in {"connect", "ask"})
           \/ (agent.at = "finish" /\ s.at = "persist")
  PROVE  Inv'
<1>1. Restored' = mem /\ mem' = mem /\ agent'.at = s.at
  BY Memory2 DEF Restored, mem
<1>2. agent.at \in Active /\ Continues(mem) /\ Shape(agent.at, mem)
  BY DEF Inv, Active, Investigating
<1>3. Typed'
  BY <1>1, Memory2 DEF Inv, Typed
<1>4. \A i \in Indices : kept[i] # None =>
        /\ kept[i].round = i /\ i <= paid /\ i <= Len(mem.responses)
        /\ kept[i] = mem.responses[i]
  BY <1>2, Memory2 DEF Inv, DurableAgrees, Continues, ArtifactsAgree, Conflict, Indices
<1>5. Consistent(mem)
  <2> DEFINE known == Len(mem.responses)
             seen == Len(mem.observations)
  <2>1. /\ known \in Nat /\ seen \in Nat /\ mem.pending \in Nat
        /\ mem.completed \in BOOLEAN
    BY Memory2 DEF Conversation
  <2>2. /\ agent.at = "stage" => mem.pending = known /\ mem.pending = seen + 1
                                 /\ ~mem.completed /\ mem.round = known
        /\ agent.at = "applied" => mem.pending = 0 /\ seen = known
                                   /\ ~mem.completed /\ mem.round = known
        /\ agent.at = "finish" => mem.pending = 0 /\ seen = known
                                  /\ mem.completed /\ mem.round = known + 1
    BY <1>2 DEF Shape, Settled
  <2>3. \A i \in DOMAIN mem.responses : mem.responses[i].round = i
    BY <1>2, Memory2 DEF Continues, Numbered
  <2>4. /\ mem.pending # 0 => mem.pending = seen + 1 /\ mem.pending = known
        /\ known = seen + (IF mem.pending = 0 THEN 0 ELSE 1)
        /\ mem.completed => mem.pending = 0
        /\ mem.round = known + (IF mem.completed THEN 1 ELSE 0)
    <3> HIDE DEF known, seen
    <3>1. QED
      BY <2>1, <2>2
  <2>5. QED
    BY <2>3, <2>4 DEF Consistent
<1>6. DurableAgrees'
  <2>1. Consistent(Restored)'
    BY <1>1, <1>5 DEF Consistent
  <2>2. \A i \in Indices : i \in Nat
    BY DEF Indices
  <2>3. QED
    BY <1>1, <1>2, <1>4, <2>1, <2>2, Memory2 DEF DurableAgrees, Continues
<1>7. Continues(mem)'
  BY <1>1, <1>2, <1>4, Memory2 DEF Continues, Numbered
<1>8. Shape(agent.at, mem)'
  BY <1>1, <1>2 DEF Shape, UpToDate, Settled
<1>9. ArtifactsAgree'
  BY <1>1 DEF Inv, ArtifactsAgree, Conflict
<1>10. QED
  BY <1>3, <1>6, <1>7, <1>8, <1>9 DEF Inv

-----------------------------------------------------------------------------
(* Execute: the checkpoint, with the artifact that follows it. *)

LEMMA AdoptType ==
  ASSUME NEW m \in Conversation, NEW x \in Response
  PROVE  /\ TakeOver(m, x) \in Conversation
         /\ TakeOver(m, x).responses = Append(m.responses, x)
         /\ TakeOver(m, x).observations = m.observations
         /\ TakeOver(m, x).pending = Len(m.responses) + 1
         /\ TakeOver(m, x).round = x.round /\ TakeOver(m, x).completed = m.completed
         /\ m.responses \in Seq(Response)
<1>1. Append(m.responses, x) \in Seq(Response) /\ Len(m.responses) + 1 \in Nat
  BY DEF Conversation
<1>2. x.round \in Nat
  BY DEF Response
<1>3. QED
  BY <1>1, <1>2 DEF TakeOver, Conversation

LEMMA ConsistentMeans ==
  ASSUME NEW m \in Conversation, Consistent(m)
  PROVE  /\ m.pending # 0 => m.pending = Len(m.observations) + 1 /\ m.pending = Len(m.responses)
         /\ m.pending = 0 => Len(m.responses) = Len(m.observations)
         /\ m.completed => m.pending = 0
         /\ ~m.completed => m.round = Len(m.responses)
         /\ Numbered(m)
<1> DEFINE known == Len(m.responses)
           seen == Len(m.observations)
<1>1. /\ known \in Nat /\ seen \in Nat /\ DOMAIN m.responses = 1 .. known
  BY DEF Conversation
<1>2. /\ m.pending # 0 => m.pending = seen + 1 /\ m.pending = known
      /\ known = seen + (IF m.pending = 0 THEN 0 ELSE 1)
      /\ m.completed => m.pending = 0
      /\ m.round = known + (IF m.completed THEN 1 ELSE 0)
  BY DEF Consistent
<1>3. Numbered(m)
  BY <1>1 DEF Consistent, Numbered
<1> HIDE DEF known, seen
<1>4. /\ m.pending = 0 => known = seen
      /\ ~m.completed => m.round = known
  BY <1>1, <1>2
<1>5. QED
  BY <1>2, <1>3, <1>4 DEF known, seen

LEMMA ExecuteInv ==
  ASSUME MaxReplies \in Nat, None \notin Response, Inv, StartExecution
  PROVE  Inv'
<1> DEFINE R == Restored
           m == WithOrphan(Restored)
           index == Len(R.responses) + 1
           place == IF m.completed THEN "persist"
                    ELSE IF m.pending # 0 THEN "apply" ELSE "connect"
<1>6. R = Restored /\ m = WithOrphan(R) /\ index = Len(R.responses) + 1
  OBVIOUS
<1>1. /\ R \in Conversation /\ R.responses \in Seq(Response) /\ R.observations \in Seq(Response)
      /\ Len(R.responses) \in Nat /\ Consistent(R) /\ R.pending \in Nat
      /\ R.completed \in BOOLEAN /\ Len(R.responses) <= paid /\ paid \in 0 .. MaxReplies
      /\ Len(R.observations) \in Nat /\ R.round \in Nat
  BY Memory2 DEF Inv, DurableAgrees, Typed, Conversation
<1>2. Restored' = Restored /\ UNCHANGED <<saved, kept, paid>>
  BY DEF StartExecution, Restored
<1>3. CASE agent' = Blank("failed")
  BY <1>2, <1>3, IdleType, LeavesLoop DEF Active, Investigating
<1>4. CASE agent' # Blank("failed")
  <2>1. /\ Orphan(R) # None => Orphan(R).round = R.round + 1
        /\ agent' = [Blank(place) EXCEPT !.mem = m]
    BY <1>4 DEF StartExecution
  <2>3. /\ place \in {"persist", "apply", "connect"}
        /\ place = "persist" <=> m.completed
        /\ place = "apply" <=> ~m.completed /\ m.pending # 0
    OBVIOUS
  <2>11. DOMAIN R.responses = 1 .. Len(R.responses)
    BY <1>1
  <2>12. /\ R.pending # 0 => R.pending = Len(R.observations) + 1 /\ R.pending = Len(R.responses)
         /\ R.pending = 0 => Len(R.responses) = Len(R.observations)
         /\ R.completed => R.pending = 0
         /\ ~R.completed => R.round = Len(R.responses)
         /\ Numbered(R)
    BY <1>1, ConsistentMeans
  <2> HIDE DEF R, m, index, place
  <2>2. /\ m \in Conversation /\ m.responses \in Seq(Response)
        /\ Len(R.responses) <= Len(m.responses) /\ Len(m.responses) <= index
        /\ Len(m.responses) <= paid
        /\ \A i \in 1 .. Len(R.responses) : m.responses[i] = R.responses[i]
        /\ Len(m.responses) > Len(R.responses) => R.pending = 0 /\ ~R.completed
        /\ Numbered(m)
        /\ \A i \in Indices : kept[i] # None =>
              i <= Len(m.responses) /\ kept[i] = m.responses[i]
        /\ m.pending = 0 => UpToDate(m) \/ m.completed
        /\ m.pending # 0 => m.pending = Len(m.responses) /\ m.pending = Len(m.observations) + 1
                            /\ ~m.completed
        /\ m.pending = 0 => Len(m.observations) = Len(m.responses)
        /\ ~m.completed => m.round = Len(m.responses)
    <3>1. CASE Orphan(R) = None
      <4>1. m = R
        BY <1>6, <3>1 DEF WithOrphan
      <4>2. \A i \in Indices : kept[i] # None =>
              i <= Len(R.responses) /\ kept[i] = R.responses[i]
        <5>1. ASSUME NEW i \in Indices, kept[i] # None, i = index
              PROVE  FALSE
          <6>1. R.pending = 0 /\ ~R.completed
            BY <1>1, <1>6, <5>1 DEF Inv, DurableAgrees
          <6>2. QED
            BY <1>6, <3>1, <5>1, <6>1 DEF Orphan
        <5>2. QED
          BY <1>1, <1>6, <5>1 DEF Inv, DurableAgrees, Indices
      <4>3. QED
        BY <1>1, <1>6, <2>12, <4>1, <4>2 DEF UpToDate
    <3>2. CASE Orphan(R) # None
      <4>1. /\ ~R.completed /\ R.pending = 0 /\ index \in Indices
            /\ kept[index] # None /\ Orphan(R) = kept[index]
            /\ m = TakeOver(R, kept[index]) /\ kept[index] \in Response
        BY <1>6, <3>2 DEF Orphan, WithOrphan, Inv, Typed
      <4>2. /\ m \in Conversation /\ m.responses = Append(R.responses, kept[index])
            /\ m.observations = R.observations /\ m.pending = index
            /\ m.round = kept[index].round /\ m.completed = R.completed
        <5> DEFINE a == TakeOver(R, kept[index])
        <5>1. /\ a \in Conversation /\ a.responses = Append(R.responses, kept[index])
              /\ a.observations = R.observations /\ a.pending = Len(R.responses) + 1
              /\ a.round = kept[index].round /\ a.completed = R.completed
          <6>1. R \in Conversation /\ kept[index] \in Response
            BY <1>1, <4>1
          <6>2. QED
            BY <6>1, AdoptType
        <5>2. m = a
          BY <4>1
        <5> HIDE DEF a
        <5>3. QED
          BY <1>6, <5>1, <5>2
      <4>3. /\ m.responses \in Seq(Response) /\ Len(m.responses) = index
            /\ \A i \in 1 .. Len(R.responses) : m.responses[i] = R.responses[i]
            /\ m.responses[index] = kept[index]
        BY <1>1, <1>6, <4>1, <4>2
      <4>4. kept[index].round = index /\ index <= paid
        BY <4>1 DEF Inv, DurableAgrees
      <4>5. Numbered(m)
        BY <1>1, <1>6, <2>12, <4>3, <4>4 DEF Numbered
      <4>6. \A i \in Indices : kept[i] # None =>
              i <= Len(m.responses) /\ kept[i] = m.responses[i]
        <5>1. \A i \in Indices : kept[i] # None =>
                i <= index /\ (i <= Len(R.responses) => kept[i] = R.responses[i])
          BY <1>6 DEF Inv, DurableAgrees
        <5>2. QED
          BY <1>1, <1>6, <4>3, <5>1 DEF Indices
      <4>7. /\ Len(R.observations) = Len(R.responses) /\ index > Len(R.responses)
            /\ index # 0 /\ index = Len(m.observations) + 1
        BY <1>1, <1>6, <2>12, <4>1, <4>2
      <4>8. /\ Len(R.responses) <= Len(m.responses) /\ Len(m.responses) <= index
            /\ Len(m.responses) <= paid /\ m.pending # 0 /\ ~m.completed
            /\ m.round = Len(m.responses)
        BY <1>1, <1>6, <4>1, <4>2, <4>3, <4>4, <4>7
      <4>9. QED
        BY <4>1, <4>2, <4>3, <4>5, <4>6, <4>7, <4>8
    <3>3. QED
      BY <3>1, <3>2
  <2>4. /\ agent' \in AgentState /\ agent'.at = place /\ agent'.mem = m
    BY <2>1, <2>2, <2>3, IdleType DEF AgentState
  <2>5. mem' = m
    BY <2>4 DEF mem
  <2>6. Typed' /\ DurableAgrees'
    BY <1>2, <2>4 DEF Inv, Typed, DurableAgrees, Consistent
  <2>7. Continues(mem)'
    BY <1>1, <1>2, <1>6, <2>2, <2>5 DEF Continues, Numbered
  <2>8. Shape(agent.at, mem)'
    BY <1>2, <2>2, <2>3, <2>4, <2>5 DEF Shape, UpToDate, Settled
  <2>9. ArtifactsAgree'
    <3>1. DOMAIN m.responses \subseteq Indices
      BY <1>1, <2>2 DEF Indices
    <3>2. \A i \in DOMAIN m.responses : kept[i] \in {None, m.responses[i]}
      BY <2>2, <3>1
    <3>3. QED
      BY <1>2, <2>5, <3>2 DEF ArtifactsAgree, Conflict
  <2>10. QED
    BY <2>6, <2>7, <2>8, <2>9 DEF Inv
<1>5. QED
  BY <1>3, <1>4

-----------------------------------------------------------------------------
(* The server answers: the memory is one response ahead of the checkpoint. *)
LEMMA CallInv ==
  ASSUME MaxReplies \in Nat, Inv, NEW reply \in Replies, CallTool(reply),
         agent.call \in Calls
  PROVE  /\ Inv'
         /\ kept[mem.round] = None
         /\ Len(Restored.responses) < mem.round
<1> DEFINE x == [call |-> agent.call, reply |-> reply, round |-> mem.round]
           m == TakeOver(mem, x)
           known == Len(mem.responses)
<1>1. /\ agent.at = "call" /\ paid < MaxReplies /\ paid' = paid + 1
      /\ agent' = [agent EXCEPT !.at = "stage", !.mem = m]
      /\ UNCHANGED <<saved, kept>>
  BY DEF CallTool, Memory
<1>2. /\ Continues(mem) /\ UpToDate(mem) /\ Settled(mem) /\ ~mem.completed
      /\ mem.round = known + 1
  BY <1>1 DEF Inv, Active, Investigating, Shape
<1>3. /\ known \in Nat /\ paid \in 0 .. MaxReplies /\ known <= paid
      /\ Len(Restored.responses) = known
  BY <1>2, Memory2 DEF Inv, Typed, Continues, UpToDate
<1>4. known + 1 \in 1 .. MaxReplies /\ known + 1 <= paid + 1
  BY <1>1, <1>3
<1>5. kept[mem.round] = None
  BY <1>2, <1>3, <1>4 DEF Continues, Indices
<1>6. x \in Response /\ x.round = known + 1
  BY <1>2, <1>4 DEF Response
<1>7. /\ m \in Conversation /\ m.responses = Append(mem.responses, x)
      /\ m.observations = mem.observations /\ m.pending = known + 1
      /\ m.round = known + 1 /\ m.completed = mem.completed
  BY <1>6, Memory2, AdoptType
<1> HIDE DEF m, x
<1>8. /\ Len(m.responses) = known + 1 /\ m.responses[known + 1] = x
      /\ \A i \in 1 .. known : m.responses[i] = mem.responses[i]
      /\ m.responses \in Seq(Response)
  BY <1>3, <1>6, <1>7, Memory2
<1>9. agent' \in AgentState /\ agent'.at = "stage" /\ mem' = m /\ Restored' = Restored
  BY <1>1, <1>7 DEF Inv, Typed, AgentState, Investigating, mem, Restored
<1> HIDE DEF known
<1>10. Typed'
  BY <1>1, <1>3, <1>9 DEF Inv, Typed
<1>11. DurableAgrees'
  <2>1. \A i \in Indices : i \in Nat
    BY DEF Indices
  <2>2. Consistent(Restored)'
    BY <1>9 DEF Inv, DurableAgrees, Consistent
  <2>3. QED
    BY <1>1, <1>3, <1>9, <2>1, <2>2 DEF Inv, DurableAgrees
<1>12. Continues(mem)'
  <2>1. Numbered(m)
    <3>1. \A i \in 1 .. known : mem.responses[i].round = i
      BY <1>2 DEF Continues, Numbered, known
    <3>2. QED
      BY <1>3, <1>6, <1>8, <3>1 DEF Numbered
  <2>2. \A i \in Indices : kept[i] # None => i <= known /\ i \in Nat
    BY <1>2 DEF Continues, Indices, known
  <2>3. \A i \in 1 .. known : mem.responses[i] = Restored.responses[i]
    BY <1>2, <1>3 DEF Continues
  <2>4. Restored.pending = 0 /\ ~Restored.completed
    BY <1>2 DEF UpToDate
  <2>5. QED
    BY <1>1, <1>3, <1>4, <1>8, <1>9, <2>1, <2>2, <2>3, <2>4 DEF Continues, Numbered
<1>13. Shape(agent.at, mem)'
  <2>1. Len(mem.observations) = known
    BY <1>2 DEF Settled, known
  <2>2. QED
    BY <1>2, <1>7, <1>8, <1>9, <2>1 DEF Shape
<1>14. ArtifactsAgree'
  <2>1. DOMAIN m.responses = 1 .. known + 1
    BY <1>3, <1>8
  <2>2. \A i \in 1 .. known : kept[i] \in {None, mem.responses[i]}
    BY <1>3, Memory2 DEF Inv, ArtifactsAgree, Conflict, known
  <2>3. \A i \in 1 .. known + 1 : kept[i] \in {None, m.responses[i]}
    BY <1>2, <1>3, <1>5, <1>8, <2>2 DEF known
  <2>4. QED
    BY <1>1, <1>9, <2>1, <2>3 DEF ArtifactsAgree, Conflict
<1>15. QED
  BY <1>2, <1>3, <1>4, <1>5, <1>10, <1>11, <1>12, <1>13, <1>14 DEF Inv

LEMMA PersistInv ==
  ASSUME MaxReplies \in Nat, Inv, PersistArtifact
  PROVE  Inv'
<1> DEFINE n == agent.next
<1>1. /\ agent.at \in {"persist", "salvage"} /\ n <= Len(mem.responses)
      /\ kept' = [kept EXCEPT ![n] = mem.responses[n]]
      /\ agent' = [agent EXCEPT !.next = @ + 1]
      /\ UNCHANGED <<saved, paid>>
  BY DEF PersistArtifact
<1>2. /\ Continues(mem) /\ paid \in 0 .. MaxReplies /\ n \in Nat \ {0}
      /\ Len(mem.responses) \in Nat /\ kept \in [Indices -> Response \cup {None}]
  BY <1>1, Memory2 DEF Inv, Active, Typed, AgentState
<1>3. /\ n \in 1 .. Len(mem.responses) /\ n \in Indices /\ n <= paid
      /\ mem.responses[n] \in Response /\ mem.responses[n].round = n
  BY <1>1, <1>2, Memory2 DEF Continues, Indices, Numbered
<1>4. /\ agent' \in AgentState /\ agent'.at = agent.at /\ mem' = mem
      /\ Restored' = Restored
  BY <1>1, <1>2 DEF Inv, Typed, AgentState, mem, Restored
<1> HIDE DEF n
<1>5. /\ kept'[n] = mem.responses[n]
      /\ \A i \in Indices : i # n => kept'[i] = kept[i]
      /\ kept' \in [Indices -> Response \cup {None}]
  BY <1>1, <1>2, <1>3
<1>6. Typed'
  BY <1>1, <1>4, <1>5 DEF Inv, Typed
<1>7. DurableAgrees'
  <2>1. Consistent(Restored)'
    BY <1>4 DEF Inv, DurableAgrees, Consistent
  <2>2. /\ n <= Len(Restored.responses) + 1
        /\ Restored.pending # 0 \/ Restored.completed => n <= Len(Restored.responses)
        /\ n <= Len(Restored.responses) => mem.responses[n] = Restored.responses[n]
    BY <1>2, <1>3, Memory2 DEF Continues
  <2>3. QED
    BY <1>1, <1>3, <1>4, <1>5, <2>1, <2>2 DEF Inv, DurableAgrees
<1>8. Continues(mem)'
  BY <1>1, <1>2, <1>3, <1>4, <1>5 DEF Continues, Numbered
<1>9. Shape(agent.at, mem)'
  BY <1>1, <1>4 DEF Shape
<1>10. ArtifactsAgree'
  <2>1. DOMAIN mem.responses \subseteq Indices
    BY <1>2, Memory2 DEF Continues, Indices
  <2>2. QED
    BY <1>4, <1>5, <2>1 DEF Inv, ArtifactsAgree, Conflict
<1>11. QED
  BY <1>6, <1>7, <1>8, <1>9, <1>10 DEF Inv

-----------------------------------------------------------------------------
(* The other steps of the loop. *)
LEMMA LoopInv ==
  ASSUME None \notin Conversation, Inv,
         \/ \E hasTools \in BOOLEAN : OpenSession(hasTools)
         \/ \E asked \in Calls \cup {"finish"} : Ask(asked)
         \/ Announce
         \/ SaveStaged \/ Apply \/ SaveApplied \/ SaveFinished
         \/ \E stored \in BOOLEAN : Raise(stored)
  PROVE  Inv'
<1>1. /\ agent \in AgentState /\ mem \in Conversation /\ Shape(agent.at, mem)
      /\ Len(mem.responses) \in Nat /\ Len(mem.observations) \in Nat
  BY Memory2 DEF Inv, Typed
<1>2. ASSUME NEW hasTools \in BOOLEAN, OpenSession(hasTools)
      PROVE  Inv'
  <2> DEFINE s == [agent EXCEPT !.at = IF hasTools THEN "ask" ELSE "persist",
                                !.result = IF hasTools THEN None ELSE "no_tools"]
  <2>1. /\ agent.at = "connect" /\ agent' = s /\ UNCHANGED <<saved, kept, paid>>
    BY <1>2 DEF OpenSession
  <2>2. CASE hasTools
    <3>1. s \in AgentState /\ s.at = "ask" /\ s.mem = mem
      BY <1>1, <2>2 DEF AgentState, Investigating, mem
    <3>2. Shape("ask", mem)
      BY <1>1, <2>1 DEF Shape
    <3> HIDE DEF s
    <3>3. QED
      BY <2>1, <3>1, <3>2, InLoop DEF Active, Investigating
  <2>3. CASE ~hasTools
    <3>1. s \in AgentState /\ s.at = "persist" /\ s.mem = mem
      BY <1>1, <2>3 DEF AgentState, mem
    <3> HIDE DEF s
    <3>2. QED
      BY <2>1, <3>1, LeavesLoop DEF Active, Investigating
  <2>4. QED
    BY <2>2, <2>3
<1>3. ASSUME NEW asked \in Calls \cup {"finish"}, Ask(asked)
      PROVE  Inv'
  <2> DEFINE s == [agent EXCEPT !.at = "announce", !.call = asked, !.mem.round = @ + 1]
             m == [mem EXCEPT !.round = @ + 1]
  <2>1. agent.at = "ask" /\ agent' = s /\ UNCHANGED <<saved, kept, paid>>
    BY <1>3 DEF Ask
  <2>2. UpToDate(mem) /\ Settled(mem) /\ ~mem.completed /\ mem.round = Len(mem.responses)
    BY <1>1, <2>1 DEF Shape
  <2>3. /\ m \in Conversation /\ m.responses = mem.responses
        /\ m.observations = mem.observations /\ m.pending = mem.pending
        /\ m.completed = mem.completed /\ m.round = Len(mem.responses) + 1
    <3>1. mem.round + 1 \in Nat
      BY <1>1, <2>2
    <3>2. QED
      BY <1>1, <2>2, <3>1 DEF Conversation
  <2>4. s.at = "announce" /\ s.mem = m /\ s \in AgentState
    <3>1. s = [agent EXCEPT !.at = "announce", !.call = asked, !.mem = m]
      BY DEF mem
    <3> HIDE DEF m, s
    <3>2. QED
      BY <1>1, <2>3, <3>1 DEF AgentState, Investigating
  <2> HIDE DEF m, s
  <2>5. Shape("announce", m)
    BY <2>2, <2>3 DEF Shape, UpToDate, Settled
  <2>6. QED
    BY <2>1, <2>3, <2>4, <2>5, InLoop DEF Active, Investigating
<1>4. CASE Announce
  <2>1. /\ agent.at = "announce" /\ UNCHANGED <<saved, kept, paid>>
        /\ UpToDate(mem) /\ Settled(mem) /\ ~mem.completed
        /\ mem.round = Len(mem.responses) + 1
    BY <1>1, <1>4 DEF Announce, Shape
  <2>2. CASE GoTo("salvage")
    <3> DEFINE s == [agent EXCEPT !.at = "salvage"]
    <3>1. s \in AgentState /\ s.at = "salvage" /\ s.mem = mem /\ agent' = s
      BY <1>1, <2>2 DEF AgentState, mem, GoTo
    <3> HIDE DEF s
    <3>2. QED
      BY <2>1, <3>1, LeavesLoop DEF Active, Investigating
  <2>3. CASE GoTo("call")
    <3> DEFINE s == [agent EXCEPT !.at = "call"]
    <3>1. s \in AgentState /\ s.at = "call" /\ s.mem = mem /\ agent' = s
      BY <1>1, <2>3 DEF AgentState, Investigating, mem, GoTo
    <3>2. Shape("call", mem)
      BY <2>1 DEF Shape
    <3> HIDE DEF s
    <3>3. QED
      BY <2>1, <3>1, <3>2, InLoop DEF Active, Investigating
  <2>4. CASE Memory("finish", [mem EXCEPT !.completed = TRUE])
    <3> DEFINE m == [mem EXCEPT !.completed = TRUE]
               s == [agent EXCEPT !.at = "finish", !.mem = m]
    <3>1. /\ m \in Conversation /\ m.responses = mem.responses
          /\ m.observations = mem.observations /\ m.pending = mem.pending
          /\ m.completed /\ m.round = mem.round
      BY <1>1 DEF Conversation
    <3> HIDE DEF m
    <3>2. s \in AgentState /\ s.at = "finish" /\ s.mem = m /\ agent' = s
      BY <1>1, <2>4, <3>1 DEF AgentState, Investigating, Memory, m
    <3>3. Shape("finish", m)
      BY <2>1, <3>1 DEF Shape, UpToDate, Settled
    <3> HIDE DEF s
    <3>4. QED
      BY <2>1, <3>1, <3>2, <3>3, InLoop DEF Active, Investigating
  <2>5. QED
    BY <1>4, <2>2, <2>3, <2>4 DEF Announce
<1>5. ASSUME NEW place \in {"apply", "connect", "ask", "persist"},
             agent' = [agent EXCEPT !.at = place], Save,
             \/ agent.at = "stage" /\ place = "apply"
             \/ agent.at = "applied" /\ place \in {"connect", "ask"}
             \/ agent.at = "finish" /\ place = "persist"
      PROVE  Inv'
  <2> DEFINE s == [agent EXCEPT !.at = place]
  <2>1. s \in AgentState /\ s.at = place /\ s.mem = mem /\ agent' = s
    BY <1>1, <1>5 DEF AgentState, Investigating, mem
  <2> HIDE DEF s
  <2>2. QED
    BY <1>5, <2>1, Saves DEF Save
<1>6. CASE SaveStaged \/ SaveFinished
  BY <1>5, <1>6 DEF SaveStaged, SaveFinished, GoTo
<1>7. CASE SaveApplied
  <2>1. CASE agent.call = None
    BY <1>5, <1>7, <2>1 DEF SaveApplied, GoTo
  <2>2. CASE agent.call # None
    BY <1>5, <1>7, <2>2 DEF SaveApplied, GoTo
  <2>3. QED
    BY <2>1, <2>2
<1>8. CASE Apply
  <2> DEFINE m == [mem EXCEPT !.observations = Append(@, mem.responses[mem.pending]),
                              !.pending = 0]
             s == [agent EXCEPT !.at = "applied", !.mem = m]
  <2>1. agent.at = "apply" /\ UNCHANGED <<saved, kept, paid>> /\ agent' = s
    BY <1>8 DEF Apply, Memory
  <2>2. /\ mem.pending = Len(mem.responses) /\ mem.pending = Len(mem.observations) + 1
        /\ ~mem.completed /\ mem.round = Len(mem.responses)
    BY <1>1, <2>1 DEF Shape
  <2>3. /\ mem.responses[mem.pending] \in Response
        /\ mem.observations \in Seq(Response) /\ mem.responses \in Seq(Response)
    <3>1. mem.observations \in Seq(Response) /\ mem.responses \in Seq(Response)
      BY <1>1 DEF Conversation
    <3>2. Len(mem.observations) \in Nat /\ Len(mem.responses) \in Nat
      BY <3>1
    <3>3. mem.pending \in 1..Len(mem.responses)
      BY <2>2, <3>2
    <3>4. \A q \in Seq(Response) : \A i \in 1..Len(q) : q[i] \in Response
      OBVIOUS
    <3>5. QED
      BY <3>1, <3>3, <3>4
  <2>4. /\ Append(mem.observations, mem.responses[mem.pending]) \in Seq(Response)
        /\ Len(Append(mem.observations, mem.responses[mem.pending])) = Len(mem.responses)
    BY <1>1, <2>2, <2>3
  <2>5. /\ m \in Conversation /\ m.responses = mem.responses /\ m.pending = 0
        /\ Len(m.observations) = Len(mem.responses)
        /\ m.completed = mem.completed /\ m.round = mem.round
    BY <1>1, <2>4 DEF Conversation
  <2> HIDE DEF m
  <2>6. s \in AgentState /\ s.at = "applied" /\ s.mem = m
    BY <1>1, <2>5 DEF AgentState, Investigating
  <2>7. Shape("applied", m)
    BY <2>2, <2>5 DEF Shape, Settled
  <2> HIDE DEF s
  <2>8. QED
    BY <2>1, <2>5, <2>6, <2>7, InLoop DEF Active, Investigating
<1>9. ASSUME NEW stored \in BOOLEAN, Raise(stored)
      PROVE  Inv'
  <2> DEFINE s == [agent EXCEPT !.at = "salvage"]
  <2>1. s \in AgentState /\ s.at = "salvage" /\ s.mem = mem /\ agent' = s
    BY <1>1, <1>9 DEF AgentState, mem, Raise, GoTo
  <2> HIDE DEF s
  <2>2. CASE stored
    <3>1. agent.at \in {"stage", "applied", "finish"} /\ saved' = mem /\ UNCHANGED <<kept, paid>>
      BY <1>9, <2>2 DEF Raise
    <3>2. QED
      BY <2>1, <3>1, Saves
  <2>3. CASE ~stored
    <3>1. agent.at \in Investigating /\ UNCHANGED <<saved, kept, paid>>
      BY <1>9, <2>3 DEF Raise
    <3>2. QED
      BY <2>1, <3>1, LeavesLoop DEF Active
  <2>4. QED
    BY <2>2, <2>3
<1>10. QED
  BY <1>2, <1>3, <1>4, <1>6, <1>7, <1>8, <1>9

LEMMA EndInv ==
  ASSUME Inv, PersistFails \/ Return \/ Lose
  PROVE  Inv'
<1>1. agent \in AgentState
  BY DEF Inv, Typed
<1>2. CASE PersistFails
  <2> DEFINE s == [agent EXCEPT !.at = "failed"]
  <2>1. s \in AgentState /\ s.at = "failed" /\ s.mem = mem /\ agent' = s
    BY <1>1, <1>2 DEF AgentState, mem, PersistFails, GoTo
  <2>2. UNCHANGED <<saved, kept, paid>>
    BY <1>2 DEF PersistFails
  <2> HIDE DEF s
  <2>3. QED
    BY <2>1, <2>2, LeavesLoop
<1>3. CASE Return
  <2> DEFINE s == [agent EXCEPT !.at = AfterPersisting,
                                !.result = IF agent.at = "persist" THEN Result ELSE None]
  <2>1. AfterPersisting \in {"done", "failed"} /\ Result \in {"NO_DATA", "SUCCESS"}
    BY DEF AfterPersisting, Result
  <2>2. /\ s \in AgentState /\ s.at \in {"done", "failed"} /\ s.mem = mem
    BY <1>1, <2>1 DEF AgentState, mem
  <2>3. agent' = s /\ UNCHANGED <<saved, kept, paid>>
    BY <1>3 DEF Return
  <2> HIDE DEF s
  <2>4. QED
    BY <2>2, <2>3, LeavesLoop
<1>4. CASE Lose
  BY <1>4, IdleType, LeavesLoop DEF Lose, Active, Investigating
<1>5. QED
  BY <1>2, <1>3, <1>4

(* What is called was chosen. *)
Chosen ==
  /\ agent.at = "announce" => agent.call \in Calls \cup {"finish"}
  /\ agent.at = "call" => agent.call \in Calls

LEMMA ChosenKept ==
  ASSUME Inv, Chosen, [GenericNext]_genericVars
  PROVE  Chosen'
<1>1. agent \in AgentState
  BY DEF Inv, Typed
<1>2. CASE UNCHANGED genericVars
  BY <1>2 DEF genericVars, Chosen
<1>3. CASE StartExecution
  BY <1>3 DEF StartExecution, Blank, Chosen
<1>4. CASE \E hasTools \in BOOLEAN : OpenSession(hasTools)
  BY <1>1, <1>4 DEF OpenSession, Chosen, AgentState
<1>5. CASE \E asked \in Calls \cup {"finish"} : Ask(asked)
  BY <1>1, <1>5 DEF Ask, Chosen, AgentState
<1>6. CASE Announce
  BY <1>1, <1>6 DEF Announce, GoTo, Memory, Chosen, AgentState
<1>7. CASE \E reply \in Replies : CallTool(reply)
  BY <1>1, <1>7 DEF CallTool, Memory, Chosen, AgentState
<1>8. CASE SaveStaged \/ Apply \/ SaveApplied \/ SaveFinished
  BY <1>1, <1>8 DEF SaveStaged, Apply, SaveApplied, SaveFinished, GoTo, Memory, Chosen,
                    AgentState
<1>9. CASE \/ \E stored \in BOOLEAN : Raise(stored)
           \/ PersistArtifact \/ PersistFails \/ Return
  BY <1>1, <1>9 DEF Raise, PersistArtifact, PersistFails, Return, GoTo, AfterPersisting,
                    Chosen, AgentState
<1>10. CASE Lose
  BY <1>10 DEF Lose, Blank, Chosen
<1>11. QED
  BY <1>2, <1>3, <1>4, <1>5, <1>6, <1>7, <1>8, <1>9, <1>10 DEF GenericNext

LEMMA NextInv ==
  ASSUME MaxReplies \in Nat, None \notin Conversation, None \notin Response,
         Inv, Chosen, [GenericNext]_genericVars
  PROVE  Inv'
<1>1. CASE UNCHANGED genericVars
  <2>1. Restored' = Restored /\ mem' = mem
    BY <1>1 DEF genericVars, Restored, mem
  <2>2. Typed' /\ DurableAgrees' /\ ArtifactsAgree'
    BY <1>1, <2>1 DEF genericVars, Inv, Typed, DurableAgrees, Consistent, ArtifactsAgree,
                      Conflict
  <2>3. Shape(agent.at, mem)'
    BY <1>1, <2>1 DEF genericVars, Inv, Shape, UpToDate, Settled
  <2>4. agent'.at \in Active => Continues(mem)'
    BY <1>1, <2>1 DEF genericVars, Inv, Continues, Numbered
  <2>5. QED
    BY <2>2, <2>3, <2>4 DEF Inv
<1>2. CASE \E reply \in Replies : CallTool(reply)
  BY <1>2, CallInv DEF CallTool, Chosen
<1>3. QED
  BY <1>1, <1>2, ExecuteInv, LoopInv, PersistInv, EndInv DEF GenericNext

LEMMA SpecInv ==
  ASSUME MaxReplies \in Nat, None \notin Conversation, None \notin Response
  PROVE  GenericSpec => [](Inv /\ Chosen)
<1>1. GenericInit => Inv /\ Chosen
  BY InitInv DEF GenericInit, Chosen, Blank
<1>2. Inv /\ Chosen /\ [GenericNext]_genericVars => (Inv /\ Chosen)'
  BY NextInv, ChosenKept
<1>3. QED
  BY <1>1, <1>2, PTL DEF GenericSpec

-----------------------------------------------------------------------------
(* Wherever an execution failed or was lost, the checkpoint it left is one
   that the next execution accepts, for any number of calls and executions.
   None, which stands for an absent row, is not itself a conversation or a
   response.                                                                *)
THEOREM SpecCheckpointsCanBeResumed ==
  ASSUME MaxReplies \in Nat, None \notin Conversation, None \notin Response
  PROVE  GenericSpec => []CheckpointsCanBeResumed
<1>1. Inv => CheckpointsCanBeResumed
  BY DEF Inv, DurableAgrees, CheckpointsCanBeResumed, Restored
<1>2. QED
  BY <1>1, SpecInv, PTL

(* The artifacts a failed execution left never contradict the conversation
   that is continued from the checkpoint.                                   *)
THEOREM SpecArtifactsAgree ==
  ASSUME MaxReplies \in Nat, None \notin Conversation, None \notin Response
  PROVE  GenericSpec => []ArtifactsAgree
<1>1. Inv => ArtifactsAgree
  BY DEF Inv
<1>2. QED
  BY <1>1, SpecInv, PTL

(* A call is only sent to the server when neither the checkpoint nor an
   artifact has its response.                                               *)
THEOREM SpecKeptAnswersAreNotAskedAgain ==
  ASSUME MaxReplies \in Nat, None \notin Conversation, None \notin Response
  PROVE  GenericSpec => KeptAnswersAreNotAskedAgain
<1>1. ASSUME Inv, Chosen, GenericNext, paid' # paid
      PROVE  /\ kept[mem.round] = None
             /\ saved # None => Len(saved.responses) < mem.round
  <2>1. PICK reply \in Replies : CallTool(reply)
    BY <1>1 DEF GenericNext, StartExecution, OpenSession, Ask, Announce, SaveStaged, Apply, SaveApplied,
                SaveFinished, Save, Raise, PersistArtifact, PersistFails, Return, Lose
  <2>2. kept[mem.round] = None /\ Len(Restored.responses) < mem.round
    BY <1>1, <2>1, CallInv DEF CallTool, Chosen
  <2>3. QED
    BY <2>2 DEF Restored
<1>2. Inv /\ Chosen /\ [GenericNext]_genericVars
        => [paid' # paid =>
              /\ kept[mem.round] = None
              /\ saved # None => Len(saved.responses) < mem.round]_genericVars
  BY <1>1
<1>3. QED
  BY <1>2, SpecInv, PTL DEF GenericSpec, KeptAnswersAreNotAskedAgain

-----------------------------------------------------------------------------
(* A conversation counts no more rounds than there are responses, and one. *)
InBounds(m) == m.round <= MaxReplies + 1 /\ m.pending <= MaxReplies

Counted ==
  /\ saved \in Memories \cup {None}
  /\ announced \in [1 .. MaxReplies + 1 -> Calls \cup {"finish", None}]
  /\ InBounds(mem)
  /\ starts \in 0 .. MaxStarts

LEMMA InMemories ==
  ASSUME MaxReplies \in Nat, NEW m \in Conversation, InBounds(m)
  PROVE  m \in Memories
<1>1. m.round \in 0 .. MaxReplies + 1 /\ m.pending \in 0 .. MaxReplies
  BY DEF Conversation, InBounds
<1>2. QED
  BY <1>1 DEF Conversation, Memories

(* What a process starts with: the checkpoint, and the response it adopts. *)
LEMMA RestoredInBounds ==
  ASSUME MaxReplies \in Nat, Inv, Counted
  PROVE  InBounds(Fresh) /\ InBounds(Restored) /\ InBounds(WithOrphan(Restored))
<1>1. InBounds(Fresh) /\ InBounds(Restored)
  BY DEF InBounds, Fresh, Restored, Counted, Memories
<1>2. CASE Orphan(Restored) = None
  BY <1>1, <1>2 DEF WithOrphan
<1>3. CASE Orphan(Restored) # None
  <2> DEFINE response == Orphan(Restored)
             index == Len(Restored.responses) + 1
  <2>1. index \in Indices /\ response = kept[index]
    BY <1>3 DEF Orphan
  <2>2. response \in Response
    BY <1>3, <2>1 DEF Inv, Typed
  <2>3. response.round \in 1 .. MaxReplies /\ index <= MaxReplies
    BY <2>1, <2>2 DEF Response, Indices
  <2>4. Restored \in Conversation
    BY DEF Inv, Typed
  <2>5. /\ TakeOver(Restored, response).round = response.round
        /\ TakeOver(Restored, response).pending = index
    BY <2>4 DEF TakeOver, Conversation
  <2>6. WithOrphan(Restored) = TakeOver(Restored, response)
    BY <1>3 DEF WithOrphan
  <2> HIDE DEF response, index
  <2>7. QED
    BY <1>1, <2>3, <2>5, <2>6 DEF InBounds
<1>4. QED
  BY <1>1, <1>2, <1>3

LEMMA CountedMemory ==
  ASSUME MaxReplies \in Nat, Inv, Counted, GenericNext
  PROVE  InBounds(mem')
<1>1. /\ agent \in AgentState /\ mem \in Conversation /\ mem = agent.mem /\ InBounds(mem)
      /\ Len(mem.responses) \in Nat /\ paid \in 0 .. MaxReplies
      /\ DOMAIN agent = {"at", "mem", "call", "next", "result"}
      /\ DOMAIN mem = {"responses", "observations", "round", "pending", "completed"}
  BY Memory2 DEF Inv, Typed, AgentState, mem, Counted, Conversation
<1>2. CASE StartExecution
  <2>1. agent'.mem \in {Fresh, WithOrphan(Restored)}
    BY <1>2 DEF StartExecution, Blank
  <2>2. QED
    BY <2>1, RestoredInBounds DEF mem
<1>3. CASE Lose
  BY <1>3, RestoredInBounds DEF Lose, Blank, mem
<1>4. ASSUME NEW c \in Calls \cup {"finish"}, Ask(c)
      PROVE  InBounds(mem')
  <2>1. mem'.round = mem.round + 1 /\ mem'.pending = mem.pending
    BY <1>1, <1>4 DEF Ask, mem
  <2>2. mem.round = Len(mem.responses) /\ Len(mem.responses) <= paid
    BY <1>4 DEF Ask, Inv, Shape, Active, Investigating, Continues
  <2>3. QED
    BY <1>1, <2>1, <2>2 DEF InBounds
<1>5. ASSUME NEW reply \in Replies, CallTool(reply)
      PROVE  InBounds(mem')
  <2>1. mem'.round = mem.round /\ mem'.pending = Len(mem.responses) + 1
    BY <1>1, <1>5 DEF CallTool, TakeOver, Memory, mem
  <2>2. Len(mem.responses) <= paid /\ paid < MaxReplies
    BY <1>5 DEF CallTool, Inv, Active, Investigating, Continues
  <2>3. QED
    BY <1>1, <2>1, <2>2 DEF InBounds
<1>6. CASE Apply
  <2>1. mem'.round = mem.round /\ mem'.pending = 0
    BY <1>1, <1>6 DEF Apply, Memory, mem
  <2>2. QED
    BY <1>1, <2>1 DEF InBounds
<1>7. CASE Announce
  <2>1. mem'.round = mem.round /\ mem'.pending = mem.pending
    BY <1>1, <1>7 DEF Announce, Memory, GoTo, mem
  <2>2. QED
    BY <1>1, <2>1 DEF InBounds
<1>8. CASE \/ \E hasTools \in BOOLEAN : OpenSession(hasTools)
           \/ SaveStaged \/ SaveApplied \/ SaveFinished \/ \E stored \in BOOLEAN : Raise(stored)
           \/ PersistArtifact \/ PersistFails \/ Return
  <2>1. mem' = mem
    BY <1>1, <1>8 DEF OpenSession, SaveStaged, SaveApplied, SaveFinished, Raise, GoTo,
       PersistArtifact, PersistFails, Return, mem
  <2>2. QED
    BY <1>1, <2>1
<1>9. QED
  BY <1>2, <1>3, <1>4, <1>5, <1>6, <1>7, <1>8 DEF GenericNext

LEMMA CountedRows ==
  ASSUME MaxReplies \in Nat, MaxStarts \in Nat, Inv, Counted, GenericNext
  PROVE  /\ saved' \in Memories \cup {None}
         /\ announced' \in [1 .. MaxReplies + 1 -> Calls \cup {"finish", None}]
         /\ starts' \in 0 .. MaxStarts
<1>1. mem \in Memories
  BY Memory2, InMemories DEF Counted
<1>2. agent.call \in Calls \cup {"finish", None}
  BY DEF Inv, Typed, AgentState
<1>3. UNCHANGED saved \/ saved' = mem
  BY DEF GenericNext, StartExecution, OpenSession, Ask, Announce, CallTool, SaveStaged, Apply,
     SaveApplied, SaveFinished, Save, Raise, PersistArtifact, PersistFails, Return, Lose
<1>4. UNCHANGED announced \/ announced' = [announced EXCEPT ![mem.round] = agent.call]
  <2>1. CASE Announce
    BY <2>1 DEF Announce
  <2>2. CASE ~Announce
    BY <2>2 DEF GenericNext, StartExecution, OpenSession, Ask, CallTool, SaveStaged, Apply,
       SaveApplied, SaveFinished, Save, Raise, PersistArtifact, PersistFails, Return, Lose
  <2>3. QED
    BY <2>1, <2>2
<1>5. UNCHANGED starts \/ (starts < MaxStarts /\ starts' = starts + 1)
  <2>1. CASE StartExecution
    BY <2>1 DEF StartExecution
  <2>2. CASE SaveStaged \/ Apply \/ SaveApplied \/ SaveFinished \/ Announce \/ Lose
             \/ PersistArtifact \/ PersistFails \/ Return
    BY <2>2 DEF SaveStaged, Apply, SaveApplied, SaveFinished, Save, Announce, Lose,
       PersistArtifact, PersistFails, Return
  <2>3. ASSUME NEW tools \in BOOLEAN, OpenSession(tools)
        PROVE  UNCHANGED starts
    BY <2>3 DEF OpenSession
  <2>4. ASSUME NEW c \in Calls \cup {"finish"}, Ask(c)
        PROVE  UNCHANGED starts
    BY <2>4 DEF Ask
  <2>5. ASSUME NEW reply \in Replies, CallTool(reply)
        PROVE  UNCHANGED starts
    BY <2>5 DEF CallTool
  <2>6. ASSUME NEW stored \in BOOLEAN, Raise(stored)
        PROVE  UNCHANGED starts
    BY <2>6 DEF Raise
  <2>7. QED
    BY <2>1, <2>2, <2>3, <2>4, <2>5, <2>6 DEF GenericNext
<1>6. saved' \in Memories \cup {None}
  BY <1>1, <1>3 DEF Counted
<1>7. announced' \in [1 .. MaxReplies + 1 -> Calls \cup {"finish", None}]
  BY <1>2, <1>4 DEF Counted
<1>8. starts' \in 0 .. MaxStarts
  BY <1>5 DEF Counted
<1>9. QED
  BY <1>6, <1>7, <1>8

(* Whatever is lost, the checkpoint, the artifacts and the announced actions
   of a generic investigation have their types: the memory and the checkpoint
   count no more rounds than the server gave responses, and one to finish.   *)
THEOREM GenericSpecTypeOK ==
  ASSUME MaxReplies \in Nat, MaxStarts \in Nat, None \notin Conversation, None \notin Response
  PROVE  GenericSpec => []GenericTypeOK
<1>1. GenericInit => Counted
  BY DEF GenericInit, Counted, InBounds, Blank, Fresh, mem
<1>2. Inv /\ Counted /\ [GenericNext]_genericVars => Counted'
  <2> SUFFICES ASSUME Inv, Counted, [GenericNext]_genericVars PROVE Counted'
    OBVIOUS
  <2>1. CASE GenericNext
    BY <2>1, CountedMemory, CountedRows DEF Counted
  <2>2. CASE UNCHANGED genericVars
    BY <2>2 DEF genericVars, Counted, mem
  <2>3. QED
    BY <2>1, <2>2
<1>3. Inv /\ Counted => GenericTypeOK
  <2> SUFFICES ASSUME Inv, Counted PROVE GenericTypeOK
    OBVIOUS
  <2>1. agent.mem \in Memories
    BY Memory2, InMemories DEF Counted, mem
  <2>2. /\ kept \in [Indices -> Response \cup {None}] /\ paid \in 0 .. MaxReplies
        /\ agent.at \in Investigating \cup {"idle", "persist", "salvage", "done", "failed"}
    BY DEF Inv, Typed, AgentState
  <2>3. QED
    BY <2>1, <2>2 DEF GenericTypeOK, Counted
<1>4. QED
  BY <1>1, <1>2, <1>3, SpecInv, PTL DEF GenericSpec

-----------------------------------------------------------------------------
(* The Prometheus investigation.  What is in attempts and responses was made
   by a call of the catalog, and a projection shows facts of the public
   responses only (MetricsInv).                                            *)

Outcomes == {"rejected_locally", "result", "no_data", "tool_error", "transport_error"}
Attempts == {Attempt(c, outcome) : c \in Call, outcome \in Outcomes}

(* A series of a response is kept because of the call and the reply alone. *)
Answers ==
  {[call |-> c, count |-> count, kept |-> Kept(c, count)] :
     c \in Call, count \in [Metrics -> 0 .. 2]}

MetricsInv ==
  /\ call \in Call \cup {None} /\ (stage = "calling" => call \in Call)
  /\ attempts \in Seq(Attempts) /\ responses \in Seq(Answers)
  /\ stage \notin {"stopped", "recorded"} => result = None
  /\ stage # "recorded" => projected = None
  /\ result # None /\ result.status = "NO_DATA" => RangeAnswered
  /\ projected # None => projected.facts \subseteq Facts

-----------------------------------------------------------------------------
LEMMA AttemptFields ==
  ASSUME NEW t \in Attempts
  PROVE  t.call \in Call /\ t.outcome \in Outcomes /\ t.capability = Capability(t.call)
  BY DEF Attempts, Attempt

LEMMA AnswerFields ==
  ASSUME NEW r \in Answers
  PROVE  r.call \in Call /\ r.count \in [Metrics -> 0 .. 2] /\ r.kept = Kept(r.call, r.count)
  BY DEF Answers

LEMMA MetricsInitInv == MetricsInit => MetricsInv
  BY DEF MetricsInit, MetricsInv

(* While the harness works there is no result yet, and what it appends to its
   state is an attempt or an answer.                                       *)
LEMMA Working ==
  ASSUME MetricsInv, stage \notin {"stopped", "recorded"},
         UNCHANGED <<result, projected>>, stage' # "recorded",
         call' \in Call \cup {None}, stage' = "calling" => call' \in Call,
         attempts' \in Seq(Attempts), responses' \in Seq(Answers)
  PROVE  MetricsInv'
  BY DEF MetricsInv

LEMMA TriesAreAttempts ==
  ASSUME NEW outcome \in Outcomes, attempts \in Seq(Attempts), call \in Call,
         attempts' = Append(attempts, Attempt(call, outcome))
  PROVE  attempts' \in Seq(Attempts)
<1>1. Attempt(call, outcome) \in Attempts
  BY DEF Attempts
<1> QED BY <1>1

LEMMA StepWorks ==
  ASSUME MetricsInv,
         \/ Connect \/ ConnectRefused \/ Deadline
         \/ \E c \in Call : Decide(c)
         \/ \E scope \in (Scopes \ {"not_checked"}) \cup {None} : FinishByModel(scope)
         \/ RejectLocally \/ ToolError \/ CallFails
         \/ \E timeout \in BOOLEAN : TransportFails(timeout)
  PROVE  MetricsInv'
<1> USE DEF MetricsInv
<1>1. CASE Connect
  <2>1. stage = "connecting" /\ UNCHANGED <<call, attempts, responses, result, projected>>
    BY <1>1 DEF Connect
  <2>2. stage' \in {"planning", "calling"} /\ (stage' = "calling" => call' \in Call)
    BY <1>1 DEF Connect
  <2> QED BY <2>1, <2>2, Working
<1>2. CASE ConnectRefused
  BY <1>2, Working DEF ConnectRefused, Stop
<1>3. CASE Deadline
  BY <1>3, Working DEF Deadline, Stop
<1>4. CASE \E c \in Call : Decide(c)
  BY <1>4, Working DEF Decide
<1>5. CASE \E scope \in (Scopes \ {"not_checked"}) \cup {None} : FinishByModel(scope)
  BY <1>5, Working DEF FinishByModel, Stop
<1>6. CASE RejectLocally
  <2>1. attempts' \in Seq(Attempts)
    BY <1>6, TriesAreAttempts DEF RejectLocally, Outcomes
  <2> QED BY <1>6, <2>1, Working DEF RejectLocally
<1>7. CASE ToolError
  <2>1. attempts' \in Seq(Attempts)
    BY <1>7, TriesAreAttempts DEF ToolError, Outcomes
  <2> QED BY <1>7, <2>1, Working DEF ToolError
<1>8. CASE CallFails
  <2>1. attempts' \in Seq(Attempts)
    BY <1>8, TriesAreAttempts DEF CallFails, Outcomes
  <2> QED BY <1>8, <2>1, Working DEF CallFails, Stop
<1>9. CASE \E timeout \in BOOLEAN : TransportFails(timeout)
  <2>1. attempts' \in Seq(Attempts)
    BY <1>9, TriesAreAttempts DEF TransportFails, Outcomes
  <2> QED BY <1>9, <2>1, Working DEF TransportFails
<1> QED BY <1>1, <1>2, <1>3, <1>4, <1>5, <1>6, <1>7, <1>8, <1>9

LEMMA ReplyInv ==
  ASSUME MetricsInv, NEW count \in [Metrics -> 0 .. 2], NEW bound, NEW silent \in BOOLEAN,
         NEW empty, OnResult(count, bound, silent, empty)
  PROVE  MetricsInv'
<1> DEFINE outcome == IF silent \/ (call.range /\ empty) THEN "no_data" ELSE "result"
           answer == [call |-> call, count |-> count, kept |-> Kept(call, count)]
<1>1. stage = "calling" /\ call \in Call
  BY DEF OnResult, MetricsInv
<1>2. attempts' \in Seq(Attempts)
  <2>1. outcome \in Outcomes /\ attempts' = Append(attempts, Attempt(call, outcome))
    BY DEF OnResult, Outcomes
  <2> QED BY <1>1, <2>1, TriesAreAttempts DEF MetricsInv
<1>3. responses' \in Seq(Answers)
  <2>1. answer \in Answers
    BY <1>1 DEF Answers
  <2>2. responses' = IF silent THEN responses ELSE Append(responses, answer)
    BY DEF OnResult
  <2> QED BY <2>1, <2>2 DEF MetricsInv
<1> QED BY <1>1, <1>2, <1>3, Working DEF OnResult

(* The result is made of what the harness left, and that no longer changes. *)
LEMMA ResultInv ==
  ASSUME MetricsInv, Execute \/ Project
  PROVE  MetricsInv'
<1>1. CASE Execute
  <2>1. UNCHANGED <<stage, call, responses, attempts, projected>> /\ stage = "stopped"
    BY <1>1 DEF Execute
  <2>2. result'.status = Status
    BY <1>1 DEF Execute
  <2>3. Status = "NO_DATA" => RangeAnswered
    BY DEF Status
  <2>4. RangeAnswered' <=> RangeAnswered
    BY <2>1 DEF RangeAnswered, RangeOutcomes
  <2>5. Facts' = Facts
    BY <2>1 DEF Facts, Public, Shows, Fact
  <2> QED BY <2>1, <2>2, <2>3, <2>4, <2>5 DEF MetricsInv
<1>2. CASE Project
  <2>1. UNCHANGED <<call, responses, attempts, result>> /\ stage' = "recorded"
    BY <1>2 DEF Project
  <2>2. projected'.facts \subseteq Facts
    BY <1>2 DEF Project
  <2>3. RangeAnswered' <=> RangeAnswered
    BY <2>1 DEF RangeAnswered, RangeOutcomes
  <2>4. Facts' = Facts
    BY <2>1 DEF Facts, Public, Shows, Fact
  <2> QED BY <2>1, <2>2, <2>3, <2>4 DEF MetricsInv
<1> QED BY <1>1, <1>2

LEMMA MetricsNextInv ==
  ASSUME MetricsInv, [MetricsNext]_metricVars
  PROVE  MetricsInv'
<1>1. CASE \E count \in [Metrics -> 0..2], bound \in BOOLEAN : OnResult(count, bound, FALSE, FALSE)
  BY <1>1, ReplyInv
<1>2. CASE \E silent \in BOOLEAN : OnResult([m \in Metrics |-> 0], FALSE, silent, TRUE)
  <2>1. [m \in Metrics |-> 0] \in [Metrics -> 0 .. 2]
    OBVIOUS
  <2> QED BY <1>2, <2>1, ReplyInv
<1>3. CASE UNCHANGED metricVars
  <2>1. UNCHANGED <<stage, call, responses, attempts, result, projected>>
    BY <1>3 DEF metricVars
  <2>2. RangeAnswered' <=> RangeAnswered
    BY <2>1 DEF RangeAnswered, RangeOutcomes
  <2>3. Facts' = Facts
    BY <2>1 DEF Facts, Public, Shows, Fact
  <2> QED BY <2>1, <2>2, <2>3 DEF MetricsInv
<1> QED BY <1>1, <1>2, <1>3, StepWorks, ResultInv DEF MetricsNext

LEMMA MetricsSpecInv == MetricsSpec => []MetricsInv
<1>1. MetricsInit => MetricsInv
  BY MetricsInitInv
<1>2. MetricsInv /\ [MetricsNext]_metricVars => MetricsInv'
  BY MetricsNextInv
<1> QED BY <1>1, <1>2, PTL DEF MetricsSpec

-----------------------------------------------------------------------------
(* "No data" is only said of metrics that an exact range query was made for:
   a query the Host rejects never counts as an answer.                     *)
THEOREM SpecNoDataWasAsked == MetricsSpec => []NoDataWasAsked
<1>1. ASSUME MetricsInv PROVE NoDataWasAsked
  <2> SUFFICES ASSUME result # None, result.status = "NO_DATA"
               PROVE  \E k \in DOMAIN attempts :
                        /\ attempts[k].call.range /\ attempts[k].call.exact
                        /\ attempts[k].outcome \in {"result", "no_data"}
    BY DEF NoDataWasAsked
  <2>1. PICK k \in DOMAIN attempts : /\ attempts[k].capability = "range_query"
                                     /\ attempts[k].outcome \in {"result", "no_data"}
    BY <1>1 DEF MetricsInv, RangeAnswered, RangeOutcomes
  <2>2. attempts[k] \in Attempts
    BY <1>1 DEF MetricsInv
  <2>3. /\ attempts[k].call.range \in BOOLEAN /\ attempts[k].call.exact \in BOOLEAN
        /\ Capability(attempts[k].call) = "range_query"
    BY <2>1, <2>2, AttemptFields DEF Call
  <2>4. attempts[k].call.range /\ attempts[k].call.exact
    BY <2>3 DEF Capability, RejectedLocally
  <2> QED BY <2>1, <2>4
<1> QED BY <1>1, MetricsSpecInv, PTL

(* Every fact in the projection of the evidence comes from one response and
   no other, for any number of calls.                                      *)
THEOREM SpecFactsHaveOneSource == MetricsSpec => []FactsHaveOneSource
<1>1. ASSUME MetricsInv PROVE FactsHaveOneSource
  <2> SUFFICES ASSUME projected # None, NEW f \in projected.facts
               PROVE  Cardinality({k \in DOMAIN responses : Offers(f, responses[k])}) = 1
    BY DEF FactsHaveOneSource
  <2>1. f \in Fact /\ Cardinality({k \in Public : Shows(f, responses[k])}) = 1
    BY <1>1 DEF MetricsInv, Facts
  <2>2. ASSUME NEW k \in DOMAIN responses
        PROVE  Offers(f, responses[k]) <=> k \in Public /\ Shows(f, responses[k])
    <3>1. responses[k] \in Answers
      BY <1>1 DEF MetricsInv
    <3>2. /\ responses[k].call \in Call
          /\ responses[k].kept = Kept(responses[k].call, responses[k].count)
      BY <3>1, AnswerFields
    <3>3. f.metric \in responses[k].kept
            <=> responses[k].call.exact /\ responses[k].count[f.metric] = 1
      BY <2>1, <3>2 DEF Kept, Fact, Call
    <3> QED BY <3>3 DEF Offers, Shows, Public
  <2>3. {k \in DOMAIN responses : Offers(f, responses[k])}
          = {k \in Public : Shows(f, responses[k])}
    BY <2>2 DEF Public
  <2> QED BY <2>1, <2>3
<1> QED BY <1>1, MetricsSpecInv, PTL

-----------------------------------------------------------------------------
(* A call that was decided on leaves room for one repetition of it. *)
Room ==
  /\ stage \in {"connecting", "planning", "calling", "stopped", "recorded"}
  /\ Len(attempts) <= MaxCalls + 1
  /\ stage = "calling" \/ (stage = "connecting" /\ call # None) =>
       Len(attempts) < MaxCalls \/ (Len(attempts) = MaxCalls /\ FailedBefore(call))
  /\ hostScope \in {"unknown", "in_scope"} /\ declared \in Scopes
  /\ Len(responses) <= Len(attempts)

LEMMA RoomInit == MaxCalls \in Nat /\ MetricsInit => Room
  BY DEF MetricsInit, Room, Scopes

(* An attempt that is appended, with the answer it has or without one. *)
LEMMA OneMore ==
  ASSUME MaxCalls \in Nat, MetricsInv, Room, stage = "calling",
         NEW t, attempts' = Append(attempts, t),
         stage' \in {"connecting", "planning", "stopped"},
         \/ call' = None
         \/ /\ call' = call /\ ~FailedBefore(call) /\ t = Attempt(call, "transport_error"),
         UNCHANGED responses \/ \E r : responses' = Append(responses, r),
         hostScope' \in {"unknown", "in_scope"}, declared' \in Scopes
  PROVE  Room'
<1>1. /\ attempts \in Seq(Attempts) /\ responses \in Seq(Answers) /\ call \in Call
      /\ Len(attempts) \in Nat /\ Len(responses) \in Nat
  BY DEF MetricsInv
<1>2. Len(attempts') = Len(attempts) + 1 /\ Len(attempts) <= MaxCalls
  BY <1>1 DEF Room
<1>3. Len(responses') <= Len(attempts')
  BY <1>1, <1>2 DEF Room
<1>4. ASSUME call' = call, ~FailedBefore(call), t = Attempt(call, "transport_error"), call # None
      PROVE  \/ Len(attempts') < MaxCalls
             \/ (Len(attempts') = MaxCalls /\ FailedBefore(call)')
  <2>1. Len(attempts) < MaxCalls
    BY <1>4 DEF Room
  <2>2. FailedBefore(call)'
    <3>1. Len(attempts) + 1 \in DOMAIN attempts' /\ attempts'[Len(attempts) + 1] = t
      BY <1>1
    <3>2. Attempt(call, "transport_error")' = t
      BY <1>4 DEF Attempt, Capability, RejectedLocally
    <3>3. QED
      BY <3>1, <3>2 DEF FailedBefore
  <2>3. QED
    BY <1>1, <1>2, <2>1, <2>2
<1>5. QED
  BY <1>1, <1>2, <1>3, <1>4 DEF Room

LEMMA RoomStays ==
  ASSUME MaxCalls \in Nat, MetricsInv, Room, [MetricsNext]_metricVars
  PROVE  Room'
<1>0. /\ hostScope \in {"unknown", "in_scope"} /\ declared \in Scopes
      /\ Len(attempts) \in Nat
  BY DEF Room, MetricsInv
<1>1. CASE RejectLocally \/ ToolError
  BY <1>0, <1>1, OneMore DEF RejectLocally, ToolError
<1>2. CASE CallFails
  BY <1>0, <1>2, OneMore DEF CallFails, Stop
<1>3. ASSUME NEW timeout \in BOOLEAN, TransportFails(timeout)
      PROVE  Room'
  BY <1>0, <1>3, OneMore DEF TransportFails
<1>4. ASSUME NEW count, NEW bound, NEW silent, NEW empty, OnResult(count, bound, silent, empty)
      PROVE  Room'
  <2>1. hostScope' \in {"unknown", "in_scope"} /\ stage' = "planning" /\ stage = "calling"
        /\ call' = None /\ UNCHANGED declared
    BY <1>0, <1>4 DEF OnResult
  <2>2. \E t : attempts' = Append(attempts, t)
    BY <1>4 DEF OnResult
  <2>3. UNCHANGED responses \/ \E r : responses' = Append(responses, r)
    BY <1>4 DEF OnResult
  <2>4. QED
    BY <1>0, <2>1, <2>2, <2>3, OneMore
<1>5. ASSUME NEW c \in Call, Decide(c)
      PROVE  Room'
  BY <1>0, <1>5 DEF Decide, Room
<1>6. CASE Connect
  <2>1. /\ stage = "connecting" /\ UNCHANGED <<call, attempts, responses, hostScope, declared>>
        /\ stage' = IF call = None THEN "planning" ELSE "calling"
    BY <1>6 DEF Connect
  <2>2. FailedBefore(call)' <=> FailedBefore(call)
    BY <2>1 DEF FailedBefore, Attempt, Capability, RejectedLocally
  <2>3. QED
    BY <2>1, <2>2 DEF Room
<1>7. CASE \/ ConnectRefused \/ Deadline \/ Execute \/ Project
           \/ \E scope \in (Scopes \ {"not_checked"}) \cup {None} : FinishByModel(scope)
  <2>1. /\ UNCHANGED <<attempts, responses, hostScope>> /\ declared' \in Scopes
        /\ stage' \in {"stopped", "recorded"}
    BY <1>0, <1>7 DEF ConnectRefused, Deadline, Execute, Project, FinishByModel, Stop
  <2>2. QED
    BY <2>1 DEF Room
<1>8. CASE UNCHANGED metricVars
  <2>1. UNCHANGED <<stage, call, attempts, responses, hostScope, declared>>
    BY <1>8 DEF metricVars
  <2>2. FailedBefore(call)' <=> FailedBefore(call)
    BY <2>1 DEF FailedBefore, Attempt, Capability, RejectedLocally
  <2>3. QED
    BY <2>1, <2>2 DEF Room
<1>9. QED
  BY <1>1, <1>2, <1>3, <1>4, <1>5, <1>6, <1>7, <1>8 DEF MetricsNext

(* The state of a Prometheus investigation has its types: an attempt beyond the
   calls the model may decide on is the one repetition of a call whose
   connection broke, and no answer is without an attempt.                   *)
THEOREM MetricsSpecTypeOK ==
  ASSUME MaxCalls \in Nat
  PROVE  MetricsSpec => []MetricsTypeOK
<1>1. MetricsInit => Room
  BY RoomInit
<1>2. MetricsInv /\ Room /\ [MetricsNext]_metricVars => Room'
  BY RoomStays
<1>3. MetricsInv /\ Room => MetricsTypeOK
  BY DEF MetricsInv, Room, MetricsTypeOK
<1>4. QED
  BY <1>1, <1>2, <1>3, MetricsSpecInv, PTL DEF MetricsSpec

-----------------------------------------------------------------------------
(* The evidence units of an Archery result.                                *)

(* The record is made of the result as it is, and the result is settled then. *)
UnitsInv ==
  /\ source \in Sources
  /\ record # None => record \in {ProjectedRecord, Unusable(ExecutionStatus, "failed")}

(* The result of an Archery investigation has rows to explain only with a
   complete history.                                                       *)
LEMMA ArcherySource ==
  ASSUME source \in Sources, IsArchery
  PROVE  source.history \in HistoryKinds /\ (source.history # "complete" => Candidates = {})
  BY DEF Sources, IsArchery, Archery, Other, Others, Candidates, HistoryKinds

LEMMA OtherSource ==
  ASSUME source \in Sources, ~IsArchery
  PROVE  source.status \in Statuses /\ source.facts \in BOOLEAN
  BY DEF Sources, IsArchery, Archery, Other

LEMMA UnitFields ==
  ASSUME NEW s, NEW of, NEW status, NEW eligible
  PROVE  /\ Unit(s, of, status, eligible).stage = s
         /\ Unit(s, of, status, eligible).of = of
         /\ Unit(s, of, status, eligible).status = status
         /\ Unit(s, of, status, eligible).eligible = eligible
  BY DEF Unit

(* The record is a function of the source, the work and the failures. *)
LEMMA ProjectionKept ==
  ASSUME UNCHANGED <<source, work, failures>>
  PROVE  /\ ProjectedRecord' = ProjectedRecord
         /\ Unusable(ExecutionStatus, "failed")' = Unusable(ExecutionStatus, "failed")
<1>1. /\ IsArchery' = IsArchery /\ Candidates' = Candidates
      /\ ExecutionStatus' = ExecutionStatus /\ Routed' = Routed
      /\ AnalysisUsable' = AnalysisUsable /\ ContextOnly' = ContextOnly
  BY DEF IsArchery, Candidates, ExecutionStatus, Routed, AnalysisUsable, HasRows, ContextOnly
<1>2. Obtained' = Obtained /\ PipelineStop' = PipelineStop
  BY <1>1 DEF Obtained, PipelineStop, Unfinished
<1>3. \A s \in Stages : StageState(s)' = StageState(s)
  BY <1>1 DEF StageState
<1>4. SlowQueryAnalysis' = SlowQueryAnalysis
  BY <1>1, <1>2, <1>3 DEF SlowQueryAnalysis
<1>5. ArcheryEvidenceUnits' = ArcheryEvidenceUnits
  BY <1>1, <1>4 DEF ArcheryEvidenceUnits, HistoryUnit, ResultUnits, FailureUnits, MissingUnits,
                    Overcome
<1> QED BY <1>1, <1>5 DEF ProjectedRecord, Unusable

-----------------------------------------------------------------------------
LEMMA UnitsInitInv == UnitsInit => UnitsInv
  BY DEF UnitsInit, UnitsInv

LEMMA UnitsNextInv ==
  ASSUME UnitsInv, [UnitsNext]_unitVars
  PROVE  UnitsInv'
<1>1. CASE UNCHANGED unitVars
  <2>1. UNCHANGED <<source, work, failures, record>>
    BY <1>1 DEF unitVars
  <2> QED BY <2>1, ProjectionKept DEF UnitsInv
<1>2. ASSUME NEW r \in Candidates, NEW s \in Stages, Succeed(r, s) \/ Fail(r, s) \/ Stumble(r, s)
      PROVE  UnitsInv'
  <2>1. record = None /\ UNCHANGED <<source, record>>
    BY <1>2 DEF Succeed, Fail, Stumble, Ready
  <2> QED BY <2>1 DEF UnitsInv
<1>3. CASE ProjectResult \/ ProjectionFails
  <2>1. /\ UNCHANGED <<source, work, failures>>
        /\ record' \in {ProjectedRecord, Unusable(ExecutionStatus, "failed")}
    BY <1>3 DEF ProjectResult, ProjectionFails
  <2> QED BY <2>1, ProjectionKept DEF UnitsInv
<1> QED BY <1>1, <1>2, <1>3 DEF UnitsNext

-----------------------------------------------------------------------------
(* What the units of an investigation that has a history say. *)
LEMMA UnitsSupport ==
  ASSUME source \in Sources, IsArchery, source.history # "none"
  PROVE  /\ ArcheryEvidenceUnits # {}
         /\ {<<u.stage, u.of>> : u \in {v \in ArcheryEvidenceUnits : v.eligible}}
              = IF source.history = "complete" THEN Obtained \cup {<<"history", None>>} ELSE {}
<1> DEFINE a == SlowQueryAnalysis
           units == {HistoryUnit} \cup ResultUnits(a) \cup FailureUnits(a) \cup MissingUnits(a)
           supporting == {<<u.stage, u.of>> : u \in {v \in units : v.eligible}}
<1>1. ArcheryEvidenceUnits = units
  BY DEF ArcheryEvidenceUnits
<1>2. source.history \in {"complete", "incomplete", "empty", "unparsed"}
      /\ (source.history # "complete" => Candidates = {})
  BY ArcherySource DEF HistoryKinds
<1>3. ExecutionStatus = "SUCCESS" <=> source.history = "complete"
  BY DEF ExecutionStatus
<1>4. /\ HistoryUnit.eligible <=> source.history = "complete"
      /\ source.history = "complete" => HistoryUnit.stage = "history" /\ HistoryUnit.of = None
  BY <1>2, <1>3 DEF HistoryUnit, Unit
<1>5. \A u \in FailureUnits(a) \cup MissingUnits(a) : ~u.eligible
  BY DEF FailureUnits, MissingUnits, Unit
<1>6. ResultUnits(a) = {Unit(obtained[1], obtained[2], "SUCCESS", ExecutionStatus = "SUCCESS") :
                          obtained \in Obtained}
  BY DEF ResultUnits, SlowQueryAnalysis
<1>7. CASE source.history = "complete"
  <2>1. ASSUME NEW u \in units, u.eligible
        PROVE  <<u.stage, u.of>> \in Obtained \cup {<<"history", None>>}
    <3>1. CASE u = HistoryUnit
      BY <1>4, <1>7, <3>1
    <3>2. CASE u \in ResultUnits(a)
      <4>1. PICK obtained \in Obtained :
                   u = Unit(obtained[1], obtained[2], "SUCCESS", ExecutionStatus = "SUCCESS")
        BY <1>6, <3>2
      <4>2. obtained = <<obtained[1], obtained[2]>>
        BY DEF Obtained
      <4>3. u.stage = obtained[1] /\ u.of = obtained[2]
        BY <4>1 DEF Unit
      <4> QED BY <4>2, <4>3
    <3>3. CASE u \in FailureUnits(a) \cup MissingUnits(a)
      BY <1>5, <2>1, <3>3
    <3> QED BY <3>1, <3>2, <3>3
  <2>2. <<"history", None>> \in supporting
    BY <1>4, <1>7
  <2>3. ASSUME NEW obtained \in Obtained PROVE obtained \in supporting
    <3> DEFINE u == Unit(obtained[1], obtained[2], "SUCCESS", ExecutionStatus = "SUCCESS")
    <3>1. obtained = <<obtained[1], obtained[2]>>
      BY DEF Obtained
    <3>2. u \in units
      BY <1>6
    <3>3. u.stage = obtained[1] /\ u.of = obtained[2] /\ u.eligible
      BY <1>3, <1>7 DEF Unit
    <3> HIDE DEF u
    <3> QED BY <3>1, <3>2, <3>3
  <2>4. supporting = Obtained \cup {<<"history", None>>}
    <3> HIDE DEF units
    <3> QED BY <2>1, <2>2, <2>3
  <2> HIDE DEF units
  <2> QED BY <1>1, <1>7, <2>2, <2>4
<1>8. CASE source.history # "complete"
  <2>1. Obtained = {}
    BY <1>2, <1>8 DEF Obtained
  <2>2. ResultUnits(a) = {}
    BY <1>6, <2>1
  <2>3. \A u \in units : ~u.eligible
    BY <1>4, <1>5, <1>8, <2>2
  <2>4. supporting = {} /\ units # {}
    BY <2>3
  <2> HIDE DEF units
  <2> QED BY <1>1, <1>8, <2>4
<1> QED BY <1>7, <1>8

(* A stage that lacks the result of a row is told, by its failure or as missing. *)
LEMMA MissingIsTold ==
  ASSUME source \in Sources, IsArchery, source.history # "none",
         NEW r \in Candidates, NEW s \in ResultStages, <<s, r>> \notin Obtained
  PROVE  \E u \in ArcheryEvidenceUnits : u.stage = s /\ u.status \notin {"SUCCESS", "RECOVERED"}
<1> DEFINE a == SlowQueryAnalysis
           told == {f.stage : f \in {g \in a.failures : ~Overcome(g)}}
<1>1. FailureUnits(a) \cup MissingUnits(a) \subseteq ArcheryEvidenceUnits
  BY DEF ArcheryEvidenceUnits
<1>2. s \in a.missing
  BY DEF SlowQueryAnalysis
<1>3. CASE s \in told
  <2>1. PICK f \in a.failures : ~Overcome(f) /\ f.stage = s
    BY <1>3
  <2> DEFINE u == Unit(f.stage, f,
                       IF Overcome(f) THEN "RECOVERED"
                       ELSE IF f = NoSafeSample THEN "NOT_APPLICABLE" ELSE "FAILED", FALSE)
  <2>2. u \in FailureUnits(a)
    BY DEF FailureUnits
  <2>3. u.stage = s /\ u.status \in {"NOT_APPLICABLE", "FAILED"}
    BY <2>1 DEF Unit
  <2> HIDE DEF u
  <2> QED BY <1>1, <2>2, <2>3
<1>4. CASE s \notin told
  <2> DEFINE partly == {obtained[1] : obtained \in a.results}
             status == CASE a.states[s] = "UNAVAILABLE" -> "UNAVAILABLE"
                         [] a.states[s] = "FAILED_TERMINAL" -> "FAILED"
                         [] a.states[s] = "NOT_APPLICABLE" -> "NOT_APPLICABLE"
                         [] a.states[s] = "SUCCEEDED" /\ s \in partly -> "PARTIAL"
                         [] OTHER -> "NO_DATA"
             u == Unit(s, "missing", status, FALSE)
  <2>1. s \in a.missing \ told
    BY <1>2, <1>4
  <2>2. u \in MissingUnits(a)
    <3> HIDE DEF told, a
    <3> QED BY <2>1 DEF MissingUnits, told
  <2>3. status \notin {"SUCCESS", "RECOVERED"}
    BY SMTT(30)
  <2>4. u.stage = s /\ u.status = status
    BY DEF Unit
  <2> HIDE DEF u, status
  <2> QED BY <1>1, <2>2, <2>3, <2>4
<1> QED BY <1>3, <1>4

LEMMA PartsAreJudged == UnitsInv => EvidenceIsJudgedInParts
<1> SUFFICES ASSUME UnitsInv, record # None PROVE EvidenceIsJudgedInParts
  BY DEF EvidenceIsJudgedInParts, Supports
<1>1. source \in Sources /\ record \in {ProjectedRecord, Unusable(ExecutionStatus, "failed")}
  BY DEF UnitsInv
<1>2. CASE record = ProjectedRecord /\ IsArchery
  <2>1. ExecutionStatus \in {"SUCCESS", "NO_DATA"} /\ Routed
    BY <1>2 DEF ExecutionStatus, IsArchery, Routed
  <2>2. /\ record.units = ArcheryEvidenceUnits
        /\ record.eligible = (/\ ExecutionStatus = "SUCCESS" /\ AnalysisUsable /\ ~ContextOnly
                              /\ ArcheryEvidenceUnits = {})
    BY <1>2, <2>1 DEF ProjectedRecord
  <2>3. CASE source.history = "none"
    <3>1. ArcheryEvidenceUnits = {} /\ Candidates = {} /\ ~AnalysisUsable
      BY <1>1, <1>2, <2>3, ArcherySource DEF ArcheryEvidenceUnits, AnalysisUsable, HasRows
    <3>2. ~record.eligible /\ SupportingUnits = {}
      BY <2>2, <3>1 DEF SupportingUnits
    <3> QED BY <2>3, <3>1, <3>2 DEF EvidenceIsJudgedInParts, Supports
  <2>4. CASE source.history # "none"
    <3>1. ~record.eligible
      BY <1>1, <1>2, <2>2, <2>4, UnitsSupport
    <3>2. SupportingUnits =
            IF source.history = "complete" THEN Obtained \cup {<<"history", None>>} ELSE {}
      BY <1>1, <1>2, <2>2, <2>4, UnitsSupport DEF SupportingUnits
    <3>3. \A r \in Candidates, s \in ResultStages : <<s, r>> \notin Obtained =>
            \E u \in record.units : u.stage = s /\ u.status \notin {"SUCCESS", "RECOVERED"}
      BY <1>1, <1>2, <2>2, <2>4, MissingIsTold
    <3> QED BY <3>1, <3>2, <3>3 DEF EvidenceIsJudgedInParts, Supports
  <2> QED BY <2>3, <2>4
<1>3. CASE record = ProjectedRecord /\ ~IsArchery
  <2>1. source.facts \in BOOLEAN
    BY <1>1, <1>3, OtherSource
  <2>2. record.eligible => source.facts /\ source.status = "SUCCESS" /\ ~ContextOnly
    BY <1>3, <2>1 DEF ProjectedRecord, Unusable, ExecutionStatus, AnalysisUsable
  <2> QED BY <1>3, <2>2 DEF EvidenceIsJudgedInParts, Supports
<1>4. CASE record = Unusable(ExecutionStatus, "failed")
  BY <1>4 DEF Unusable, EvidenceIsJudgedInParts, Supports
<1> QED BY <1>1, <1>2, <1>3, <1>4

(* The evidence of an Archery call is accepted part by part: a part counts as
   eligible only if its own rows and stages succeeded.                     *)
THEOREM SpecEvidenceIsJudgedInParts == UnitsSpec => []EvidenceIsJudgedInParts
<1>1. UnitsInit => UnitsInv
  BY UnitsInitInv
<1>2. UnitsInv /\ [UnitsNext]_unitVars => UnitsInv'
  BY UnitsNextInv
<1>3. UnitsInv => EvidenceIsJudgedInParts
  BY PartsAreJudged
<1> QED BY <1>1, <1>2, <1>3, PTL DEF UnitsSpec

-----------------------------------------------------------------------------
WorkStates == {"PENDING", "SUCCEEDED", "FAILED_TERMINAL", "UNAVAILABLE"}
WorkTyped == work \in [Candidates -> [Stages -> WorkStates]]

LEMMA WorkInit == UnitsInit => WorkTyped
  BY DEF UnitsInit, WorkTyped, WorkStates, Candidates, IsArchery

LEMMA WorkStays ==
  ASSUME WorkTyped, [UnitsNext]_unitVars
  PROVE  WorkTyped'
<1>1. ASSUME NEW r \in Candidates, NEW s \in Stages, NEW status \in WorkStates,
             work' = Marked(r, s, status)
      PROVE  work' \in [Candidates -> [Stages -> WorkStates]]
  <2> DEFINE marked == [t \in Stages |->
               IF t = s THEN status
               ELSE IF s = "target_resolution" /\ status # "SUCCEEDED" /\ work[r][t] = "PENDING"
                    THEN "UNAVAILABLE" ELSE work[r][t]]
  <2>1. marked \in [Stages -> WorkStates]
    BY <1>1 DEF WorkTyped, WorkStates
  <2>2. work' = [work EXCEPT ![r] = marked]
    BY <1>1 DEF WorkTyped, Marked
  <2> HIDE DEF marked
  <2>3. QED
    BY <2>1, <2>2 DEF WorkTyped
<1>2. ASSUME NEW r \in Candidates, NEW s \in Stages, Succeed(r, s) \/ Fail(r, s) \/ Stumble(r, s)
      PROVE  WorkTyped'
  <2>1. /\ UNCHANGED source
        /\ \/ UNCHANGED work \/ work' = Marked(r, s, "SUCCEEDED")
           \/ work' = Marked(r, s, "FAILED_TERMINAL")
    BY <1>2 DEF Succeed, Fail, Stumble
  <2>2. Candidates' = Candidates
    BY <2>1 DEF Candidates, IsArchery
  <2>3. work' \in [Candidates -> [Stages -> WorkStates]]
    <3>1. "SUCCEEDED" \in WorkStates /\ "FAILED_TERMINAL" \in WorkStates
      BY DEF WorkStates
    <3>2. QED
      BY <1>1, <2>1, <3>1 DEF WorkTyped
  <2>4. QED
    BY <2>2, <2>3 DEF WorkTyped
<1>3. CASE ProjectResult \/ ProjectionFails \/ UNCHANGED unitVars
  <2>1. UNCHANGED <<source, work>>
    BY <1>3 DEF ProjectResult, ProjectionFails, unitVars
  <2>2. Candidates' = Candidates
    BY <2>1 DEF Candidates, IsArchery
  <2>3. QED
    BY <2>1, <2>2 DEF WorkTyped
<1>4. QED
  BY <1>2, <1>3 DEF UnitsNext

(* What one unit says on its own: a unit that may support a cause is a success
   of an execution that was one.                                             *)
Sound(u, status) ==
  u.status \in UnitStatuses /\ (u.eligible => u.status = "SUCCESS" /\ status = "SUCCESS")

LEMMA UnitsAreSound ==
  ASSUME source \in Sources, NEW u \in ArcheryEvidenceUnits
  PROVE  Sound(u, ExecutionStatus)
<1> DEFINE a == SlowQueryAnalysis
<1>1. IsArchery /\ source.history # "none" /\ source.history \in HistoryKinds
  BY ArcherySource DEF ArcheryEvidenceUnits
<1>2. u \in {HistoryUnit} \cup ResultUnits(a) \cup FailureUnits(a) \cup MissingUnits(a)
  BY <1>1 DEF ArcheryEvidenceUnits
<1>3. CASE u = HistoryUnit
  <2>1. source.history \in {"unparsed", "incomplete", "complete", "empty"}
    BY <1>1 DEF HistoryKinds
  <2>2. CASE source.history = "complete"
    <3>1. u.status = "SUCCESS" /\ u.eligible = (ExecutionStatus = "SUCCESS")
      BY <1>3, <2>2 DEF HistoryUnit, Unit
    <3>2. QED
      BY <3>1 DEF Sound, UnitStatuses
  <2>3. CASE source.history \in {"unparsed", "incomplete", "empty"}
    <3>1. u.status \in {"FAILED", "NO_DATA"} /\ u.eligible = FALSE
      BY <1>3, <2>3 DEF HistoryUnit, Unit
    <3>2. QED
      BY <3>1 DEF Sound, UnitStatuses
  <2>4. QED
    BY <2>1, <2>2, <2>3
<1>4. CASE u \in ResultUnits(a)
  <2>1. u.status = "SUCCESS" /\ u.eligible = (ExecutionStatus = "SUCCESS")
    BY <1>4 DEF ResultUnits, Unit
  <2>2. QED
    BY <2>1 DEF Sound, UnitStatuses
<1>5. CASE u \in FailureUnits(a)
  <2>1. PICK f \in a.failures :
          u = Unit(f.stage, f, IF Overcome(f) THEN "RECOVERED"
                               ELSE IF f = NoSafeSample THEN "NOT_APPLICABLE" ELSE "FAILED", FALSE)
    BY <1>5 DEF FailureUnits
  <2>2. u.status \in {"RECOVERED", "NOT_APPLICABLE", "FAILED"} /\ u.eligible = FALSE
    BY <2>1 DEF Unit
  <2>3. QED
    BY <2>2 DEF Sound, UnitStatuses
<1>6. CASE u \in MissingUnits(a)
  <2>1. /\ u.status \in {"UNAVAILABLE", "FAILED", "NOT_APPLICABLE", "PARTIAL", "NO_DATA"}
        /\ u.eligible = FALSE
    BY <1>6 DEF MissingUnits, Unit
  <2>2. QED
    BY <2>1 DEF Sound, UnitStatuses
<1>7. QED
  BY <1>2, <1>3, <1>4, <1>5, <1>6

(* The result of an investigation has a status of the contract, and a record
   never holds a unit that may support a cause although it, or the execution,
   was no success: what EvidenceUnit and EvidenceRecord refuse.              *)
THEOREM UnitsSpecTypeOK == UnitsSpec => []UnitsTypeOK
<1>1. UnitsInv /\ WorkTyped => UnitsTypeOK
  <2> SUFFICES ASSUME UnitsInv, WorkTyped PROVE UnitsTypeOK
    OBVIOUS
  <2>1. ExecutionStatus \in Statuses
    BY OtherSource DEF UnitsInv, ExecutionStatus, Statuses
  <2>2. ASSUME NEW r, r \in {ProjectedRecord, Unusable(ExecutionStatus, "failed")}
        PROVE  /\ r.status = ExecutionStatus
               /\ r.units = {} \/ r.units = ArcheryEvidenceUnits
    BY <2>2 DEF ProjectedRecord, Unusable
  <2>3. record # None => /\ record.status = ExecutionStatus
                         /\ \A u \in record.units : u \in ArcheryEvidenceUnits
    BY <2>2 DEF UnitsInv
  <2>4. QED
    BY <2>1, <2>3, UnitsAreSound DEF UnitsTypeOK, UnitsInv, WorkTyped, WorkStates, Sound
<1>2. UnitsInv /\ WorkTyped /\ [UnitsNext]_unitVars => (UnitsInv /\ WorkTyped)'
  BY UnitsNextInv, WorkStays
<1>3. UnitsInit => UnitsInv /\ WorkTyped
  BY UnitsInitInv, WorkInit
<1>4. QED
  BY <1>1, <1>2, <1>3, PTL DEF UnitsSpec

-----------------------------------------------------------------------------
(* The conclusion.  Once the policy has been enforced the analysis refers to
   eligible evidence only, and it stays that way (ConclusionInv).          *)

Claims ==
  [refs : SUBSET Refs, steps : SUBSET Refs,
   problem : [ref : {"none", "history", "metric"}, sample : RowIds \cup {0},
              statement : RowIds \cup {0, Invented}],
   explain : {"none", "explain", "metric"}]

(* What the policy leaves of an analysis that claims a cause. *)
Enforced == analysis.refs # {} /\ \A ref \in analysis.refs : Eligible(ref)

Verdicts == {"asked", "drafted", "kept", "valid", "invalid", "COMPLETED", "INCONCLUSIVE"}

ConclusionInv ==
  /\ evidence \in Evidences /\ analysis \in Claims /\ judged \in Verdicts
  /\ judged = "kept" => analysis = NoCause \/ Enforced
  /\ judged \in {"valid", "COMPLETED"} => Enforced /\ Supported(analysis)

-----------------------------------------------------------------------------
(* The history is a sequence of rows. *)
LEMMA EvidenceRows ==
  ASSUME evidence \in Evidences
  PROVE  /\ evidence.rows \in Seq(Row)
         /\ evidence.parent \in {"SUCCESS", "FAILED"}
         /\ evidence.good \subseteq Units /\ evidence.explained \in RowIds
  BY RowsAssumption DEF Evidences

(* A bound problem names one row, and it is the row the code takes. *)
LEMMA BoundToOne ==
  ASSUME evidence \in Evidences, NEW problem, Bound(problem)
  PROVE  \E i \in DOMAIN evidence.rows :
           /\ RowsWith(problem.sample) = {i}
           /\ BoundRow(problem) = evidence.rows[i]
           /\ evidence.rows[i] \in Row
           /\ evidence.rows[i].id = problem.sample
<1> DEFINE rows == RowsWith(problem.sample)
<1>1. evidence.rows \in Seq(Row)
  BY EvidenceRows
<1>2. IsFiniteSet(rows)
  <2>1. IsFiniteSet(1 .. Len(evidence.rows))
    BY <1>1, FS_Interval
  <2>2. rows \subseteq 1 .. Len(evidence.rows)
    BY <1>1 DEF RowsWith
  <2> QED BY <2>1, <2>2, FS_Subset
<1>3. PICK i : rows = {i}
  <2>1. Cardinality(rows) = 1
    BY DEF Bound
  <2> QED BY <1>2, <2>1, FS_Singleton
<1>4. i \in DOMAIN evidence.rows /\ evidence.rows[i].id = problem.sample
  BY <1>3 DEF RowsWith
<1>5. (CHOOSE k \in rows : \A j \in rows : k <= j) = i
  <2>1. i \in rows /\ \A j \in rows : i <= j
    BY <1>1, <1>3, <1>4
  <2> HIDE DEF rows
  <2> QED BY <1>3, <2>1
<1>6. BoundRow(problem) = evidence.rows[i]
  BY <1>5 DEF BoundRow
<1>7. evidence.rows[i] \in Row
  BY <1>1, <1>4
<1> QED BY <1>3, <1>4, <1>6, <1>7

(* What the model writes is a claim, and so is what the policy makes of it. *)
LEMMA CausesAreClaims == Causes \cup {NoCause} \subseteq Claims
<1>1. NoCause \in Claims
  BY DEF NoCause, Cause, NoProblem, Claims
<1>2. Problems \subseteq [ref : {"none", "history", "metric"}, sample : RowIds \cup {0},
                          statement : RowIds \cup {0, Invented}]
  BY DEF Problems, NoProblem
<1>3. ASSUME NEW refs \in SUBSET Refs, NEW steps \in {{}} \cup {{r} : r \in Refs},
             NEW p \in Problems, NEW x \in {"none", "explain", "metric"}
      PROVE  Cause(refs, steps, p, x) \in Claims
  BY <1>2, <1>3 DEF Cause, Claims
<1>4. Causes \subseteq Claims
  <2> SUFFICES ASSUME NEW c \in Causes PROVE c \in Claims
    OBVIOUS
  <2>1. PICK refs \in SUBSET Refs, steps \in {{}} \cup {{r} : r \in Refs},
             p \in Problems, x \in {"none", "explain", "metric"} :
               c = Cause(refs, steps, p, x)
    BY DEF Causes
  <2> QED BY <1>3, <2>1
<1> QED BY <1>1, <1>4

LEMMA ProjectedIsProblem ==
  ASSUME evidence \in Evidences, NEW refs,
         NEW problem \in [ref : {"none", "history", "metric"}, sample : RowIds \cup {0},
                          statement : RowIds \cup {0, Invented}]
  PROVE  Projected(problem, refs) \in
           [ref : {"none", "history", "metric"}, sample : RowIds \cup {0},
            statement : RowIds \cup {0, Invented}]
<1>1. CASE problem.ref \in refs /\ Bound(problem)
  <2>1. PICK i \in DOMAIN evidence.rows : BoundRow(problem) = evidence.rows[i]
                                       /\ evidence.rows[i] \in Row
    BY <1>1, BoundToOne
  <2>2. Statement(BoundRow(problem)) \in RowIds \cup {0, Invented}
    BY <2>1 DEF Statement, Row
  <2> QED BY <1>1, <2>2 DEF Projected
<1>2. CASE ~(problem.ref \in refs /\ Bound(problem))
  BY <1>2 DEF Projected
<1> QED BY <1>1, <1>2

-----------------------------------------------------------------------------
LEMMA ConclusionInitInv == ConclusionInit => ConclusionInv
  BY CausesAreClaims DEF ConclusionInit, ConclusionInv, Verdicts

(* What a verdict says of the evidence and the analysis it was given for stays
   true as long as they stay the same.                                     *)
LEMMA VerdictKept ==
  ASSUME UNCHANGED <<evidence, analysis>>
  PROVE  (Enforced <=> Enforced') /\ (Supported(analysis) <=> Supported(analysis)')
<1>1. Enforced <=> Enforced'
  BY DEF Enforced, Eligible
<1>2. Supported(analysis) <=> Supported(analysis)'
  BY DEF Supported, ProblemHolds, CitesSample, StatementHolds, ExplainHolds, ExplainOf,
         Bound, BoundRow, RowsWith, Statement, Eligible
<1> QED BY <1>1, <1>2

LEMMA ConclusionNextInv ==
  ASSUME ConclusionInv, [ConclusionNext]_conclusionVars
  PROVE  ConclusionInv'
<1>1. CASE Analyse
  <2>1. analysis' \in Claims
    BY <1>1, CausesAreClaims DEF Analyse
  <2> QED BY <1>1, <2>1 DEF Analyse, ConclusionInv, Verdicts
<1>2. CASE Enforce
  <2> DEFINE refs == {r \in analysis.refs : Eligible(r)}
  <2>1. analysis' = IF refs = {} THEN NoCause
                    ELSE [analysis EXCEPT !.refs = refs, !.problem = Projected(@, refs)]
    BY <1>2 DEF Enforce
  <2>2. evidence' = evidence /\ judged' = "kept"
    BY <1>2 DEF Enforce
  <2>3. CASE refs = {}
    BY <2>1, <2>2, <2>3, CausesAreClaims DEF ConclusionInv, Verdicts
  <2>4. CASE refs # {}
    <3>1. analysis' = [analysis EXCEPT !.refs = refs, !.problem = Projected(@, refs)]
      BY <2>1, <2>4
    <3>2. refs \subseteq analysis.refs /\ analysis \in Claims
      BY DEF ConclusionInv
    <3>3. Projected(analysis.problem, refs) \in
            [ref : {"none", "history", "metric"}, sample : RowIds \cup {0},
             statement : RowIds \cup {0, Invented}]
      BY <3>2, ProjectedIsProblem DEF ConclusionInv, Claims
    <3>4. analysis' \in Claims /\ analysis'.refs = refs
      <4> HIDE DEF refs
      <4> QED BY <3>1, <3>2, <3>3 DEF Claims
    <3>5. \A ref \in refs : Eligible(ref)'
      BY <2>2 DEF Eligible
    <3>6. Enforced'
      BY <2>4, <3>4, <3>5 DEF Enforced
    <3> QED BY <2>2, <3>4, <3>6 DEF ConclusionInv, Verdicts
  <2> QED BY <2>3, <2>4
<1>3. CASE Validate
  <2>1. (Enforced' /\ Supported(analysis)') \/ judged' = "invalid"
    <3>1. judged = "kept" => analysis = NoCause \/ Enforced
      BY DEF ConclusionInv
    <3> QED BY <1>3, <3>1, VerdictKept DEF Validate
  <2>2. evidence' = evidence /\ analysis' = analysis /\ judged' \in {"valid", "invalid"}
    BY <1>3 DEF Validate
  <2> QED BY <2>1, <2>2 DEF ConclusionInv, Verdicts
<1>4. CASE Report
  <2>1. CASE judged = "valid"
    <3>1. UNCHANGED <<evidence, analysis>> /\ judged' = "COMPLETED"
      BY <1>4, <2>1 DEF Report
    <3> QED BY <2>1, <3>1, VerdictKept DEF ConclusionInv, Verdicts
  <2>2. CASE judged = "invalid"
    <3>1. evidence' = evidence /\ analysis' = NoCause /\ judged' = "INCONCLUSIVE"
      BY <1>4, <2>2 DEF Report
    <3> QED BY <3>1, CausesAreClaims DEF ConclusionInv, Verdicts
  <2> QED BY <1>4, <2>1, <2>2 DEF Report
<1>5. CASE UNCHANGED conclusionVars
  BY <1>5, VerdictKept DEF conclusionVars, ConclusionInv
<1> QED BY <1>1, <1>2, <1>3, <1>4, <1>5 DEF ConclusionNext

(* The invariant gives the property: what the validator accepted is bound. *)
LEMMA SupportedIsBound == ConclusionInv => CompletedReportIsBound
<1> SUFFICES ASSUME ConclusionInv, judged = "COMPLETED" PROVE CompletedReportIsBound
  BY DEF CompletedReportIsBound
<1> DEFINE problem == analysis.problem
           rows == {i \in DOMAIN evidence.rows : evidence.rows[i].id = problem.sample}
<1>1. Enforced /\ Supported(analysis) /\ evidence \in Evidences /\ analysis \in Claims
  BY DEF ConclusionInv
<1>2. analysis.refs # {} /\ analysis.steps \subseteq analysis.refs
  BY <1>1 DEF Enforced, Supported
<1>3. analysis.refs \subseteq {"metric"} \cup evidence.good
  BY <1>1 DEF Enforced, Eligible
<1>4. analysis.refs \cap Units # {} => evidence.parent = "SUCCESS"
  BY <1>1 DEF Enforced, Eligible, Units
<1>5. ASSUME problem.ref = "history"
      PROVE  /\ \E i \in rows :
                  /\ rows = {i}
                  /\ problem.statement # 0 =>
                       evidence.rows[i].sample = "full" /\ problem.statement = problem.sample
             /\ "explain" \in evidence.good /\ evidence.explained = problem.sample
                  <=> analysis.explain = "explain"
  <2>1. problem \in [ref : {"none", "history", "metric"}, sample : RowIds \cup {0},
                     statement : RowIds \cup {0, Invented}]
    BY <1>1 DEF Claims
  <2>2. problem # NoProblem /\ problem.ref \in Units
    BY <1>5 DEF NoProblem, Units
  <2>3. problem.ref \in analysis.refs /\ StatementHolds(problem)
    BY <1>1, <2>2 DEF Supported, ProblemHolds
  <2>4. Bound(problem) /\ problem.statement \in {0, Statement(BoundRow(problem))}
    BY <2>3 DEF StatementHolds
  <2>5. PICK i \in DOMAIN evidence.rows :
               /\ RowsWith(problem.sample) = {i}
               /\ BoundRow(problem) = evidence.rows[i]
               /\ evidence.rows[i] \in Row
               /\ evidence.rows[i].id = problem.sample
    BY <1>1, <2>4, BoundToOne
  <2>6. rows = {i}
    BY <2>5 DEF RowsWith
  <2>7. problem.statement # 0 =>
          evidence.rows[i].sample = "full" /\ problem.statement = problem.sample
    BY <2>4, <2>5 DEF Statement
  <2>8. evidence.parent = "SUCCESS"
    BY <1>4, <1>5, <2>3 DEF Units
  <2>9. "explain" \in evidence.good /\ evidence.explained = problem.sample
          <=> ExplainOf(problem) = {"explain"}
    BY <2>4, <2>8 DEF ExplainOf, Eligible
  <2>10. ExplainOf(problem) \in {{}, {"explain"}}
    BY DEF ExplainOf
  <2>11. ExplainOf(problem) = {"explain"} <=> analysis.explain = "explain"
    BY <1>1, <2>2, <2>10 DEF Supported, ExplainHolds
  <2> QED BY <2>6, <2>7, <2>9, <2>11
<1> QED BY <1>2, <1>3, <1>4, <1>5 DEF CompletedReportIsBound

(* A report that is COMPLETED names a cause that only eligible evidence
   supports, and each slow query it names is one row of the history with the
   statement of that row, whatever the history and the drafts of the model. *)
THEOREM SpecCompletedReportIsBound == ConclusionSpec => []CompletedReportIsBound
<1>1. ConclusionInit => ConclusionInv
  BY ConclusionInitInv
<1>2. ConclusionInv /\ [ConclusionNext]_conclusionVars => ConclusionInv'
  BY ConclusionNextInv
<1>3. ConclusionInv => CompletedReportIsBound
  BY SupportedIsBound
<1> QED BY <1>1, <1>2, <1>3, PTL DEF ConclusionSpec
=============================================================================
