---------------------------- MODULE McpHarnessProofs ----------------------------
(***************************************************************************)
(* No invocation of the MCP harness is paid for twice or sent unpaid, and  *)
(* no answer that reached a checkpoint is given up, for any number of      *)
(* calls, invocations, repairs, crashes and resumes.                       *)
(*                                                                         *)
(* Neither holds of itself.  An invocation is in four places at once: the  *)
(* memory of the process, the last checkpoint, its row and the events.     *)
(* Inv says how far they may be apart: the rows and the events know no     *)
(* invocation the checkpoint does not know (Durable), the memory has the   *)
(* invocations of the checkpoint and agrees on those that have ended       *)
(* (Live), and the place in the loop says how far the newest one has come  *)
(* (AtPlace).  A resume finds the last checkpoint and what the rows and    *)
(* events say: Durable is all it may rely on (ImportedFacts, ResumeInv).   *)
(***************************************************************************)
EXTENDS McpHarness, SequenceTheorems, FiniteSetTheorems, TLAPS

Early   == {"enter", "connect", "loop", "exec"}
Opening == {"row", "debit", "start"}
Leaving == {"announce", "commit", "call"}
Waiting == {"answer", "apply", "unknown"}
Ending  == {"publish", "tell", "route"}
Looping == Early \cup Opening \cup Leaving \cup Waiting \cup Ending \cup {"close"}
Outside == {"reconcile", "store", "return"}
Places == Looping \cup Outside \cup AtRest

(* A word of a message to the model. *)
Word == Calls \cup Terminal \cup {"call", "finish", "repair", "result"}
Reasons == {"completed", "deadline", "failed"}
Faults == {"refused", "fatal", "timeout", "lost", "crashed"}
Staged == [inv : Nat, remote : BOOLEAN]

Memory ==
  [inv : Seq(Invocation), msgs : Seq(Seq(Word)), active : Prepared \cup {None},
   retry : Prepared \cup {None}, staged : SUBSET Staged, spent : Nat,
   finish : Reasons \cup {None}]
Snapshot == [mem : Memory, seen : Nat]
Process ==
  [pc : Places, prepared : Prepared \cup {None}, session : BOOLEAN,
   debited : SUBSET Nat, fault : Faults \cup {None}, resuming : BOOLEAN]
Decision == [key : Seq(Seq(Word)), call : Calls \cup {None}]
EndReport == [inv : Nat, status : Terminal]
Entry ==
  [kind : {"decision"}, what : Decision] \cup [kind : {"debit", "started"}, what : Nat]
  \cup [kind : {"ended"}, what : EndReport] \cup [kind : {"failed", "completed"}, what : {None}]

(* What the variables may hold. *)
Typed ==
  /\ mem \in Memory /\ task \in Process /\ ckpt \in Snapshot \cup {None}
  /\ row \in [Ids -> Terminal \cup {None, "PENDING", "STARTED"}]
  /\ journal \in Seq(Entry) /\ wire \in [Ids -> Nat]

(* At most the newest invocation of a memory is under way, it has a prepared
   call, and an answer is held of one that was started.                      *)
Open(m) == Positions(m, {"PENDING", "STARTED"})
WellFormed(m) ==
  /\ Len(m.inv) <= MaxInvocations
  /\ \A k \in Open(m) : k = Len(m.inv)
  /\ Open(m) # {} => m.active \in Prepared
  /\ \A i \in Held(m) : i \in DOMAIN m.inv /\ m.inv[i].status \in {"STARTED", "OK", "FAILED", "SKIPPED"}

Newest == Len(mem.inv)
NewestIs(statuses) == Newest # 0 /\ mem.inv[Newest].status \in statuses

(* Each invocation has one debit; one that was sent was sent once, after it. *)
DebitsOnce ==
  \A j, k \in Events("debit") : journal[j].what = journal[k].what => j = k
Paid ==
  \A i \in Ids :
    wire[i] > 0 => wire[i] = 1 /\ i \in Debits /\ row[i] \notin {None, "PENDING"}

(* What a resume finds. *)
Durable ==
  /\ task.pc = "idle" =>
       /\ ckpt = None /\ mem = FreshMemory /\ task.debited = {}
       /\ journal = <<>> /\ row = [i \in Ids |-> None]
  /\ task.pc # "idle" =>
       /\ ckpt \in Snapshot /\ WellFormed(ckpt.mem)
       /\ \A i \in Ids : row[i] # None => i \in DOMAIN ckpt.mem.inv
       /\ \A i \in Ids : row[i] \in Terminal => ckpt.mem.inv[i].status = row[i]
       /\ \A k \in Events("ended") :
            LET e == journal[k].what
            IN  e.inv \in DOMAIN ckpt.mem.inv /\ ckpt.mem.inv[e.inv].status = e.status

(* The memory of a running process, beside the checkpoint. *)
Live ==
  Running =>
    /\ WellFormed(mem)
    /\ Len(mem.inv) = Len(ckpt.mem.inv)
    /\ \A i \in DOMAIN mem.inv :
         /\ mem.inv[i].status \in Terminal \/ ckpt.mem.inv[i].status \in Terminal
              => mem.inv[i].status = ckpt.mem.inv[i].status
         /\ mem.inv[i].status = "PENDING" => row[i] \in {None, "PENDING"}

(* How far the newest invocation has come at each place of the loop. *)
AtPlace(t) ==
  /\ t.pc \in Looping \cup {"reconcile"} => t.debited = Debits
  /\ t.pc \in Early => Started(mem) = {}
  /\ t.pc \in Opening => NewestIs({"PENDING"})
  /\ t.pc \in Leaving \cup Waiting => NewestIs({"STARTED"})
  /\ t.pc \in Ending => NewestIs(Terminal)
  /\ t.pc \in {"exec"} \cup Opening \cup Leaving \cup Waiting => t.prepared \in Prepared
  /\ t.pc \in {"start"} \cup Leaving => t.prepared.local \/ Newest \in Debits
  /\ t.pc = "call" => ~t.prepared.local
  /\ t.pc \in Leaving => row[Newest] = "STARTED" /\ wire[Newest] = 0
  /\ t.pc \in Leaving \cup {"unknown"} \/ (t.pc = "answer" /\ ~t.prepared.local) =>
       Newest \notin Held(mem)

(* The end of the investigation, and what is stored before it. *)
Reported ==
  /\ task.pc \in Looping => ~Completed
  /\ Completed => task.pc # "idle" /\ ckpt.mem.finish # None /\ Held(ckpt.mem) \subseteq artifacts
  /\ task.pc \in Outside => mem.staged = ckpt.mem.staged /\ mem.finish = ckpt.mem.finish
  /\ task.pc \in {"close", "store", "return"} => mem.finish # None

Inv == Typed /\ DebitsOnce /\ Paid /\ Durable /\ Live /\ AtPlace(task) /\ Reported

-----------------------------------------------------------------------------

LEMMA MinOfNaturals ==
  ASSUME NEW S \in SUBSET Nat, S # {}
  PROVE  Min(S) \in S /\ \A y \in S : Min(S) <= y
<1> DEFINE R == {ss \in Nat \X Nat : ss[1] < ss[2]}
<1>1. PICK x \in S : \A y \in S : ~ (<<y, x>> \in R)
  <2>1. IsWellFoundedOn(R, Nat)
    BY NatLessThanWellFounded DEF OpToRel
  <2>2. QED
    <3> HIDE DEF R
    <3>1. QED BY <2>1, WFMin
<1>2. \A y \in S : x <= y
  <2> SUFFICES ASSUME NEW y \in S
               PROVE  x <= y
    OBVIOUS
  <2>1. <<y, x>> \in Nat \X Nat /\ <<y, x>>[1] = y /\ <<y, x>>[2] = x
    OBVIOUS
  <2>2. ~(y < x)
    BY <1>1, <2>1
  <2>3. QED
    BY <2>2
<1>3. QED
  BY <1>2 DEF Min

LEMMA EntryTypes ==
  /\ \A i \in Nat : Event("debit", i) \in Entry /\ Event("started", i) \in Entry
  /\ \A e \in EndReport : Event("ended", e) \in Entry
  /\ Event("failed", None) \in Entry /\ Event("completed", None) \in Entry
  /\ \A d \in Decision : Event("decision", d) \in Entry
BY DEF Event, Entry

LEMMA EventKinds ==
  ASSUME NEW kind, NEW what
  PROVE  Event(kind, what).kind = kind /\ Event(kind, what).what = what
BY DEF Event

(* What an event that is appended changes in what is read of the events. *)
LEMMA Recorded ==
  ASSUME journal \in Seq(Entry), NEW e \in Entry, journal' = Append(journal, e)
  PROVE  /\ journal' \in Seq(Entry)
         /\ Len(journal') = Len(journal) + 1
         /\ \A kind : Events(kind)' = IF e.kind = kind THEN Events(kind) \cup {Len(journal) + 1}
                                                      ELSE Events(kind)
         /\ \A k \in 1 .. Len(journal) : journal'[k] = journal[k]
         /\ journal'[Len(journal) + 1] = e
         /\ \A kind : Events(kind) \subseteq 1 .. Len(journal)
         /\ Len(journal) \in Nat
<1>1. /\ journal' \in Seq(Entry) /\ Len(journal') = Len(journal) + 1
      /\ \A k \in 1 .. Len(journal) : journal'[k] = journal[k]
      /\ journal'[Len(journal) + 1] = e
      /\ DOMAIN journal = 1 .. Len(journal) /\ DOMAIN journal' = 1 .. Len(journal) + 1
      /\ Len(journal) \in Nat
  OBVIOUS
<1>2. \A kind : Events(kind) \subseteq 1 .. Len(journal)
  BY <1>1 DEF Events
<1>3. ASSUME NEW kind
      PROVE  Events(kind)' = IF e.kind = kind THEN Events(kind) \cup {Len(journal) + 1}
                                              ELSE Events(kind)
  <2>1. \A k : k \in Events(kind)' <=> k \in 1 .. Len(journal) + 1 /\ journal'[k].kind = kind
    BY <1>1 DEF Events
  <2>2. \A k : k \in Events(kind) <=> k \in 1 .. Len(journal) /\ journal[k].kind = kind
    BY <1>1 DEF Events
  <2>3. \A k : k \in 1 .. Len(journal) + 1 <=> k \in 1 .. Len(journal) \/ k = Len(journal) + 1
    BY <1>1
  <2>4. \A k : k \in Events(kind)' <=> k \in Events(kind) \/ (k = Len(journal) + 1 /\ e.kind = kind)
    BY <1>1, <2>1, <2>2, <2>3
  <2>5. QED
    BY <2>4
<1>4. QED
  BY <1>1, <1>2, <1>3

LEMMA Told ==
  ASSUME journal \in Seq(Entry), NEW e \in Entry, journal' = Append(journal, e)
  PROVE  /\ journal' \in Seq(Entry)
         /\ Debits' = IF e.kind = "debit" THEN Debits \cup {e.what} ELSE Debits
         /\ DebitsOnce /\ (e.kind = "debit" => e.what \notin Debits) => DebitsOnce'
         /\ Completed' <=> Completed \/ e.kind = "completed"
         /\ \A k \in Events("ended")' :
              \/ k \in Events("ended") /\ journal'[k] = journal[k]
              \/ e.kind = "ended" /\ journal'[k] = e
<1> USE Recorded
<1>1. Debits' = IF e.kind = "debit" THEN Debits \cup {e.what} ELSE Debits
  <2>1. \A k \in Events("debit") : journal'[k] = journal[k]
    OBVIOUS
  <2>2. CASE e.kind = "debit"
    <3>1. Events("debit")' = Events("debit") \cup {Len(journal) + 1}
      BY <2>2
    <3>2. {journal'[k].what : k \in Events("debit")'} =
            {journal[k].what : k \in Events("debit")} \cup {e.what}
      BY <2>1, <3>1
    <3>3. QED
      BY <2>2, <3>2 DEF Debits
  <2>3. CASE e.kind # "debit"
    <3>1. Events("debit")' = Events("debit")
      BY <2>3
    <3>2. QED
      BY <2>1, <2>3, <3>1 DEF Debits
  <2>4. QED
    BY <2>2, <2>3
<1>2. DebitsOnce /\ (e.kind = "debit" => e.what \notin Debits) => DebitsOnce'
  <2>1. SUFFICES ASSUME DebitsOnce, e.kind = "debit" => e.what \notin Debits,
                        NEW j \in Events("debit")', NEW k \in Events("debit")',
                        journal'[j].what = journal'[k].what
                 PROVE  j = k
    BY DEF DebitsOnce
  <2>2. \A l \in Events("debit")' :
          \/ l \in Events("debit") /\ journal'[l] = journal[l]
          \/ l = Len(journal) + 1 /\ e.kind = "debit" /\ journal'[l] = e
    OBVIOUS
  <2>3. \A l \in Events("debit") : journal[l].what \in Debits
    BY DEF Debits
  <2>4. QED
    BY <2>1, <2>2, <2>3 DEF DebitsOnce
<1>3. Completed' <=> Completed \/ e.kind = "completed"
  BY DEF Completed
<1>4. \A k \in Events("ended")' :
              \/ k \in Events("ended") /\ journal'[k] = journal[k]
              \/ e.kind = "ended" /\ journal'[k] = e
  OBVIOUS
<1>5. QED
  BY <1>1, <1>2, <1>3, <1>4

(* Events that say nothing of debits, of ends and of the completion. *)
Neutral ==
  \/ UNCHANGED journal
  \/ \E e \in Entry : journal' = Append(journal, e) /\ e.kind \in {"decision", "started", "failed"}

LEMMA NeutralEvents ==
  ASSUME journal \in Seq(Entry), Neutral
  PROVE  /\ journal' \in Seq(Entry)
         /\ Debits' = Debits
         /\ DebitsOnce => DebitsOnce'
         /\ Completed' <=> Completed
         /\ \A k \in Events("ended")' : k \in Events("ended") /\ journal'[k] = journal[k]
<1>1. CASE UNCHANGED journal
  BY <1>1 DEF Debits, DebitsOnce, Completed, Events
<1>2. CASE \E e \in Entry :
             journal' = Append(journal, e) /\ e.kind \in {"decision", "started", "failed"}
  BY <1>2, Told
<1>3. QED
  BY <1>1, <1>2 DEF Neutral

-----------------------------------------------------------------------------
LEMMA MemoryFacts ==
  ASSUME NEW m \in Memory
  PROVE  /\ m.inv \in Seq(Invocation) /\ Len(m.inv) \in Nat
         /\ DOMAIN m.inv = 1 .. Len(m.inv)
         /\ \A k \in 1 .. Len(m.inv) :
              m.inv[k] \in Invocation /\ m.inv[k].status \in Terminal \cup {"PENDING", "STARTED"}
         /\ m.active \in Prepared \cup {None} /\ m.retry \in Prepared \cup {None}
         /\ m.staged \in SUBSET Staged /\ m.msgs \in Seq(Seq(Word))
         /\ Held(m) \in SUBSET Nat
<1>1. /\ m.inv \in Seq(Invocation) /\ m.staged \in SUBSET Staged
      /\ m.active \in Prepared \cup {None} /\ m.retry \in Prepared \cup {None}
      /\ m.msgs \in Seq(Seq(Word))
  BY DEF Memory
<1>2. \A k \in 1 .. Len(m.inv) : m.inv[k] \in Invocation
  BY <1>1
<1>3. Held(m) \in SUBSET Nat
  BY <1>1 DEF Held, Staged
<1>4. QED
  BY <1>1, <1>2, <1>3 DEF Invocation

(* What WellFormed reads of a memory. *)
LEMMA SameWellFormed ==
  ASSUME NEW m, NEW n, WellFormed(m), n.inv = m.inv, n.staged = m.staged,
         n.active = m.active \/ n.active \in Prepared
  PROVE  WellFormed(n)
BY DEF WellFormed, Open, Positions, Held

LEMMA Saved ==
  ASSUME NEW m \in Memory, journal' \in Seq(Entry), Save(m)
  PROVE  ckpt' \in Snapshot /\ ckpt'.mem = m /\ ckpt'.seen = Len(journal')
BY DEF Save, Snapshot

(* What a step may do to the memory and to the checkpoint without touching the
   invocations.                                                              *)
SameCalls(m) ==
  m.inv = mem.inv /\ m.staged = mem.staged /\ (m.active = mem.active \/ m.active \in Prepared)

LEMMA QuietStep ==
  ASSUME Inv, Running, mem' \in Memory, SameCalls(mem'), UNCHANGED <<row, wire>>, Neutral,
         ckpt' = ckpt \/ (ckpt' \in Snapshot /\ SameCalls(ckpt'.mem)), task'.pc # "idle"
  PROVE  DebitsOnce' /\ Paid' /\ Durable' /\ Live'
<1> DEFINE old == ckpt.mem
           new == ckpt'.mem
<1>1. /\ journal \in Seq(Entry) /\ mem \in Memory /\ ckpt \in Snapshot /\ old \in Memory
      /\ WellFormed(old) /\ WellFormed(mem) /\ Len(mem.inv) = Len(old.inv)
      /\ task.pc # "idle"
  BY DEF Inv, Typed, Durable, Live, Running, AtRest, Snapshot
<1>2. /\ DebitsOnce' /\ Debits' = Debits
      /\ \A k \in Events("ended")' : k \in Events("ended") /\ journal'[k] = journal[k]
  BY <1>1, NeutralEvents DEF Inv
<1>3. Paid'
  BY <1>2 DEF Inv, Paid
<1>4. WellFormed(mem')
  BY <1>1, SameWellFormed DEF SameCalls
<1>5. /\ ckpt' \in Snapshot /\ WellFormed(new) /\ Len(new.inv) = Len(old.inv)
      /\ DOMAIN new.inv = DOMAIN old.inv
      /\ \A i \in DOMAIN old.inv :
           old.inv[i].status \in Terminal => new.inv[i].status = old.inv[i].status
      /\ \A i \in DOMAIN mem.inv :
           mem.inv[i].status \in Terminal \/ new.inv[i].status \in Terminal
             => mem.inv[i].status = new.inv[i].status
  <2>1. CASE ckpt' = ckpt
    BY <1>1, <2>1 DEF Inv, Live
  <2>2. CASE ckpt' \in Snapshot /\ SameCalls(ckpt'.mem)
    <3>1. new.inv = mem.inv /\ WellFormed(new)
      BY <1>1, <2>2, SameWellFormed DEF SameCalls
    <3>2. DOMAIN mem.inv = DOMAIN old.inv
      BY <1>1, MemoryFacts
    <3>3. QED
      BY <1>1, <2>2, <3>1, <3>2 DEF Inv, Live
  <2>3. QED
    BY <2>1, <2>2
<1>6. \A i \in DOMAIN old.inv : old.inv[i].status \in Terminal \cup {"PENDING", "STARTED"}
  BY <1>1, MemoryFacts
<1>7. Durable'
  <2>1. \A i \in Ids : row'[i] # None => i \in DOMAIN new.inv
    BY <1>1, <1>5 DEF Inv, Durable
  <2>2. \A i \in Ids : row'[i] \in Terminal => new.inv[i].status = row'[i]
    <3>1. ASSUME NEW i \in Ids, row'[i] \in Terminal
          PROVE  new.inv[i].status = row'[i]
      <4>1. row[i] \in Terminal /\ row[i] # None
        BY <3>1, NoneAssumption
      <4>2. i \in DOMAIN old.inv /\ old.inv[i].status = row[i]
        BY <1>1, <4>1 DEF Inv, Durable
      <4>3. QED
        BY <1>5, <4>1, <4>2
    <3>2. QED
      BY <3>1
  <2>3. ASSUME NEW k \in Events("ended")'
        PROVE  /\ journal'[k].what.inv \in DOMAIN new.inv
               /\ new.inv[journal'[k].what.inv].status = journal'[k].what.status
    <3>1. /\ k \in Events("ended") /\ journal'[k] = journal[k]
          /\ journal[k].what.inv \in DOMAIN old.inv
          /\ old.inv[journal[k].what.inv].status = journal[k].what.status
      BY <1>1, <1>2 DEF Inv, Durable
    <3>2. journal[k].what.status \in Terminal
      <4>1. journal[k] \in Entry /\ journal[k].kind = "ended"
        BY <1>1, <3>1 DEF Events
      <4>2. QED
        BY <4>1 DEF Entry, EndReport
    <3>3. QED
      BY <1>5, <3>1, <3>2
  <2>4. QED
    BY <1>1, <1>5, <2>1, <2>2, <2>3 DEF Durable
<1>8. Live'
  BY <1>1, <1>4, <1>5 DEF Inv, Live, SameCalls
<1>9. QED
  BY <1>2, <1>3, <1>7, <1>8

LEMMA SamePlace ==
  ASSUME Debits' = Debits, mem'.inv = mem.inv, mem'.staged = mem.staged,
         UNCHANGED <<row, wire>>, AtPlace(task')
  PROVE  AtPlace(task)'
BY DEF AtPlace, Started, Positions, NewestIs, Newest, Held

(* A step within the loop that leaves the invocations as they are. *)
LEMMA LoopStep ==
  ASSUME Inv, task.pc \in Looping, task' \in Process, task'.pc \in Looping,
         task'.pc = "close" => mem'.finish # None,
         mem' \in Memory, SameCalls(mem'), UNCHANGED <<row, wire, artifacts>>, Neutral,
         ckpt' = ckpt \/ (ckpt' \in Snapshot /\ SameCalls(ckpt'.mem)), AtPlace(task')
  PROVE  Inv'
<1>1. /\ Running /\ task'.pc # "idle" /\ journal \in Seq(Entry)
      /\ task'.pc \notin Outside
  BY DEF Inv, Typed, Running, AtRest, Outside, Looping, Early, Opening, Leaving, Waiting, Ending
<1>2. DebitsOnce' /\ Paid' /\ Durable' /\ Live'
  BY <1>1, QuietStep
<1>3. journal' \in Seq(Entry) /\ Debits' = Debits /\ (Completed' <=> Completed)
  BY <1>1, NeutralEvents
<1>4. AtPlace(task)'
  BY <1>3, SamePlace DEF SameCalls
<1>5. ~Completed'
  BY <1>3 DEF Inv, Reported
<1>6. Reported'
  BY <1>1, <1>5 DEF Reported, Outside
<1>7. ckpt' \in Snapshot \cup {None}
  BY DEF Inv, Typed
<1>8. Typed'
  BY <1>3, <1>7 DEF Inv, Typed
<1>9. QED
  BY <1>2, <1>4, <1>6, <1>8 DEF Inv

LEMMA InvFacts ==
  ASSUME Inv
  PROVE  /\ mem \in Memory /\ task \in Process /\ journal \in Seq(Entry)
         /\ row \in [Ids -> Terminal \cup {None, "PENDING", "STARTED"}] /\ wire \in [Ids -> Nat]
         /\ Running => ckpt \in Snapshot /\ WellFormed(mem)
BY DEF Inv, Typed, Durable, Live, Running, AtRest

LEMMA LiveFacts ==
  ASSUME Inv, Running
  PROVE  /\ ckpt \in Snapshot /\ ckpt.mem \in Memory /\ WellFormed(ckpt.mem) /\ WellFormed(mem)
         /\ Len(mem.inv) = Len(ckpt.mem.inv)
         /\ DOMAIN mem.inv = 1 .. Len(mem.inv) /\ DOMAIN ckpt.mem.inv = DOMAIN mem.inv
         /\ DOMAIN mem.inv \subseteq Ids /\ Newest \in Nat
         /\ \A i \in DOMAIN mem.inv :
              /\ mem.inv[i].status \in Terminal \/ ckpt.mem.inv[i].status \in Terminal
                   => mem.inv[i].status = ckpt.mem.inv[i].status
              /\ mem.inv[i].status = "PENDING" => row[i] \in {None, "PENDING"}
<1>1. /\ ckpt \in Snapshot /\ ckpt.mem \in Memory /\ WellFormed(ckpt.mem) /\ WellFormed(mem)
      /\ Len(mem.inv) = Len(ckpt.mem.inv) /\ Len(mem.inv) <= MaxInvocations
  BY InvFacts DEF Inv, Durable, Live, Running, AtRest, Snapshot, WellFormed
<1>2. /\ DOMAIN mem.inv = 1 .. Len(mem.inv) /\ DOMAIN ckpt.mem.inv = DOMAIN mem.inv
      /\ Newest \in Nat
  BY <1>1, InvFacts, MemoryFacts DEF Newest
<1>3. DOMAIN mem.inv \subseteq Ids
  BY <1>1, <1>2, HarnessAssumption DEF Ids, Newest
<1>4. QED
  BY <1>1, <1>2, <1>3 DEF Inv, Live

LEMMA PendingIsNewest ==
  ASSUME Inv, Running, Pending(mem) # {}
  PROVE  NewestIs({"PENDING"}) /\ mem.active \in Prepared
<1>1. PICK k \in DOMAIN mem.inv : mem.inv[k].status = "PENDING"
  BY DEF Pending, Positions
<1>2. k \in Open(mem)
  BY <1>1 DEF Open, Positions
<1>3. k = Len(mem.inv) /\ mem.active \in Prepared
  BY <1>2, InvFacts DEF WellFormed
<1>4. QED
  BY <1>1, <1>3, InvFacts, MemoryFacts DEF NewestIs, Newest

LEMMA CurrentIsNewest ==
  ASSUME Inv, task.pc \in Opening \cup Leaving \cup Waiting
  PROVE  /\ Current(mem) = Newest /\ Newest \in 1 .. Len(mem.inv) /\ Newest \in Ids
         /\ mem.inv[Newest].status = IF task.pc \in Opening THEN "PENDING" ELSE "STARTED"
<1>1. Running /\ mem \in Memory /\ WellFormed(mem)
  BY InvFacts DEF Running, AtRest, Opening, Leaving, Waiting
<1>2. /\ Newest # 0
      /\ mem.inv[Newest].status = IF task.pc \in Opening THEN "PENDING" ELSE "STARTED"
  BY DEF Inv, AtPlace, NewestIs, Opening, Leaving, Waiting
<1>3. Newest \in 1 .. Len(mem.inv) /\ Newest \in DOMAIN mem.inv
  BY <1>1, <1>2, MemoryFacts DEF Newest
<1>4. Pending(mem) \cup Started(mem) = {Newest}
  <2>1. Newest \in Pending(mem) \cup Started(mem)
    BY <1>2, <1>3 DEF Pending, Started, Positions
  <2>2. \A k \in Pending(mem) \cup Started(mem) : k = Newest
    BY <1>1 DEF Pending, Started, Positions, Open, WellFormed, Newest
  <2>3. QED
    BY <2>1, <2>2
<1>5. Newest \in Ids
  BY <1>1, <1>3, MemoryFacts, HarnessAssumption DEF WellFormed, Newest, Ids
<1>6. QED
  BY <1>2, <1>3, <1>4, <1>5 DEF Current

LEMMA FinishInv ==
  ASSUME Inv, FinishAtDeadline \/ ScenarioCompletes
  PROVE  Inv'
<1>1. PICK why \in Reasons : Finish(why) /\ task.pc \in Early
  BY DEF FinishAtDeadline, ScenarioCompletes, Reasons, Early
<1>2. /\ mem' = [mem EXCEPT !.finish = why] /\ task' = [task EXCEPT !.pc = "close"]
      /\ UNCHANGED <<ckpt, row, journal, artifacts, wire>>
  BY <1>1 DEF Finish, Goto
<1>3. mem' \in Memory /\ SameCalls(mem') /\ mem'.finish = why /\ why # None
  BY <1>2, InvFacts, NoneAssumption DEF Memory, SameCalls, Reasons
<1>4. task' \in Process /\ task'.pc = "close"
  BY <1>2, InvFacts DEF Process, Places, Looping
<1>5. AtPlace(task')
  BY <1>1, <1>2, <1>4, InvFacts DEF AtPlace, Inv, Process, Looping, Early, Opening, Leaving, Waiting, Ending
<1>6. QED
  BY <1>1, <1>2, <1>3, <1>4, <1>5, LoopStep DEF Neutral, Looping

LEMMA EnterInv ==
  ASSUME Inv, Enter
  PROVE  Inv'
<1>1. task.pc = "enter" /\ UNCHANGED <<mem, ckpt, row, journal, artifacts, wire>>
  BY DEF Enter
<1>2. SameCalls(mem') /\ mem' \in Memory /\ task.pc \in Looping /\ Neutral
  BY <1>1, InvFacts DEF SameCalls, Looping, Early, Neutral
<1>3. CASE HostAnswerPending /\ task' = [task EXCEPT !.pc = "debit", !.prepared = mem.active]
  <2>1. mem.active \in Prepared /\ NewestIs({"PENDING"})
    BY <1>1, <1>3, PendingIsNewest DEF HostAnswerPending, Running, AtRest
  <2>2. task' \in Process /\ task'.pc = "debit" /\ task'.prepared \in Prepared /\ task'.debited = task.debited
    BY <1>3, <2>1, InvFacts DEF Process, Places, Looping, Opening
  <2>3. AtPlace(task')
    BY <1>1, <2>1, <2>2 DEF AtPlace, Inv, Looping, Early, Opening, Leaving, Waiting, Ending
  <2>4. QED
    BY <1>1, <1>2, <2>2, <2>3, LoopStep DEF Looping, Opening
<1>4. CASE task' = [task EXCEPT !.pc = "connect"]
  <2>1. task' \in Process /\ task'.pc = "connect" /\ task'.debited = task.debited
    BY <1>4, InvFacts DEF Process, Places, Looping, Early
  <2>2. AtPlace(task')
    BY <1>1, <2>1 DEF AtPlace, Inv, Looping, Early, Opening, Leaving, Waiting, Ending
  <2>3. QED
    BY <1>1, <1>2, <2>1, <2>2, LoopStep DEF Looping, Early
<1>5. QED
  BY <1>3, <1>4 DEF Enter, Goto

LEMMA MessageTypes ==
  /\ \A c \in Calls : <<"call", c>> \in Seq(Word)
  /\ <<"finish">> \in Seq(Word) /\ <<"repair">> \in Seq(Word)
  /\ \A s \in Terminal : <<"result", s>> \in Seq(Word)
BY DEF Word

LEMMA SavedSame ==
  ASSUME Inv, Neutral, NEW m \in Memory, SameCalls(m), Save(m)
  PROVE  ckpt' \in Snapshot /\ SameCalls(ckpt'.mem)
BY InvFacts, NeutralEvents, Saved DEF SameCalls

LEMMA ConnectInv ==
  ASSUME Inv, Connect \/ ConnectFails
  PROVE  Inv'
<1>1. /\ task.pc = "connect" /\ UNCHANGED <<row, journal, artifacts, wire>> /\ Save(mem)
      /\ mem \in Memory /\ SameCalls(mem)
  BY InvFacts DEF Connect, ConnectFails, SameCalls
<1>2. task.pc \in Looping /\ Neutral /\ ckpt' \in Snapshot /\ SameCalls(ckpt'.mem)
  BY <1>1, SavedSame DEF Looping, Early, Neutral
<1>3. CASE Connect
  <2>1. /\ mem' = mem /\ task' \in Process /\ task'.pc \in {"loop", "exec"}
        /\ task'.prepared = task.prepared /\ task'.debited = task.debited
        /\ task'.pc = "exec" => task.prepared # None
    BY <1>3, InvFacts DEF Connect, Process, Places, Looping, Early
  <2>2. task'.pc = "exec" => task'.prepared \in Prepared
    BY <2>1, InvFacts DEF Process
  <2>3. AtPlace(task')
    BY <1>1, <2>1, <2>2 DEF AtPlace, Inv, Looping, Early, Opening, Leaving, Waiting, Ending
  <2>4. QED
    BY <1>1, <1>2, <2>1, <2>3, LoopStep DEF Looping, Early
<1>4. CASE ConnectFails /\ UNCHANGED <<mem, task>>
  <2>1. task' \in Process /\ task'.pc = "connect" /\ mem' \in Memory /\ SameCalls(mem')
    BY <1>1, <1>4, InvFacts
  <2>2. AtPlace(task')
    BY <1>4 DEF Inv
  <2>3. QED
    BY <1>1, <1>2, <2>1, <2>2, LoopStep DEF Looping, Early
<1>5. CASE mem' = [mem EXCEPT !.finish = "failed"] /\ Goto("close")
  <2>1. mem' \in Memory /\ SameCalls(mem') /\ mem'.finish # None
    BY <1>1, <1>5, InvFacts, NoneAssumption DEF Memory, SameCalls, Reasons
  <2>2. task' \in Process /\ task'.pc = "close" /\ task'.debited = task.debited
    BY <1>5, InvFacts DEF Goto, Process, Places, Looping
  <2>3. AtPlace(task')
    BY <1>1, <2>2 DEF AtPlace, Inv, Looping, Early, Opening, Leaving, Waiting, Ending
  <2>4. QED
    BY <1>1, <1>2, <2>1, <2>2, <2>3, LoopStep DEF Looping
<1>6. QED
  BY <1>3, <1>4, <1>5 DEF ConnectFails

LEMMA DecideInv ==
  ASSUME Inv, NEW c \in Calls, Decide(c)
  PROVE  Inv'
<1>1. task.pc = "loop" /\ UNCHANGED <<ckpt, row, artifacts, wire>>
  BY DEF Decide, Choosing
<1>2. PICK host \in BOOLEAN :
        task' = [task EXCEPT !.prepared = [call |-> c, local |-> host, dec |-> Len(journal) + 1],
                             !.pc = "exec"]
  BY DEF Decide
<1>3. [call |-> c, local |-> host, dec |-> Len(journal) + 1] \in Prepared
  BY InvFacts DEF Prepared
<1>4. /\ task' \in Process /\ task'.pc = "exec" /\ task'.prepared \in Prepared
      /\ task'.debited = task.debited
  BY <1>2, <1>3, InvFacts DEF Process, Places, Looping, Early
<1>5. mem' \in Memory /\ SameCalls(mem')
  <2>1. mem' = [mem EXCEPT !.msgs = Append(@, <<"call", c>>)]
    BY DEF Decide
  <2>2. Append(mem.msgs, <<"call", c>>) \in Seq(Seq(Word))
    BY InvFacts, MemoryFacts, MessageTypes
  <2>3. QED
    BY <2>1, <2>2, InvFacts DEF Memory, SameCalls
<1>6. Neutral
  <2>1. [key |-> DecisionKey(mem), call |-> c] \in Decision
    BY InvFacts, MemoryFacts DEF Decision, DecisionKey
  <2>2. QED
    BY <2>1, EntryTypes, EventKinds DEF Neutral, Decide
<1>7. AtPlace(task')
  BY <1>1, <1>4 DEF AtPlace, Inv, Looping, Early, Opening, Leaving, Waiting, Ending
<1>8. QED
  BY <1>1, <1>4, <1>5, <1>6, <1>7, LoopStep DEF Looping, Early

LEMMA DecideToFinishInv ==
  ASSUME Inv, DecideToFinish
  PROVE  Inv'
<1>1. task.pc = "loop" /\ UNCHANGED <<ckpt, row, artifacts, wire>>
  BY DEF DecideToFinish, Choosing
<1>2. task' \in Process /\ task'.pc = "close" /\ task'.debited = task.debited
  BY InvFacts DEF DecideToFinish, Goto, Process, Places, Looping
<1>3. mem' \in Memory /\ SameCalls(mem') /\ mem'.finish # None
  <2>1. mem' = [mem EXCEPT !.msgs = Append(@, <<"finish">>), !.finish = "completed"]
    BY DEF DecideToFinish
  <2>2. Append(mem.msgs, <<"finish">>) \in Seq(Seq(Word))
    BY InvFacts, MemoryFacts, MessageTypes
  <2>3. QED
    BY <2>1, <2>2, InvFacts, NoneAssumption DEF Memory, SameCalls, Reasons
<1>4. Neutral
  <2>1. [key |-> DecisionKey(mem), call |-> None] \in Decision
    BY InvFacts, MemoryFacts DEF Decision, DecisionKey
  <2>2. QED
    BY <2>1, EntryTypes, EventKinds DEF Neutral, DecideToFinish
<1>5. AtPlace(task')
  BY <1>1, <1>2 DEF AtPlace, Inv, Looping, Early, Opening, Leaving, Waiting, Ending
<1>6. QED
  BY <1>1, <1>2, <1>3, <1>4, <1>5, LoopStep DEF Looping, Early

LEMMA DecideAgainInv ==
  ASSUME Inv, DecideAgain
  PROVE  Inv'
<1>1. task.pc = "loop" /\ UNCHANGED <<ckpt, row, journal, artifacts, wire>>
  BY DEF DecideAgain, Choosing
<1>2. PICK k \in Decided(mem) :
        LET c == journal[k].what.call
        IN  IF c = None
            THEN /\ mem' = [mem EXCEPT !.msgs = Append(@, <<"finish">>), !.finish = "completed"]
                 /\ Goto("close")
            ELSE /\ mem' = [mem EXCEPT !.msgs = Append(@, <<"call", c>>)]
                 /\ \E host \in BOOLEAN :
                      task' = [task EXCEPT !.pc = "exec",
                                 !.prepared = [call |-> c, local |-> host, dec |-> k]]
  BY DEF DecideAgain
<1>3. k \in Nat /\ journal[k].what.call \in Calls \cup {None}
  <2>1. journal[k] \in Entry /\ journal[k].kind = "decision" /\ k \in Nat
    BY InvFacts DEF Decided, Events
  <2>2. QED
    BY <2>1 DEF Entry, Decision
<1>4. CASE journal[k].what.call = None
  <2>1. task' \in Process /\ task'.pc = "close" /\ task'.debited = task.debited
    BY <1>2, <1>4, InvFacts DEF Goto, Process, Places, Looping
  <2>2. mem' = [mem EXCEPT !.msgs = Append(@, <<"finish">>), !.finish = "completed"]
    BY <1>2, <1>4
  <2>3. Append(mem.msgs, <<"finish">>) \in Seq(Seq(Word))
    BY InvFacts, MemoryFacts, MessageTypes
  <2>4. mem' \in Memory /\ SameCalls(mem') /\ mem'.finish # None
    BY <2>2, <2>3, InvFacts, NoneAssumption DEF Memory, SameCalls, Reasons
  <2>5. AtPlace(task')
    BY <1>1, <2>1 DEF AtPlace, Inv, Looping, Early, Opening, Leaving, Waiting, Ending
  <2>6. QED
    BY <1>1, <2>1, <2>4, <2>5, LoopStep DEF Looping, Early, Neutral
<1>5. CASE journal[k].what.call # None
  <2> DEFINE c == journal[k].what.call
  <2>1. PICK host \in BOOLEAN :
          task' = [task EXCEPT !.pc = "exec",
                               !.prepared = [call |-> c, local |-> host, dec |-> k]]
    BY <1>2, <1>5
  <2>2. c \in Calls
    BY <1>3, <1>5
  <2> HIDE DEF c
  <2>3. [call |-> c, local |-> host, dec |-> k] \in Prepared
    BY <1>3, <2>2 DEF Prepared
  <2>4. /\ task' \in Process /\ task'.pc = "exec" /\ task'.prepared \in Prepared
        /\ task'.debited = task.debited
    BY <2>1, <2>3, InvFacts DEF Process, Places, Looping, Early
  <2>5. mem' = [mem EXCEPT !.msgs = Append(@, <<"call", c>>)]
    BY <1>2, <1>5 DEF c
  <2>6. Append(mem.msgs, <<"call", c>>) \in Seq(Seq(Word))
    BY <2>2, InvFacts, MemoryFacts, MessageTypes
  <2>7. mem' \in Memory /\ SameCalls(mem')
    BY <2>5, <2>6, InvFacts DEF Memory, SameCalls
  <2>8. AtPlace(task')
    BY <1>1, <2>4 DEF AtPlace, Inv, Looping, Early, Opening, Leaving, Waiting, Ending
  <2>9. QED
    BY <1>1, <2>4, <2>7, <2>8, LoopStep DEF Looping, Early, Neutral
<1>6. QED
  BY <1>4, <1>5

LEMMA RepairInv ==
  ASSUME Inv, RepairPlan
  PROVE  Inv'
<1>1. /\ task.pc = "loop" /\ UNCHANGED <<task, row, journal, artifacts, wire>> /\ Save(mem')
      /\ mem' = [mem EXCEPT !.msgs = Append(@, <<"repair">>)]
  BY DEF RepairPlan, Choosing
<1>2. Append(mem.msgs, <<"repair">>) \in Seq(Seq(Word))
  BY InvFacts, MemoryFacts, MessageTypes
<1>3. mem' \in Memory /\ SameCalls(mem') /\ Neutral
  BY <1>1, <1>2, InvFacts DEF Memory, SameCalls, Neutral
<1>4. ckpt' \in Snapshot /\ SameCalls(ckpt'.mem)
  BY <1>1, <1>3, SavedSame
<1>5. task' \in Process /\ task'.pc = "loop" /\ AtPlace(task')
  BY <1>1, InvFacts DEF Inv
<1>6. QED
  BY <1>1, <1>3, <1>4, <1>5, LoopStep DEF Looping, Early

(* The call is taken up, or a session is opened for it. *)
LEMMA TakeUpInv ==
  ASSUME Inv, TakeUp \/ OpenForCall \/ Reuse
  PROVE  Inv'
<1>1. /\ task.pc \in {"loop", "exec"}
      /\ UNCHANGED <<ckpt, row, journal, artifacts, wire>>
  BY DEF TakeUp, OpenForCall, Reuse
<1>2. Running /\ task.pc \in Looping /\ Neutral /\ task.pc \in Early
  BY <1>1 DEF Running, AtRest, Looping, Early, Neutral
<1>3. CASE TakeUp
  <2>1. task.pc = "loop" /\ mem' = mem
    BY <1>3 DEF TakeUp
  <2>2. (IF Pending(mem) # {} THEN mem.active ELSE mem.retry) \in Prepared
    BY <1>2, <1>3, PendingIsNewest, InvFacts, MemoryFacts DEF TakeUp
  <2>3. /\ task' \in Process /\ task'.pc = "exec" /\ task'.prepared \in Prepared
        /\ task'.debited = task.debited
    BY <1>3, <2>2, InvFacts DEF TakeUp, Process, Places, Looping, Early
  <2>4. AtPlace(task')
    BY <1>2, <2>1, <2>3 DEF AtPlace, Inv, Looping, Early, Opening, Leaving, Waiting, Ending
  <2>5. QED
    BY <1>1, <1>2, <2>1, <2>3, <2>4, InvFacts, LoopStep DEF Looping, Early, SameCalls
<1>4. CASE OpenForCall
  <2>1. /\ task' \in Process /\ task'.pc = "connect" /\ task'.debited = task.debited
        /\ mem' = mem
    BY <1>4, InvFacts DEF OpenForCall, Goto, Process, Places, Looping, Early
  <2>2. AtPlace(task')
    BY <1>2, <2>1 DEF AtPlace, Inv, Looping, Early, Opening, Leaving, Waiting, Ending
  <2>3. QED
    BY <1>1, <1>2, <2>1, <2>2, InvFacts, LoopStep DEF Looping, Early, SameCalls
<1>5. CASE Reuse
  <2>1. task.pc = "exec" /\ task.prepared \in Prepared /\ NewestIs({"PENDING"})
    BY <1>2, <1>5, PendingIsNewest DEF Reuse, Inv, AtPlace
  <2>2. mem' \in Memory /\ SameCalls(mem')
    BY <1>5, <2>1, InvFacts DEF Reuse, Memory, SameCalls
  <2>3. /\ task' \in Process /\ task'.pc = "debit" /\ task'.prepared \in Prepared
        /\ task'.debited = task.debited
    BY <1>5, <2>1, InvFacts DEF Reuse, Goto, Process, Places, Looping, Opening
  <2>4. AtPlace(task')
    BY <1>2, <2>1, <2>3 DEF AtPlace, Inv, Looping, Early, Opening, Leaving, Waiting, Ending
  <2>5. QED
    BY <1>1, <1>2, <2>2, <2>3, <2>4, LoopStep DEF Looping, Opening
<1>6. QED
  BY <1>3, <1>4, <1>5

LEMMA AnnounceInv ==
  ASSUME Inv, Announce
  PROVE  Inv'
<1>1. /\ task.pc = "announce" /\ UNCHANGED <<mem, ckpt, row, artifacts, wire>>
      /\ journal' = Append(journal, Event("started", Current(mem)))
      /\ task' = [task EXCEPT !.pc = "commit"]
  BY DEF Announce, Goto
<1>2. Current(mem) = Newest /\ Newest \in Nat
  BY <1>1, CurrentIsNewest, InvFacts, MemoryFacts DEF Newest, Leaving
<1>3. Neutral /\ SameCalls(mem') /\ mem' \in Memory
  BY <1>1, <1>2, EntryTypes, EventKinds, InvFacts DEF Neutral, SameCalls
<1>4. /\ task' \in Process /\ task'.pc = "commit" /\ task'.debited = task.debited
      /\ task'.prepared = task.prepared
  BY <1>1, InvFacts DEF Process, Places, Looping, Leaving
<1>5. AtPlace(task')
  BY <1>1, <1>4 DEF AtPlace, Inv, Looping, Early, Opening, Leaving, Waiting, Ending
<1>6. QED
  BY <1>1, <1>3, <1>4, <1>5, LoopStep DEF Looping, Leaving

LEMMA CommitInv ==
  ASSUME Inv, Commit
  PROVE  Inv'
<1>1. /\ task.pc = "commit" /\ UNCHANGED <<row, journal, artifacts, wire>>
      /\ mem' = [mem EXCEPT !.retry = None] /\ Save(mem')
      /\ task' = [task EXCEPT !.pc = IF task.prepared.local THEN "answer" ELSE "call"]
  BY DEF Commit, Goto
<1>2. mem' \in Memory /\ SameCalls(mem') /\ Neutral
  BY <1>1, InvFacts DEF Memory, SameCalls, Neutral
<1>3. ckpt' \in Snapshot /\ SameCalls(ckpt'.mem)
  BY <1>1, <1>2, SavedSame
<1>4. /\ task' \in Process /\ task'.debited = task.debited /\ task'.prepared = task.prepared
      /\ \/ task'.pc = "answer" /\ task.prepared.local
         \/ task'.pc = "call" /\ ~task.prepared.local
  BY <1>1, InvFacts DEF Process, Places, Looping, Leaving, Waiting
<1>5. AtPlace(task')
  BY <1>1, <1>4 DEF AtPlace, Inv, Looping, Early, Opening, Leaving, Waiting, Ending
<1>6. QED
  BY <1>1, <1>2, <1>3, <1>4, <1>5, LoopStep DEF Looping, Leaving, Waiting

LEMMA RouteInv ==
  ASSUME Inv, Route
  PROVE  Inv'
<1>1. /\ task.pc = "route" /\ UNCHANGED <<row, journal, artifacts, wire>> /\ Save(mem)
      /\ \/ \E where \in {"enter", "loop", "connect"} : GoOn(where)
         \/ \E why \in {"deadline", "failed"} : mem' = [mem EXCEPT !.finish = why] /\ Goto("close")
  BY DEF Route
<1>2. mem \in Memory /\ SameCalls(mem) /\ Neutral /\ ckpt' \in Snapshot /\ SameCalls(ckpt'.mem)
  BY <1>1, InvFacts, SavedSame DEF SameCalls, Neutral
<1>3. Started(mem) = {}
  <2>1. ASSUME NEW k \in Started(mem)
        PROVE  FALSE
    <3>1. k \in Open(mem) /\ mem.inv[k].status = "STARTED"
      BY <2>1 DEF Started, Open, Positions
    <3>2. k = Newest
      BY <1>1, <3>1, InvFacts DEF WellFormed, Newest, Running, AtRest
    <3>3. NewestIs(Terminal)
      BY <1>1 DEF Inv, AtPlace, Ending
    <3>4. QED
      BY <3>1, <3>2, <3>3 DEF NewestIs, Terminal
  <2>2. QED
    BY <2>1
<1>4. ASSUME NEW where \in {"enter", "loop", "connect"}, GoOn(where)
      PROVE  Inv'
  <2>1. /\ task' \in Process /\ task'.pc = where /\ task'.debited = task.debited
        /\ mem' = mem
    BY <1>4, InvFacts DEF GoOn, Process, Places, Looping, Early
  <2>2. AtPlace(task')
    BY <1>1, <1>3, <2>1 DEF AtPlace, Inv, Looping, Early, Opening, Leaving, Waiting, Ending
  <2>3. QED
    BY <1>1, <1>2, <2>1, <2>2, LoopStep DEF Looping, Early, Ending
<1>5. ASSUME NEW why \in {"deadline", "failed"}, mem' = [mem EXCEPT !.finish = why], Goto("close")
      PROVE  Inv'
  <2>1. mem' \in Memory /\ SameCalls(mem') /\ mem'.finish # None
    BY <1>5, InvFacts, NoneAssumption DEF Memory, SameCalls, Reasons
  <2>2. task' \in Process /\ task'.pc = "close" /\ task'.debited = task.debited
    BY <1>5, InvFacts DEF Goto, Process, Places, Looping
  <2>3. AtPlace(task')
    BY <1>1, <2>2 DEF AtPlace, Inv, Looping, Early, Opening, Leaving, Waiting, Ending
  <2>4. QED
    BY <1>1, <1>2, <2>1, <2>2, <2>3, LoopStep DEF Looping, Ending
<1>6. QED
  BY <1>1, <1>4, <1>5

-----------------------------------------------------------------------------
(* The process stops working: nothing is left but what is durable. *)
LEMMA RestStep ==
  ASSUME Inv, task.pc # "idle", NEW where \in {"down", "raised"}, task' = Idle(where),
         UNCHANGED <<ckpt, row, wire>>, mem' \in Memory, Neutral, artifacts \subseteq artifacts'
  PROVE  Inv'
<1>1. /\ task' \in Process /\ task'.pc = where /\ task'.pc \in AtRest
      /\ task'.pc \notin Looping \cup Outside \cup {"idle"}
  BY DEF Idle, Process, Places, AtRest, Looping, Early, Opening, Leaving, Waiting, Ending, Outside
<1>2. /\ journal' \in Seq(Entry) /\ Debits' = Debits /\ DebitsOnce' /\ (Completed' <=> Completed)
      /\ \A k \in Events("ended")' : k \in Events("ended") /\ journal'[k] = journal[k]
  BY NeutralEvents, InvFacts DEF Inv
<1>3. Typed'
  BY <1>1, <1>2 DEF Inv, Typed
<1>4. Paid'
  BY <1>2 DEF Inv, Paid
<1>5. Durable'
  BY <1>1, <1>2 DEF Inv, Durable
<1>6. Live'
  BY <1>1 DEF Live, Running
<1>7. AtPlace(task)'
  BY <1>1 DEF AtPlace, Looping, Early, Opening, Leaving, Waiting, Ending, AtRest
<1>8. Reported'
  BY <1>1, <1>2 DEF Inv, Reported, Looping, Outside
<1>9. QED
  BY <1>2, <1>3, <1>4, <1>5, <1>6, <1>7, <1>8 DEF Inv

LEMMA RaiseInv ==
  ASSUME Inv, task.pc # "idle", Raise, UNCHANGED <<ckpt, row, wire>>, mem' \in Memory
  PROVE  Inv'
<1>1. task' = Idle("raised") /\ artifacts \subseteq artifacts'
  BY DEF Raise
<1>2. Neutral
  <2>1. CASE task.resuming
    BY <2>1 DEF Raise, Neutral
  <2>2. CASE ~task.resuming
    BY <2>2, EntryTypes, EventKinds DEF Raise, Neutral
  <2>3. QED
    BY <2>1, <2>2
<1>3. QED
  BY <1>1, <1>2, RestStep

LEMMA StopInv ==
  ASSUME Inv, Stop
  PROVE  Inv'
<1>1. /\ task.pc # "idle" /\ task' = Idle("down") /\ artifacts \subseteq artifacts'
      /\ UNCHANGED <<mem, ckpt, row, journal, wire>>
  BY DEF Stop, Running, AtRest
<1>2. QED
  BY <1>1, InvFacts, RestStep DEF Neutral

-----------------------------------------------------------------------------
(* A row that is written. *)
LEMMA RowWritten ==
  ASSUME Inv, Running, NEW i \in 1 .. Len(mem.inv), NEW status \in Terminal \cup {"PENDING", "STARTED"},
         Accepts(row[i], status), row' = [row EXCEPT ![i] = status],
         UNCHANGED <<ckpt, wire, journal>>, task'.pc # "idle",
         status \in Terminal => ckpt.mem.inv[i].status = status
  PROVE  /\ i \in Ids /\ row'[i] = status
         /\ \A j \in Ids : j # i => row'[j] = row[j]
         /\ row' \in [Ids -> Terminal \cup {None, "PENDING", "STARTED"}]
         /\ Debits' = Debits /\ (Completed' <=> Completed)
         /\ DebitsOnce' /\ Paid' /\ Durable'
<1>1. /\ i \in Ids /\ i \in DOMAIN ckpt.mem.inv /\ task.pc # "idle"
      /\ Len(mem.inv) = Len(ckpt.mem.inv) /\ ckpt.mem \in Memory
  <2>1. /\ ckpt.mem \in Memory /\ mem \in Memory /\ Len(mem.inv) = Len(ckpt.mem.inv)
        /\ Len(mem.inv) <= MaxInvocations
    BY InvFacts DEF Snapshot, Inv, Live, WellFormed
  <2>2. i \in Ids
    BY <2>1, MemoryFacts, HarnessAssumption DEF Ids
  <2>3. QED
    BY <2>1, <2>2, MemoryFacts DEF Running, AtRest
<1>2. /\ row'[i] = status /\ \A j \in Ids : j # i => row'[j] = row[j]
      /\ row' \in [Ids -> Terminal \cup {None, "PENDING", "STARTED"}]
  BY <1>1, InvFacts
<1>3. Debits' = Debits /\ (Completed' <=> Completed) /\ DebitsOnce' /\ Events("ended")' = Events("ended")
  BY DEF Inv, Debits, Completed, DebitsOnce, Events
<1>4. Paid'
  <2>1. row[i] \notin {None, "PENDING"} => status \notin {None, "PENDING"}
    BY NoneAssumption DEF Accepts, Terminal
  <2>2. ASSUME NEW j \in Ids, wire'[j] > 0
        PROVE  wire'[j] = 1 /\ j \in Debits' /\ row'[j] \notin {None, "PENDING"}
    BY <1>1, <1>2, <1>3, <2>1, <2>2 DEF Inv, Paid
  <2>3. QED
    BY <2>2 DEF Paid
<1>5. Durable'
  <2>1. \A j \in Ids : row'[j] # None => j \in DOMAIN ckpt.mem.inv
    BY <1>1, <1>2 DEF Inv, Durable
  <2>2. \A j \in Ids : row'[j] \in Terminal => ckpt.mem.inv[j].status = row'[j]
    BY <1>1, <1>2 DEF Inv, Durable
  <2>3. QED
    BY <1>1, <1>3, <2>1, <2>2 DEF Inv, Durable
<1>6. QED
  BY <1>1, <1>2, <1>3, <1>4, <1>5

LEMMA PersistPendingInv ==
  ASSUME Inv, PersistPending
  PROVE  Inv'
<1>1. /\ task.pc = "row" /\ UNCHANGED <<mem, ckpt, wire>>
      /\ SaveRow(Newest, "PENDING", "debit")
      /\ Newest \in 1 .. Len(mem.inv) /\ Newest \in Ids /\ mem.inv[Newest].status = "PENDING"
  BY CurrentIsNewest DEF PersistPending, Opening
<1>2. CASE ~Accepts(row[Newest], "PENDING")
  BY <1>1, <1>2, RaiseInv, InvFacts DEF SaveRow
<1>3. CASE Accepts(row[Newest], "PENDING")
  <2>1. /\ row' = [row EXCEPT ![Newest] = "PENDING"] /\ UNCHANGED <<journal, artifacts>>
        /\ task' = [task EXCEPT !.pc = "debit"]
    BY <1>1, <1>3 DEF SaveRow, Goto
  <2>2. /\ task' \in Process /\ task'.pc = "debit" /\ task'.prepared = task.prepared
        /\ task'.debited = task.debited
    BY <2>1, InvFacts DEF Process, Places, Looping, Opening
  <2>3. /\ row'[Newest] = "PENDING" /\ \A j \in Ids : j # Newest => row'[j] = row[j]
        /\ row' \in [Ids -> Terminal \cup {None, "PENDING", "STARTED"}]
        /\ Debits' = Debits /\ (Completed' <=> Completed) /\ DebitsOnce' /\ Paid' /\ Durable'
    BY <1>1, <1>3, <2>1, <2>2, RowWritten DEF Running, AtRest, Terminal
  <2>4. Live'
    <3>1. Running
      BY <1>1 DEF Running, AtRest
    <3>2. \A i \in DOMAIN mem.inv : mem.inv[i].status = "PENDING" => row'[i] \in {None, "PENDING"}
      BY <2>3, <3>1, LiveFacts
    <3>3. QED
      BY <1>1, <3>1, <3>2, LiveFacts DEF Live
  <2>5. AtPlace(task)'
    BY <1>1, <2>2, <2>3
       DEF Inv, AtPlace, NewestIs, Newest, Looping, Early, Opening, Leaving, Waiting, Ending
  <2>6. Reported'
    BY <1>1, <2>1, <2>2, <2>3 DEF Inv, Reported, Looping, Early, Opening, Leaving, Waiting, Ending, Outside
  <2>7. Typed'
    BY <1>1, <2>1, <2>2, <2>3 DEF Inv, Typed
  <2>8. QED
    BY <2>3, <2>4, <2>5, <2>6, <2>7 DEF Inv
<1>4. QED
  BY <1>2, <1>3

LEMMA SetStatusFacts ==
  ASSUME NEW m \in Memory, NEW i \in 1 .. Len(m.inv),
         NEW status \in Terminal \cup {"PENDING", "STARTED"}
  PROVE  LET n == SetStatus(m, i, status)
         IN  /\ n \in Memory /\ Len(n.inv) = Len(m.inv) /\ DOMAIN n.inv = DOMAIN m.inv
             /\ n.inv[i].status = status
             /\ \A j \in 1 .. Len(m.inv) : j # i => n.inv[j] = m.inv[j]
             /\ n.staged = m.staged /\ n.active = m.active /\ n.retry = m.retry
             /\ n.finish = m.finish /\ n.msgs = m.msgs
<1> DEFINE e == [m.inv[i] EXCEPT !.status = status]
           n == [m EXCEPT !.inv = [m.inv EXCEPT ![i] = e]]
<1>1. e \in Invocation /\ e.status = status
  BY MemoryFacts DEF Invocation
<1> HIDE DEF e
<1>2. /\ [m.inv EXCEPT ![i] = e] \in Seq(Invocation)
      /\ Len([m.inv EXCEPT ![i] = e]) = Len(m.inv)
      /\ \A j \in 1 .. Len(m.inv) : [m.inv EXCEPT ![i] = e][j] = IF j = i THEN e ELSE m.inv[j]
  BY <1>1, MemoryFacts, ExceptSeq
<1>3. /\ n \in Memory /\ n.inv = [m.inv EXCEPT ![i] = e]
      /\ n.staged = m.staged /\ n.active = m.active /\ n.retry = m.retry
      /\ n.finish = m.finish /\ n.msgs = m.msgs
  BY <1>2 DEF Memory
<1>4. n = SetStatus(m, i, status)
  BY MemoryFacts DEF SetStatus, e
<1> HIDE DEF n
<1>5. DOMAIN n.inv = DOMAIN m.inv
  BY <1>2, <1>3, MemoryFacts
<1>6. QED
  BY <1>1, <1>2, <1>3, <1>4, <1>5

LEMMA DebitInv ==
  ASSUME Inv, Debit
  PROVE  Inv'
<1> DEFINE owed == ~task.prepared.local /\ Newest \notin task.debited
<1>1. /\ task.pc = "debit" /\ UNCHANGED <<ckpt, row, artifacts, wire>>
      /\ Newest \in Ids /\ Newest \in Nat
      /\ IF owed
         THEN /\ journal' = Append(journal, Event("debit", Newest))
              /\ mem' = [mem EXCEPT !.spent = @ + 1]
              /\ task' = [task EXCEPT !.debited = @ \cup {Newest}, !.pc = "start"]
         ELSE task' = [task EXCEPT !.pc = "start"] /\ UNCHANGED <<mem, journal>>
  BY CurrentIsNewest DEF Debit, Opening, Goto, Ids
<1>2. task.debited = Debits
  BY <1>1 DEF Inv, AtPlace, Looping, Opening
<1>3. CASE ~owed
  <2>1. /\ task' \in Process /\ task'.pc = "start" /\ task'.debited = task.debited
        /\ task'.prepared = task.prepared
    BY <1>1, <1>3, InvFacts DEF Process, Places, Looping, Opening
  <2>2. AtPlace(task')
    BY <1>1, <1>2, <1>3, <2>1 DEF AtPlace, Inv, Looping, Early, Opening, Leaving, Waiting, Ending
  <2>3. /\ mem' = mem /\ SameCalls(mem') /\ Neutral /\ task.pc \in Looping /\ task'.pc \in Looping
        /\ task'.pc # "close"
    BY <1>1, <1>3, <2>1 DEF SameCalls, Neutral, Looping, Opening
  <2>4. QED
    BY <1>1, <2>1, <2>2, <2>3, InvFacts, LoopStep
<1>4. CASE owed
  <2>1. /\ task' \in Process /\ task'.pc = "start" /\ task'.debited = task.debited \cup {Newest}
        /\ task'.prepared = task.prepared
    <3>1. task' = [task EXCEPT !.debited = task.debited \cup {Newest}, !.pc = "start"]
      BY <1>1, <1>4
    <3>2. task.debited \cup {Newest} \in SUBSET Nat
      BY <1>1, InvFacts DEF Process
    <3>3. QED
      BY <3>1, <3>2, InvFacts DEF Process, Places, Looping, Opening
  <2>2. mem' \in Memory /\ SameCalls(mem') /\ mem'.finish = mem.finish /\ mem'.active = mem.active
    <3>1. mem.spent + 1 \in Nat /\ mem' = [mem EXCEPT !.spent = mem.spent + 1]
      BY <1>1, <1>4, InvFacts DEF Memory
    <3>2. QED
      BY <3>1, InvFacts DEF Memory, SameCalls
  <2>3. /\ journal' \in Seq(Entry) /\ Debits' = Debits \cup {Newest}
        /\ DebitsOnce' /\ (Completed' <=> Completed)
        /\ \A k \in Events("ended")' : k \in Events("ended") /\ journal'[k] = journal[k]
    BY <1>1, <1>2, <1>4, InvFacts, EntryTypes, EventKinds, Told DEF Inv
  <2>4. Paid'
    BY <1>1, <2>3 DEF Inv, Paid
  <2>5. Durable'
    BY <1>1, <2>1, <2>3 DEF Inv, Durable
  <2>6. Running
    BY <1>1 DEF Running, AtRest
  <2>7. WellFormed(mem')
    BY <2>2, <2>6, LiveFacts, SameWellFormed DEF SameCalls
  <2>8. Live'
    BY <1>1, <2>2, <2>6, <2>7, LiveFacts DEF Live, SameCalls
  <2>9. AtPlace(task)'
    BY <1>1, <1>2, <2>1, <2>2, <2>3
       DEF AtPlace, Inv, SameCalls, NewestIs, Newest, Looping, Early, Opening, Leaving, Waiting, Ending
  <2>10. Reported'
    BY <1>1, <2>1, <2>3 DEF Inv, Reported, Looping, Early, Opening, Leaving, Waiting, Ending, Outside
  <2>11. Typed'
    BY <1>1, <2>1, <2>2, <2>3 DEF Inv, Typed
  <2>12. QED
    BY <2>3, <2>4, <2>5, <2>8, <2>9, <2>10, <2>11 DEF Inv
<1>5. QED
  BY <1>3, <1>4

(* The status of the newest invocation changes in the memory. *)
LEMMA NewStatus ==
  ASSUME Inv, Running, Newest # 0, NEW status \in Terminal \cup {"PENDING", "STARTED"},
         NEW m, m.inv = SetStatus(mem, Newest, status).inv
  PROVE  /\ Len(m.inv) = Len(mem.inv) /\ DOMAIN m.inv = DOMAIN mem.inv
         /\ m.inv[Newest].status = status
         /\ \A j \in DOMAIN mem.inv : j # Newest => m.inv[j] = mem.inv[j]
         /\ \A j \in DOMAIN mem.inv : j # Newest => mem.inv[j].status \in Terminal
         /\ Newest \in DOMAIN mem.inv
<1>1. Newest \in 1 .. Len(mem.inv) /\ DOMAIN mem.inv = 1 .. Len(mem.inv)
  BY InvFacts, MemoryFacts DEF Newest
<1>2. \A j \in DOMAIN mem.inv : j # Newest => mem.inv[j].status \in Terminal
  <2>1. ASSUME NEW j \in DOMAIN mem.inv, j # Newest
        PROVE  mem.inv[j].status \in Terminal
    <3>1. j \notin Open(mem)
      BY <2>1, InvFacts DEF WellFormed, Newest
    <3>2. mem.inv[j].status \in Terminal \cup {"PENDING", "STARTED"}
      BY <1>1, <2>1, InvFacts, MemoryFacts
    <3>3. QED
      BY <3>1, <3>2 DEF Open, Positions
  <2>2. QED
    BY <2>1
<1>3. QED
  BY <1>1, <1>2, InvFacts, SetStatusFacts

LEMMA StartRowInv ==
  ASSUME Inv, StartRow
  PROVE  Inv'
<1>1. /\ task.pc = "start" /\ UNCHANGED <<ckpt, wire>>
      /\ mem' = SetStatus(mem, Newest, "STARTED") /\ SaveRow(Newest, "STARTED", "announce")
      /\ Newest \in 1 .. Len(mem.inv) /\ Newest \in Ids /\ mem.inv[Newest].status = "PENDING"
      /\ Newest # 0
  BY CurrentIsNewest DEF StartRow, Opening, Ids
<1>2. Running /\ task.pc # "idle"
  BY <1>1 DEF Running, AtRest
<1>3. /\ mem' \in Memory /\ mem'.staged = mem.staged /\ mem'.active = mem.active
      /\ mem'.finish = mem.finish
  BY <1>1, InvFacts, SetStatusFacts
<1>4. CASE ~Accepts(row[Newest], "STARTED")
  BY <1>1, <1>2, <1>3, <1>4, RaiseInv DEF SaveRow
<1>5. CASE Accepts(row[Newest], "STARTED")
  <2>1. /\ row' = [row EXCEPT ![Newest] = "STARTED"] /\ UNCHANGED <<journal, artifacts>>
        /\ task' = [task EXCEPT !.pc = "announce"]
    BY <1>1, <1>5 DEF SaveRow, Goto
  <2>2. /\ task' \in Process /\ task'.pc = "announce" /\ task'.prepared = task.prepared
        /\ task'.debited = task.debited
    BY <2>1, InvFacts DEF Process, Places, Looping, Leaving
  <2>3. /\ row'[Newest] = "STARTED" /\ \A j \in Ids : j # Newest => row'[j] = row[j]
        /\ row' \in [Ids -> Terminal \cup {None, "PENDING", "STARTED"}]
        /\ Debits' = Debits /\ (Completed' <=> Completed) /\ DebitsOnce' /\ Paid' /\ Durable'
    BY <1>1, <1>2, <1>5, <2>1, <2>2, RowWritten DEF Terminal
  <2>4. /\ Len(mem'.inv) = Len(mem.inv) /\ DOMAIN mem'.inv = DOMAIN mem.inv
        /\ mem'.inv[Newest].status = "STARTED"
        /\ \A j \in DOMAIN mem.inv : j # Newest => mem'.inv[j] = mem.inv[j]
        /\ \A j \in DOMAIN mem.inv : j # Newest => mem.inv[j].status \in Terminal
    BY <1>1, <1>2, NewStatus
  <2>5. Held(mem') = Held(mem) /\ Newest \notin Held(mem) /\ Newest' = Newest
    BY <1>1, <1>2, <1>3, <2>4, InvFacts DEF Held, WellFormed, Newest
  <2>6. WellFormed(mem')
    <3>1. \A k \in Open(mem') : k = Newest
      BY <2>4 DEF Open, Positions, Terminal
    <3>2. mem.active \in Prepared
      BY <1>1, <1>2, PendingIsNewest, LiveFacts DEF Pending, Positions
    <3>3. \A i \in Held(mem') : i \in DOMAIN mem'.inv
             /\ mem'.inv[i].status \in {"STARTED", "OK", "FAILED", "SKIPPED"}
      BY <1>2, <2>4, <2>5, LiveFacts DEF WellFormed
    <3>4. QED
      BY <1>2, <1>3, <2>4, <3>1, <3>2, <3>3, LiveFacts DEF WellFormed, Newest
  <2>7. Live'
    <3>1. ASSUME NEW i \in DOMAIN mem'.inv
          PROVE  /\ mem'.inv[i].status \in Terminal \/ ckpt.mem.inv[i].status \in Terminal
                      => mem'.inv[i].status = ckpt.mem.inv[i].status
                 /\ mem'.inv[i].status = "PENDING" => row'[i] \in {None, "PENDING"}
      <4>1. CASE i = Newest
        BY <1>1, <1>2, <2>4, <4>1, LiveFacts DEF Terminal
      <4>2. CASE i # Newest
        BY <1>2, <2>4, <4>2, LiveFacts DEF Terminal
      <4>3. QED
        BY <4>1, <4>2
    <3>2. QED
      BY <1>1, <1>2, <2>4, <2>6, <3>1, LiveFacts DEF Live
  <2>8. AtPlace(task)'
    <3>1. wire[Newest] = 0
      BY <1>1, <1>5, InvFacts DEF Inv, Paid, Accepts, Terminal, Live, Running, AtRest
    <3>2. NewestIs({"STARTED"})'
      BY <1>1, <2>4, <2>5 DEF NewestIs
    <3>3. QED
      BY <1>1, <2>2, <2>3, <2>5, <3>1, <3>2
         DEF Inv, AtPlace, Looping, Early, Opening, Leaving, Waiting, Ending
  <2>9. Reported'
    BY <1>1, <2>1, <2>2, <2>3 DEF Inv, Reported, Looping, Early, Opening, Leaving, Waiting, Ending, Outside
  <2>10. Typed'
    BY <1>1, <1>3, <2>1, <2>2, <2>3 DEF Inv, Typed
  <2>11. QED
    BY <2>3, <2>7, <2>8, <2>9, <2>10 DEF Inv
<1>6. QED
  BY <1>4, <1>5

LEMMA SendInv ==
  ASSUME Inv, Send
  PROVE  Inv'
<1>1. /\ task.pc = "call" /\ UNCHANGED <<mem, ckpt, row, journal, artifacts>>
      /\ wire' = [wire EXCEPT ![Newest] = wire[Newest] + 1]
      /\ task' = [task EXCEPT !.pc = "answer"] /\ Newest \in Ids
  BY CurrentIsNewest DEF Send, Goto, Leaving
<1>2. /\ task' \in Process /\ task'.pc = "answer" /\ task'.prepared = task.prepared
      /\ task'.debited = task.debited
  BY <1>1, InvFacts DEF Process, Places, Looping, Waiting
<1>3. /\ row[Newest] = "STARTED" /\ wire[Newest] = 0 /\ ~task.prepared.local
      /\ Newest \in Debits /\ Newest \notin Held(mem)
  BY <1>1 DEF Inv, AtPlace, Leaving
<1>4. /\ wire' \in [Ids -> Nat] /\ wire'[Newest] = 1
      /\ \A i \in Ids : i # Newest => wire'[i] = wire[i]
  BY <1>1, <1>3, InvFacts
<1>5. Debits' = Debits /\ (Completed' <=> Completed) /\ Events("ended")' = Events("ended") /\ DebitsOnce'
  BY <1>1 DEF Inv, Debits, Completed, DebitsOnce, Events
<1>6. Paid'
  BY <1>1, <1>3, <1>4, <1>5, NoneAssumption DEF Inv, Paid
<1>7. Durable' /\ Live'
  BY <1>1, <1>2, <1>5 DEF Inv, Durable, Live, Running, AtRest
<1>8. AtPlace(task)'
  BY <1>1, <1>2, <1>3, <1>5
     DEF Inv, AtPlace, NewestIs, Newest, Looping, Early, Opening, Leaving, Waiting, Ending
<1>9. Reported'
  BY <1>1, <1>2, <1>5 DEF Inv, Reported, Looping, Early, Opening, Leaving, Waiting, Ending, Outside
<1>10. Typed'
  BY <1>1, <1>2, <1>4 DEF Inv, Typed
<1>11. QED
  BY <1>5, <1>6, <1>7, <1>8, <1>9, <1>10 DEF Inv

(* A checkpoint that knows at least what the memory knew. *)
LEMMA SaveStep ==
  ASSUME Inv, Running, UNCHANGED <<row, journal, wire>>, task'.pc # "idle",
         ckpt' \in Snapshot, WellFormed(ckpt'.mem), Len(mem.inv) <= Len(ckpt'.mem.inv),
         \A i \in DOMAIN mem.inv :
           mem.inv[i].status \in Terminal => ckpt'.mem.inv[i].status = mem.inv[i].status
  PROVE  /\ Debits' = Debits /\ (Completed' <=> Completed)
         /\ DebitsOnce' /\ Paid' /\ Durable'
<1>1. Debits' = Debits /\ (Completed' <=> Completed) /\ Events("ended")' = Events("ended") /\ DebitsOnce'
  BY DEF Inv, Debits, Completed, DebitsOnce, Events
<1>2. Paid'
  BY <1>1 DEF Inv, Paid
<1>3. task.pc # "idle" /\ DOMAIN mem.inv \subseteq DOMAIN ckpt'.mem.inv
  <2>1. ckpt'.mem \in Memory /\ mem \in Memory
    BY InvFacts DEF Snapshot
  <2>2. QED
    BY <2>1, MemoryFacts DEF Running, AtRest
<1>4. \A i \in Ids : row'[i] # None => i \in DOMAIN ckpt'.mem.inv
  BY <1>3, LiveFacts DEF Inv, Durable
<1>5. \A i \in Ids : row'[i] \in Terminal => ckpt'.mem.inv[i].status = row'[i]
  BY <1>3, LiveFacts, NoneAssumption DEF Inv, Durable
<1>6. ASSUME NEW k \in Events("ended")'
      PROVE  /\ journal'[k].what.inv \in DOMAIN ckpt'.mem.inv
             /\ ckpt'.mem.inv[journal'[k].what.inv].status = journal'[k].what.status
  <2>1. /\ k \in Events("ended") /\ journal' = journal
        /\ journal[k].what.inv \in DOMAIN ckpt.mem.inv
        /\ ckpt.mem.inv[journal[k].what.inv].status = journal[k].what.status
    BY <1>1, <1>3 DEF Inv, Durable
  <2>2. journal[k].what.status \in Terminal
    <3>1. journal[k] \in Entry /\ journal[k].kind = "ended"
      BY <2>1, InvFacts DEF Events
    <3>2. QED
      BY <3>1 DEF Entry, EndReport
  <2>3. QED
    BY <1>3, <2>1, <2>2, LiveFacts
<1>7. Durable'
  BY <1>4, <1>5, <1>6 DEF Durable
<1>8. QED
  BY <1>1, <1>2, <1>7

LEMMA AnswerInv ==
  ASSUME Inv, Answer
  PROVE  Inv'
<1> DEFINE x == [inv |-> Newest, remote |-> ~task.prepared.local]
<1>1. /\ task.pc = "answer" /\ UNCHANGED <<row, journal, artifacts, wire>>
      /\ mem' = [mem EXCEPT !.staged = mem.staged \cup {x}] /\ Save(mem')
      /\ task' = [task EXCEPT !.pc = "apply"]
      /\ Newest \in Ids /\ Newest \in 1 .. Len(mem.inv) /\ mem.inv[Newest].status = "STARTED"
      /\ task.prepared \in Prepared
  BY CurrentIsNewest DEF Answer, Goto, Waiting, Opening, Inv, AtPlace
<1>2. x \in Staged /\ x.inv = Newest /\ x.remote = ~task.prepared.local
  BY <1>1 DEF Staged, Prepared, Ids
<1> HIDE DEF x
<1>3. /\ mem' \in Memory /\ mem'.inv = mem.inv /\ mem'.staged = mem.staged \cup {x}
      /\ mem'.active = mem.active /\ mem'.finish = mem.finish
  <2>1. mem.staged \cup {x} \in SUBSET Staged
    BY <1>2, InvFacts, MemoryFacts
  <2>2. QED
    BY <1>1, <2>1, InvFacts DEF Memory
<1>4. Held(mem') \subseteq Held(mem) \cup {Newest}
  BY <1>2, <1>3 DEF Held
<1>5. Running /\ task.pc # "idle"
  BY <1>1 DEF Running, AtRest
<1>6. WellFormed(mem')
  BY <1>1, <1>3, <1>4, <1>5, LiveFacts DEF WellFormed, Open, Positions
<1>7. ckpt' \in Snapshot /\ ckpt'.mem = mem'
  BY <1>1, <1>3, InvFacts, Saved
<1>8. /\ task' \in Process /\ task'.pc = "apply" /\ task'.prepared = task.prepared
      /\ task'.debited = task.debited
  BY <1>1, InvFacts DEF Process, Places, Looping, Waiting
<1>9. /\ Debits' = Debits /\ (Completed' <=> Completed)
      /\ DebitsOnce' /\ Paid' /\ Durable'
  BY <1>1, <1>3, <1>5, <1>6, <1>7, <1>8, LiveFacts, SaveStep
<1>10. Live'
  BY <1>1, <1>3, <1>5, <1>6, <1>7, LiveFacts DEF Live
<1>11. AtPlace(task)'
  BY <1>1, <1>3, <1>8, <1>9
     DEF Inv, AtPlace, NewestIs, Newest, Looping, Early, Opening, Leaving, Waiting, Ending
<1>12. Reported'
  BY <1>1, <1>8, <1>9 DEF Inv, Reported, Looping, Early, Opening, Leaving, Waiting, Ending, Outside
<1>13. Typed'
  BY <1>1, <1>3, <1>7, <1>8 DEF Inv, Typed
<1>14. QED
  BY <1>9, <1>10, <1>11, <1>12, <1>13 DEF Inv

(* The newest invocation comes to its end: memory and checkpoint say how. *)
LEMMA EndStep ==
  ASSUME Inv, task.pc \in Waiting, NEW status \in Terminal, NEW fault \in Faults \cup {None},
         mem' \in Memory, mem'.inv = SetStatus(mem, Newest, status).inv,
         mem'.staged = mem.staged, Save(mem'),
         UNCHANGED <<row, journal, artifacts, wire>>,
         task' = [task EXCEPT !.pc = "publish", !.fault = fault],
         Newest \in Held(mem) => status \in {"OK", "FAILED", "SKIPPED"}
  PROVE  Inv'
<1>1. /\ Running /\ task.pc # "idle" /\ Newest # 0 /\ mem.inv[Newest].status = "STARTED"
      /\ Newest \in DOMAIN mem.inv
  BY CurrentIsNewest, InvFacts, MemoryFacts DEF Running, AtRest, Waiting, Opening, Ids
<1>2. /\ Len(mem'.inv) = Len(mem.inv) /\ DOMAIN mem'.inv = DOMAIN mem.inv
      /\ mem'.inv[Newest].status = status
      /\ \A j \in DOMAIN mem.inv : j # Newest => mem'.inv[j] = mem.inv[j]
      /\ \A j \in DOMAIN mem.inv : j # Newest => mem.inv[j].status \in Terminal
  BY <1>1, NewStatus
<1>3. Held(mem') = Held(mem)
  BY DEF Held
<1>4. WellFormed(mem')
  <2>1. Open(mem') = {}
    BY <1>2 DEF Open, Positions, Terminal
  <2>2. \A i \in Held(mem') : i \in DOMAIN mem'.inv
             /\ mem'.inv[i].status \in {"STARTED", "OK", "FAILED", "SKIPPED"}
    BY <1>1, <1>2, <1>3, LiveFacts DEF WellFormed
  <2>3. QED
    BY <1>1, <1>2, <2>1, <2>2, LiveFacts DEF WellFormed
<1>5. ckpt' \in Snapshot /\ ckpt'.mem = mem'
  BY InvFacts, Saved
<1>6. /\ task' \in Process /\ task'.pc = "publish" /\ task'.debited = task.debited
  BY InvFacts DEF Process, Places, Looping, Ending
<1>7. /\ Debits' = Debits /\ (Completed' <=> Completed)
      /\ DebitsOnce' /\ Paid' /\ Durable'
  <2>1. \A i \in DOMAIN mem.inv :
          mem.inv[i].status \in Terminal => ckpt'.mem.inv[i].status = mem.inv[i].status
    BY <1>1, <1>2, <1>5 DEF Terminal
  <2>2. Len(mem.inv) <= Len(ckpt'.mem.inv)
    BY <1>2, <1>5, InvFacts, MemoryFacts
  <2>3. QED
    BY <1>1, <1>4, <1>5, <1>6, <2>1, <2>2, SaveStep
<1>8. Live'
  <2>1. \A i \in DOMAIN mem'.inv : mem'.inv[i].status \in Terminal
    BY <1>2
  <2>2. QED
    BY <1>4, <1>5, <2>1 DEF Live, Terminal
<1>9. AtPlace(task)'
  <2>1. NewestIs(Terminal)'
    BY <1>1, <1>2 DEF NewestIs, Newest
  <2>2. task.debited = Debits
    BY DEF Inv, AtPlace, Looping
  <2>3. QED
    BY <1>6, <1>7, <2>1, <2>2 DEF AtPlace, Looping, Early, Opening, Leaving, Waiting, Ending
<1>10. Reported'
  BY <1>6, <1>7 DEF Inv, Reported, Looping, Early, Opening, Leaving, Waiting, Ending, Outside
<1>11. Typed'
  BY <1>5, <1>6 DEF Inv, Typed
<1>12. QED
  BY <1>7, <1>8, <1>9, <1>10, <1>11 DEF Inv

LEMMA FailStep ==
  ASSUME Inv, task.pc \in Waiting, NEW fault \in Faults, Fail(fault),
         Newest \in Held(mem) => fault \in {"refused", "fatal"}
  PROVE  Inv'
<1> DEFINE d == Directive(fault, mem, mem.inv[Newest].call)
           done == [SetStatus(mem, Newest, d.status) EXCEPT !.active = None]
<1>1. /\ mem' = AfterFailure(mem, Newest, fault) /\ Save(mem')
      /\ task' = [task EXCEPT !.pc = "publish", !.fault = fault]
      /\ UNCHANGED <<row, journal, artifacts, wire>>
      /\ Newest \in 1 .. Len(mem.inv)
  BY CurrentIsNewest DEF Fail
<1>2. d.status \in Terminal /\ (fault \in {"refused", "fatal"} => d.status = "FAILED")
  BY DEF Directive, Terminal, Faults
<1> HIDE DEF d
<1>3. /\ done \in Memory /\ done.inv = SetStatus(mem, Newest, d.status).inv
      /\ done.staged = mem.staged /\ done.msgs = mem.msgs
  <2>1. LET n == SetStatus(mem, Newest, d.status)
        IN  n \in Memory /\ n.staged = mem.staged /\ n.msgs = mem.msgs
    BY <1>1, <1>2, InvFacts, SetStatusFacts
  <2>2. QED
    BY <2>1 DEF Memory
<1> HIDE DEF done
<1>4. CASE mem' = [done EXCEPT !.retry = mem.active]
  <2>1. mem' \in Memory /\ mem'.inv = done.inv /\ mem'.staged = done.staged
    BY <1>3, <1>4, InvFacts, MemoryFacts DEF Memory
  <2>2. QED
    BY <1>1, <1>2, <1>3, <2>1, EndStep
<1>5. CASE mem' = [done EXCEPT !.msgs = Append(@, <<"result", d.status>>)]
  <2>1. Append(done.msgs, <<"result", d.status>>) \in Seq(Seq(Word))
    BY <1>2, <1>3, MemoryFacts, MessageTypes
  <2>2. mem' \in Memory /\ mem'.inv = done.inv /\ mem'.staged = done.staged
    BY <1>3, <1>5, <2>1 DEF Memory
  <2>3. QED
    BY <1>1, <1>2, <1>3, <2>2, EndStep
<1>6. QED
  BY <1>1, <1>4, <1>5 DEF AfterFailure, d, done

LEMMA ApplyInv ==
  ASSUME Inv, Apply
  PROVE  Inv'
<1>1. PICK status \in Terminal :
        /\ status \in {"SKIPPED", "OK"}
        /\ mem' = [SetStatus(mem, Newest, status) EXCEPT
                     !.active = None, !.msgs = Append(@, <<"result", status>>)]
  BY CurrentIsNewest DEF Apply, Waiting, Terminal
<1>2. /\ task.pc = "apply" /\ Save(mem') /\ UNCHANGED <<row, journal, artifacts, wire>>
      /\ task' = [task EXCEPT !.pc = "publish", !.fault = None]
      /\ Newest \in 1 .. Len(mem.inv)
  BY CurrentIsNewest DEF Apply, Waiting
<1>3. /\ mem' \in Memory /\ mem'.inv = SetStatus(mem, Newest, status).inv
      /\ mem'.staged = mem.staged
  <2>1. PICK n \in Memory : /\ n = SetStatus(mem, Newest, status)
                            /\ n.staged = mem.staged /\ n.msgs = mem.msgs
    BY <1>2, InvFacts, SetStatusFacts
  <2>2. Append(n.msgs, <<"result", status>>) \in Seq(Seq(Word))
    BY <2>1, InvFacts, MemoryFacts, MessageTypes
  <2>3. mem' = [n EXCEPT !.active = None, !.msgs = Append(n.msgs, <<"result", status>>)]
    BY <1>1, <2>1
  <2>4. mem' \in Memory /\ mem'.inv = n.inv /\ mem'.staged = n.staged
    BY <2>2, <2>3 DEF Memory
  <2>5. QED
    BY <2>1, <2>4
<1>4. QED
  BY <1>1, <1>2, <1>3, EndStep DEF Waiting

LEMMA FailuresInv ==
  ASSUME Inv, CallFails \/ AnswerIsRejected \/ OutcomeUnknown
  PROVE  Inv'
<1>1. CASE CallFails
  <2>1. PICK fault \in {"refused", "fatal", "timeout", "lost"} : Fail(fault)
    BY <1>1 DEF CallFails
  <2>2. task.pc = "answer" /\ Newest \notin Held(mem)
    BY <1>1 DEF CallFails, Inv, AtPlace
  <2>3. QED
    BY <2>1, <2>2, FailStep DEF Waiting, Faults
<1>2. CASE AnswerIsRejected
  <2>1. PICK fault \in {"refused", "fatal"} : Fail(fault) /\ task.pc = "apply"
    BY <1>2 DEF AnswerIsRejected
  <2>2. QED
    BY <2>1, FailStep DEF Waiting, Faults
<1>3. CASE OutcomeUnknown
  <2>1. Fail("crashed") /\ task.pc = "unknown" /\ Newest \notin Held(mem)
    BY <1>3 DEF OutcomeUnknown, Inv, AtPlace
  <2>2. QED
    BY <2>1, FailStep DEF Waiting, Faults
<1>4. QED
  BY <1>1, <1>2, <1>3

-----------------------------------------------------------------------------
LEMMA FreshFacts ==
  /\ FreshMemory \in Memory /\ WellFormed(FreshMemory) /\ Len(FreshMemory.inv) = 0
  /\ DOMAIN FreshMemory.inv = {} /\ \A s : Positions(FreshMemory, s) = {}
  /\ FreshMemory.finish = None /\ FreshMemory.staged = {}
<1>1. /\ FreshMemory.inv = <<>> /\ FreshMemory.staged = {} /\ FreshMemory.finish = None
  BY DEF FreshMemory
<1>2. Len(<<>>) = 0 /\ DOMAIN <<>> = {} /\ \A s : Positions(FreshMemory, s) = {}
  BY <1>1 DEF Positions
<1>3. WellFormed(FreshMemory)
  BY <1>1, <1>2, HarnessAssumption DEF WellFormed, Open, Held
<1>4. FreshMemory \in Memory
  BY DEF FreshMemory, Memory
<1>5. QED
  BY <1>1, <1>2, <1>3, <1>4

LEMMA InitInv ==
  ASSUME Init
  PROVE  Inv
<1>1. /\ mem = FreshMemory /\ task = Idle("idle") /\ ckpt = None /\ journal = <<>>
      /\ row = [i \in Ids |-> None] /\ wire = [i \in Ids |-> 0]
  BY DEF Init
<1>2. task \in Process /\ task.pc = "idle" /\ task.debited = {}
  BY <1>1 DEF Idle, Process, Places, AtRest
<1>3. \A kind : Events(kind) = {}
  BY <1>1 DEF Events
<1>4. Typed
  BY <1>1, <1>2, FreshFacts DEF Typed
<1>5. DebitsOnce /\ Paid /\ Durable /\ Live
  BY <1>1, <1>2, <1>3 DEF DebitsOnce, Paid, Durable, Live, Running, AtRest
<1>6. AtPlace(task) /\ Reported
  BY <1>2, <1>3 DEF AtPlace, Reported, Completed, Looping, Early, Opening, Leaving, Waiting, Ending, Outside
<1>7. QED
  BY <1>4, <1>5, <1>6 DEF Inv

LEMMA BeginInv ==
  ASSUME Inv, Begin
  PROVE  Inv'
<1>1. /\ task.pc = "idle" /\ task' = [task EXCEPT !.pc = "enter"] /\ Save(mem)
      /\ UNCHANGED <<mem, row, journal, artifacts, wire>>
  BY DEF Begin, Goto
<1>2. /\ mem = FreshMemory /\ journal = <<>> /\ row = [i \in Ids |-> None]
      /\ task.debited = {}
  BY <1>1 DEF Inv, Durable
<1>3. task' \in Process /\ task'.pc = "enter" /\ task'.debited = {}
  BY <1>1, <1>2, InvFacts DEF Process, Places, Looping, Early
<1>4. ckpt' \in Snapshot /\ ckpt'.mem = mem
  BY <1>1, InvFacts, Saved
<1>5. (\A kind : Events(kind)' = {}) /\ Debits' = {} /\ ~Completed'
  BY <1>1, <1>2 DEF Events, Debits, Completed
<1>6. Typed'
  BY <1>1, <1>3, <1>4 DEF Inv, Typed
<1>7. DebitsOnce' /\ Paid'
  BY <1>1, <1>2, <1>5 DEF Inv, DebitsOnce, Paid
<1>8. Durable' /\ Live'
  BY <1>1, <1>2, <1>3, <1>4, <1>5, FreshFacts, NoneAssumption DEF Durable, Live
<1>9. Started(mem)' = {}
  BY <1>1, <1>2, FreshFacts DEF Started
<1>10. AtPlace(task)'
  BY <1>3, <1>5, <1>9 DEF AtPlace, Looping, Early, Opening, Leaving, Waiting, Ending
<1>11. Reported'
  BY <1>3, <1>5 DEF Reported, Outside
<1>12. QED
  BY <1>6, <1>7, <1>8, <1>10, <1>11 DEF Inv

LEMMA CreateInv ==
  ASSUME Inv, Create
  PROVE  Inv'
<1> DEFINE new == [call |-> task.prepared.call, dec |-> task.prepared.dec, status |-> "PENDING"]
           last == Len(mem.inv) + 1
<1>1. /\ task.pc = "exec" /\ Pending(mem) = {} /\ Len(mem.inv) < MaxInvocations
      /\ mem' = [mem EXCEPT !.inv = Append(mem.inv, new), !.active = task.prepared]
      /\ task' = [task EXCEPT !.pc = "row"] /\ Save(mem')
      /\ UNCHANGED <<row, journal, artifacts, wire>>
  BY DEF Create, Goto
<1>2. Running /\ task.pc # "idle" /\ task.prepared \in Prepared /\ Started(mem) = {}
  BY <1>1 DEF Running, AtRest, Inv, AtPlace, Early
<1>3. new \in Invocation /\ new.status = "PENDING"
  BY <1>2 DEF Prepared, Invocation
<1> HIDE DEF new
<1>4. /\ mem.inv \in Seq(Invocation) /\ Len(mem.inv) \in Nat
      /\ DOMAIN mem.inv = 1 .. Len(mem.inv)
  BY InvFacts, MemoryFacts
<1>5. /\ Append(mem.inv, new) \in Seq(Invocation)
      /\ Len(Append(mem.inv, new)) = Len(mem.inv) + 1
      /\ DOMAIN Append(mem.inv, new) = 1 .. Len(mem.inv) + 1
      /\ \A i \in 1 .. Len(mem.inv) : Append(mem.inv, new)[i] = mem.inv[i]
      /\ Append(mem.inv, new)[Len(mem.inv) + 1] = new
  BY <1>3, <1>4
<1>6. /\ mem' \in Memory /\ mem'.inv = Append(mem.inv, new) /\ mem'.active = task.prepared
      /\ mem'.staged = mem.staged /\ mem'.finish = mem.finish
  BY <1>1, <1>2, <1>5, InvFacts DEF Memory
<1>7. /\ DOMAIN mem'.inv = 1 .. last /\ Len(mem'.inv) = last /\ mem'.inv[last].status = "PENDING"
      /\ \A i \in 1 .. Len(mem.inv) : mem'.inv[i] = mem.inv[i] /\ mem.inv[i].status \in Terminal
  <2>1. ASSUME NEW i \in 1 .. Len(mem.inv)
        PROVE  mem.inv[i].status \in Terminal
    <3>1. mem.inv[i].status \in Terminal \cup {"PENDING", "STARTED"}
      BY <2>1, InvFacts, MemoryFacts
    <3>2. QED
      BY <1>1, <1>2, <1>4, <2>1, <3>1 DEF Pending, Started, Positions
  <2>2. QED
    BY <1>3, <1>5, <1>6, <2>1
<1>8. Held(mem') = Held(mem)
  BY <1>6 DEF Held
<1>9. WellFormed(mem')
  <2>1. \A k \in Open(mem') : k = Len(mem'.inv)
    BY <1>4, <1>7 DEF Open, Positions, Terminal
  <2>2. \A i \in Held(mem') : i \in DOMAIN mem'.inv
             /\ mem'.inv[i].status \in {"STARTED", "OK", "FAILED", "SKIPPED"}
    BY <1>2, <1>4, <1>7, <1>8, LiveFacts DEF WellFormed
  <2>3. Len(mem'.inv) <= MaxInvocations
    BY <1>1, <1>4, <1>7, HarnessAssumption
  <2>4. QED
    BY <1>2, <1>6, <2>1, <2>2, <2>3 DEF WellFormed
<1>10. ckpt' \in Snapshot /\ ckpt'.mem = mem'
  BY <1>1, <1>6, InvFacts, Saved
<1>11. /\ task' \in Process /\ task'.pc = "row" /\ task'.prepared = task.prepared
       /\ task'.debited = task.debited
  BY <1>1, InvFacts DEF Process, Places, Looping, Opening
<1>12. /\ Debits' = Debits /\ (Completed' <=> Completed) /\ DebitsOnce' /\ Paid' /\ Durable'
  BY <1>1, <1>2, <1>4, <1>7, <1>9, <1>10, <1>11, SaveStep
<1>13. row[last] = None
  <2>1. last \in Ids /\ last \notin DOMAIN ckpt.mem.inv
    BY <1>1, <1>2, <1>4, LiveFacts, HarnessAssumption DEF Ids
  <2>2. QED
    BY <1>2, <2>1 DEF Inv, Durable
<1>14. Live'
  <2>1. ASSUME NEW i \in DOMAIN mem'.inv, mem'.inv[i].status = "PENDING"
        PROVE  row'[i] \in {None, "PENDING"}
    <3>1. i = last
      BY <1>4, <1>7, <2>1 DEF Terminal
    <3>2. QED
      BY <1>1, <1>13, <3>1
  <2>2. QED
    BY <1>9, <1>10, <2>1 DEF Live
<1>15. AtPlace(task)'
  <2>1. NewestIs({"PENDING"})'
    BY <1>4, <1>7 DEF NewestIs, Newest
  <2>2. task.debited = Debits
    BY <1>1 DEF Inv, AtPlace, Looping, Early
  <2>3. QED
    BY <1>2, <1>11, <1>12, <2>1, <2>2 DEF AtPlace, Looping, Early, Opening, Leaving, Waiting, Ending
<1>16. Reported'
  BY <1>1, <1>11, <1>12 DEF Inv, Reported, Looping, Early, Opening, Leaving, Waiting, Ending, Outside
<1>17. Typed'
  BY <1>1, <1>6, <1>10, <1>11 DEF Inv, Typed
<1>18. QED
  BY <1>12, <1>14, <1>15, <1>16, <1>17 DEF Inv

-----------------------------------------------------------------------------
(* The row of an invocation that has ended, written at once or after a crash. *)
LEMMA EndedRowStep ==
  ASSUME Inv, NEW next, (task.pc = "publish" /\ next = "tell") \/ (task.pc = "reconcile" /\ next = "reconcile"),
         NEW i \in 1 .. Len(mem.inv), mem.inv[i].status \in Terminal,
         SaveRow(i, mem.inv[i].status, next), UNCHANGED <<mem, ckpt, wire>>
  PROVE  Inv'
<1> DEFINE status == mem.inv[i].status
<1>1. Running /\ task.pc # "idle" /\ i \in DOMAIN mem.inv
  BY InvFacts, MemoryFacts DEF Running, AtRest
<1>2. ckpt.mem.inv[i].status = status
  BY <1>1, LiveFacts
<1>3. CASE ~Accepts(row[i], status)
  BY <1>1, <1>3, RaiseInv, InvFacts DEF SaveRow
<1>4. CASE Accepts(row[i], status)
  <2>1. /\ row' = [row EXCEPT ![i] = status] /\ UNCHANGED <<journal, artifacts>>
        /\ task' = [task EXCEPT !.pc = next]
    BY <1>4 DEF SaveRow, Goto
  <2>2. /\ task' \in Process /\ task'.pc = next /\ task'.prepared = task.prepared
        /\ task'.debited = task.debited
    BY <2>1, InvFacts DEF Process, Places, Looping, Ending, Outside
  <2>3. /\ row'[i] = status /\ \A j \in Ids : j # i => row'[j] = row[j]
        /\ row' \in [Ids -> Terminal \cup {None, "PENDING", "STARTED"}]
        /\ Debits' = Debits /\ (Completed' <=> Completed) /\ DebitsOnce' /\ Paid' /\ Durable'
    BY <1>1, <1>2, <1>4, <2>1, <2>2, RowWritten
  <2>4. Live'
    <3>1. ASSUME NEW j \in DOMAIN mem.inv, mem.inv[j].status = "PENDING"
          PROVE  row'[j] \in {None, "PENDING"}
      <4>1. j # i /\ j \in Ids
        BY <1>1, <3>1, LiveFacts DEF Terminal
      <4>2. QED
        BY <1>1, <2>3, <3>1, <4>1, LiveFacts
    <3>2. QED
      BY <1>1, <3>1, LiveFacts DEF Live
  <2>5. AtPlace(task)'
    <3>1. task.debited = Debits /\ (task.pc = "publish" => NewestIs(Terminal))
      BY DEF Inv, AtPlace, Looping, Ending
    <3>2. task.pc = "publish" => NewestIs(Terminal)'
      BY <3>1 DEF NewestIs, Newest
    <3>3. QED
      BY <2>2, <2>3, <3>1, <3>2 DEF AtPlace, Looping, Early, Opening, Leaving, Waiting, Ending
  <2>6. Reported'
    BY <2>1, <2>2, <2>3 DEF Inv, Reported, Looping, Early, Opening, Leaving, Waiting, Ending, Outside
  <2>7. Typed'
    BY <2>1, <2>2, <2>3 DEF Inv, Typed
  <2>8. QED
    BY <2>3, <2>4, <2>5, <2>6, <2>7 DEF Inv
<1>5. QED
  BY <1>3, <1>4

(* The event that says how an invocation ended, published at once or after a crash. *)
LEMMA EndedEventStep ==
  ASSUME Inv, NEW next, (task.pc = "tell" /\ next = "route") \/ (task.pc = "reconcile" /\ next = "reconcile"),
         NEW i \in 1 .. Len(mem.inv), mem.inv[i].status \in Terminal,
         journal' = Append(journal, Event("ended", [inv |-> i, status |-> mem.inv[i].status])),
         task' = [task EXCEPT !.pc = next], UNCHANGED <<mem, ckpt, row, artifacts, wire>>
  PROVE  Inv'
<1> DEFINE report == [inv |-> i, status |-> mem.inv[i].status]
<1>1. Running /\ task.pc # "idle" /\ i \in DOMAIN mem.inv
  BY InvFacts, MemoryFacts DEF Running, AtRest
<1>2. i \in DOMAIN ckpt.mem.inv /\ ckpt.mem.inv[i].status = mem.inv[i].status
  BY <1>1, LiveFacts
<1>3. report \in EndReport /\ report.inv = i /\ report.status = mem.inv[i].status
  BY DEF EndReport
<1> HIDE DEF report
<1>4. /\ journal' \in Seq(Entry) /\ Debits' = Debits /\ DebitsOnce' /\ (Completed' <=> Completed)
      /\ \A k \in Events("ended")' :
           (k \in Events("ended") /\ journal'[k] = journal[k]) \/ journal'[k].what = report
  <2>1. journal' = Append(journal, Event("ended", report))
    BY DEF report
  <2>2. /\ Event("ended", report) \in Entry /\ Event("ended", report).kind = "ended"
        /\ Event("ended", report).what = report
    BY <1>3, EntryTypes, EventKinds
  <2>3. QED
    BY <2>1, <2>2, InvFacts, Told DEF Inv
<1>5. /\ task' \in Process /\ task'.pc = next /\ task'.prepared = task.prepared
      /\ task'.debited = task.debited
  BY InvFacts DEF Process, Places, Looping, Ending, Outside
<1>6. Typed'
  BY <1>4, <1>5 DEF Inv, Typed
<1>7. Paid'
  BY <1>4 DEF Inv, Paid
<1>8. Durable'
  BY <1>1, <1>2, <1>3, <1>4, <1>5 DEF Inv, Durable
<1>9. Live'
  BY <1>1 DEF Inv, Live
<1>10. AtPlace(task)'
  <2>1. task.debited = Debits /\ (task.pc = "tell" => NewestIs(Terminal))
    BY DEF Inv, AtPlace, Looping, Ending
  <2>2. task.pc = "tell" => NewestIs(Terminal)'
    BY <2>1 DEF NewestIs, Newest
  <2>3. QED
    BY <1>4, <1>5, <2>1, <2>2 DEF AtPlace, Looping, Early, Opening, Leaving, Waiting, Ending
<1>11. Reported'
  BY <1>4, <1>5 DEF Inv, Reported, Looping, Early, Opening, Leaving, Waiting, Ending, Outside
<1>12. QED
  BY <1>4, <1>6, <1>7, <1>8, <1>9, <1>10, <1>11 DEF Inv

LEMMA PublishInv ==
  ASSUME Inv, PersistTerminal \/ Tell
  PROVE  Inv'
<1>1. task.pc \in {"publish", "tell"} /\ UNCHANGED <<mem, ckpt, wire>>
  BY DEF PersistTerminal, Tell
<1>2. Newest \in 1 .. Len(mem.inv) /\ mem.inv[Newest].status \in Terminal
  BY <1>1, InvFacts, MemoryFacts DEF Inv, AtPlace, Ending, NewestIs, Newest
<1>3. CASE PersistTerminal
  BY <1>1, <1>2, <1>3, EndedRowStep DEF PersistTerminal, Newest
<1>4. CASE Tell
  BY <1>1, <1>2, <1>4, EndedEventStep DEF Tell, Newest, Goto
<1>5. QED
  BY <1>3, <1>4

LEMMA RepublishInv ==
  ASSUME Inv, Republish
  PROVE  Inv'
<1> DEFINE i == Min(Untold(mem))
<1>1. i \in 1 .. Len(mem.inv) /\ mem.inv[i].status \in Terminal
  <2>1. /\ Untold(mem) \in SUBSET Nat
        /\ \A k \in Untold(mem) : k \in 1 .. Len(mem.inv) /\ mem.inv[k].status \in Terminal
    BY InvFacts, MemoryFacts DEF Untold, Positions
  <2>2. i \in Untold(mem)
    BY <2>1, MinOfNaturals DEF Republish
  <2>3. QED
    BY <2>1, <2>2
<1>2. /\ task.pc = "reconcile" /\ UNCHANGED <<mem, ckpt, wire>>
      /\ \/ SaveRow(i, mem.inv[i].status, "reconcile")
         \/ /\ journal' = Append(journal, Event("ended", [inv |-> i, status |-> mem.inv[i].status]))
            /\ UNCHANGED <<task, row, artifacts>>
  BY DEF Republish
<1> HIDE DEF i
<1>3. task' = task => task' = [task EXCEPT !.pc = "reconcile"]
  BY <1>2, InvFacts DEF Process
<1>4. QED
  BY <1>1, <1>2, <1>3, EndedRowStep, EndedEventStep

-----------------------------------------------------------------------------
LEMMA CloseInv ==
  ASSUME Inv, Close
  PROVE  Inv'
<1>1. /\ task.pc = "close" /\ task' = Idle("store") /\ Save(mem)
      /\ UNCHANGED <<mem, row, journal, artifacts, wire>>
  BY DEF Close
<1>2. Running /\ mem \in Memory
  BY <1>1, InvFacts DEF Running, AtRest
<1>3. ckpt' \in Snapshot /\ ckpt'.mem = mem
  BY <1>1, <1>2, InvFacts, Saved
<1>4. task' \in Process /\ task'.pc = "store"
  BY <1>1 DEF Idle, Process, Places, Outside
<1>5. Len(mem.inv) <= Len(mem.inv)
  BY <1>2, MemoryFacts
<1>6. /\ (Completed' <=> Completed) /\ DebitsOnce' /\ Paid' /\ Durable'
  BY <1>1, <1>2, <1>3, <1>4, <1>5, LiveFacts, SaveStep
<1>7. Live'
  BY <1>1, <1>2, <1>3, LiveFacts DEF Live
<1>8. AtPlace(task)'
  BY <1>4 DEF AtPlace, Looping, Early, Opening, Leaving, Waiting, Ending
<1>9. Reported'
  BY <1>1, <1>3, <1>4, <1>6 DEF Inv, Reported, Looping, Early, Opening, Leaving, Waiting, Ending
<1>10. Typed'
  BY <1>1, <1>3, <1>4 DEF Inv, Typed
<1>11. QED
  BY <1>6, <1>7, <1>8, <1>9, <1>10 DEF Inv

LEMMA SameInv ==
  ASSUME Inv, UNCHANGED <<mem, task, ckpt, row, journal, wire>>, artifacts \subseteq artifacts'
  PROVE  Inv'
<1>1. /\ \A kind : Events(kind)' = Events(kind)
      /\ Debits' = Debits /\ (Completed' <=> Completed) /\ (Running' <=> Running)
  BY DEF Events, Debits, Completed, Running
<1>2. Typed' /\ DebitsOnce' /\ Paid'
  BY <1>1 DEF Inv, Typed, DebitsOnce, Paid
<1>3. Durable' /\ Live'
  BY <1>1 DEF Inv, Durable, Live
<1>4. AtPlace(task)'
  BY <1>1 DEF Inv, AtPlace, Started, Positions, NewestIs, Newest, Held
<1>5. Reported'
  BY <1>1 DEF Inv, Reported, Held
<1>6. QED
  BY <1>2, <1>3, <1>4, <1>5 DEF Inv

LEMMA CompleteInv ==
  ASSUME Inv, Complete
  PROVE  Inv'
<1>1. /\ task.pc = "store" /\ Held(mem) \subseteq artifacts /\ task' = [task EXCEPT !.pc = "return"]
      /\ UNCHANGED <<mem, ckpt, row, artifacts, wire>>
      /\ UNCHANGED journal \/ journal' = Append(journal, Event("completed", None))
  BY DEF Complete, Goto
<1>2. Running /\ task.pc # "idle"
  BY <1>1 DEF Running, AtRest
<1>3. task' \in Process /\ task'.pc = "return"
  BY <1>1, InvFacts DEF Process, Places, Outside
<1>4. /\ journal' \in Seq(Entry) /\ Debits' = Debits /\ DebitsOnce'
      /\ \A k \in Events("ended")' : k \in Events("ended") /\ journal'[k] = journal[k]
  <2>1. CASE UNCHANGED journal
    BY <2>1, InvFacts, NeutralEvents DEF Neutral, Inv
  <2>2. CASE journal' = Append(journal, Event("completed", None))
    <3>1. PICK e \in Entry : e.kind = "completed" /\ journal' = Append(journal, e)
      BY <2>2, EntryTypes, EventKinds
    <3>2. QED
      BY <3>1, InvFacts, Told DEF Inv
  <2>3. QED
    BY <1>1, <2>1, <2>2
<1>5. Held(ckpt.mem) = Held(mem) /\ mem.finish = ckpt.mem.finish /\ mem.finish # None
      /\ mem.staged = ckpt.mem.staged
  BY <1>1 DEF Inv, Reported, Outside, Held
<1>6. Typed'
  BY <1>1, <1>3, <1>4 DEF Inv, Typed
<1>7. Paid'
  BY <1>1, <1>4 DEF Inv, Paid
<1>8. Durable' /\ Live'
  BY <1>1, <1>2, <1>3, <1>4 DEF Inv, Durable, Live
<1>9. AtPlace(task)'
  BY <1>3 DEF AtPlace, Looping, Early, Opening, Leaving, Waiting, Ending
<1>10. Reported'
  BY <1>1, <1>3, <1>5 DEF Reported, Held, Looping, Early, Opening, Leaving, Waiting, Ending
<1>11. QED
  BY <1>4, <1>6, <1>7, <1>8, <1>9, <1>10 DEF Inv

LEMMA ReturnInv ==
  ASSUME Inv, Return
  PROVE  Inv'
<1>1. /\ task.pc = "return" /\ task' = Idle("returned") /\ Save(mem)
      /\ UNCHANGED <<mem, row, journal, artifacts, wire>>
  BY DEF Return
<1>2. Running /\ mem \in Memory
  BY <1>1, InvFacts DEF Running, AtRest
<1>3. ckpt' \in Snapshot /\ ckpt'.mem = mem
  BY <1>1, <1>2, InvFacts, Saved
<1>4. task' \in Process /\ task'.pc = "returned"
  BY <1>1 DEF Idle, Process, Places, AtRest
<1>5. Len(mem.inv) <= Len(mem.inv)
  BY <1>2, MemoryFacts
<1>6. /\ (Completed' <=> Completed) /\ DebitsOnce' /\ Paid' /\ Durable'
  BY <1>1, <1>2, <1>3, <1>4, <1>5, LiveFacts, SaveStep
<1>7. Live' /\ AtPlace(task)'
  BY <1>4 DEF Live, Running, AtRest, AtPlace, Looping, Early, Opening, Leaving, Waiting, Ending
<1>8. Held(ckpt.mem) = Held(mem) /\ mem.finish = ckpt.mem.finish
  BY <1>1 DEF Inv, Reported, Outside, Held
<1>9. Reported'
  BY <1>1, <1>3, <1>4, <1>6, <1>8
     DEF Inv, Reported, Held, Looping, Early, Opening, Leaving, Waiting, Ending, Outside
<1>10. Typed'
  BY <1>1, <1>3, <1>4 DEF Inv, Typed
<1>11. QED
  BY <1>6, <1>7, <1>9, <1>10 DEF Inv

LEMMA SettleInv ==
  ASSUME Inv, Settle
  PROVE  Inv'
<1>1. /\ task.pc = "reconcile" /\ UNCHANGED <<mem, journal, row, artifacts, wire>>
      /\ mem.staged = ckpt.mem.staged /\ mem.finish = ckpt.mem.finish
      /\ task.debited = Debits
  BY DEF Settle, Inv, Reported, AtPlace, Outside
<1>2. Running /\ task.pc # "idle" /\ mem \in Memory
  BY <1>1, InvFacts DEF Running, AtRest
<1>3. /\ Events("ended")' = Events("ended") /\ Debits' = Debits /\ (Completed' <=> Completed)
      /\ DebitsOnce'
  BY <1>1 DEF Inv, Events, Debits, Completed, DebitsOnce
<1>4. mem.finish = None => ~Completed
  BY <1>1 DEF Inv, Reported
<1>5. CASE mem.finish = None /\ Started(mem) # {}
  <2>1. /\ Newest \in DOMAIN mem.inv /\ mem.inv[Newest].status = "STARTED" /\ mem.active \in Prepared
        /\ NewestIs({"STARTED"}) /\ Current(mem) = Newest
    <3>1. Open(mem) = Pending(mem) \cup Started(mem)
      BY DEF Open, Pending, Started, Positions
    <3>2. \A k \in Open(mem) : k = Newest /\ k \in DOMAIN mem.inv
      BY <1>2, LiveFacts DEF WellFormed, Newest, Open, Positions
    <3>3. Newest \in Started(mem) /\ Pending(mem) \cup Started(mem) = {Newest}
      BY <1>5, <3>1, <3>2
    <3>4. mem.active \in Prepared /\ Newest # 0
      BY <1>2, <3>1, <3>2, <3>3, LiveFacts DEF WellFormed
    <3>5. QED
      BY <3>2, <3>3, <3>4 DEF Started, Positions, NewestIs, Current
  <2>2. /\ ckpt' = ckpt /\ task'.prepared = mem.active /\ task'.debited = task.debited
        /\ task' \in Process
        /\ \/ task'.pc = "answer" /\ mem.active.local
           \/ task'.pc = "apply"
           \/ task'.pc = "unknown" /\ Newest \notin Held(mem)
    <3>1. PICK where \in {"answer", "apply", "unknown"} :
            /\ task' = [task EXCEPT !.prepared = mem.active, !.pc = where]
            /\ where = "answer" => mem.active.local
            /\ where = "unknown" => Newest \notin Held(mem)
      BY <1>5, <2>1 DEF Settle
    <3>2. where \in Places
      BY DEF Places, Looping, Waiting
    <3>3. QED
      BY <1>5, <2>1, <3>1, <3>2, InvFacts DEF Settle, Process
  <2>3. Typed'
    BY <1>1, <2>2 DEF Inv, Typed
  <2>4. Paid'
    BY <1>1, <1>3 DEF Inv, Paid
  <2>5. Durable' /\ Live'
    BY <1>1, <1>2, <1>3, <2>2 DEF Inv, Durable, Live
  <2>6. AtPlace(task)'
    BY <1>1, <1>3, <2>1, <2>2
       DEF AtPlace, NewestIs, Newest, Held, Looping, Early, Opening, Leaving, Waiting, Ending
  <2>7. Reported'
    BY <1>3, <1>4, <1>5, <2>2 DEF Reported, Outside
  <2>8. QED
    BY <1>3, <2>3, <2>4, <2>5, <2>6, <2>7 DEF Inv
<1>6. CASE mem.finish # None
  <2>1. ckpt' = ckpt /\ task' \in Process /\ task'.pc = "store"
    BY <1>6, InvFacts DEF Settle, Process, Places, Outside
  <2>2. Typed'
    BY <1>1, <2>1 DEF Inv, Typed
  <2>3. Paid' /\ Durable' /\ Live'
    BY <1>1, <1>2, <1>3, <2>1 DEF Inv, Paid, Durable, Live
  <2>4. AtPlace(task)'
    BY <2>1 DEF AtPlace, Looping, Early, Opening, Leaving, Waiting, Ending
  <2>5. Reported'
    BY <1>1, <1>3, <1>6, <2>1
       DEF Inv, Reported, Held, Looping, Early, Opening, Leaving, Waiting, Ending
  <2>6. QED
    BY <1>3, <2>2, <2>3, <2>4, <2>5 DEF Inv
<1>7. CASE mem.finish = None /\ Started(mem) = {}
  <2>1. Save(mem) /\ task' \in Process /\ task'.pc = "enter" /\ task'.debited = task.debited
    <3>1. Save(mem) /\ task' = [task EXCEPT !.pc = "enter", !.resuming = FALSE]
      BY <1>7 DEF Settle
    <3>2. QED
      BY <3>1, InvFacts DEF Process, Places, Looping, Early
  <2>2. ckpt' \in Snapshot /\ ckpt'.mem = mem
    BY <1>1, <1>2, <2>1, InvFacts, Saved
  <2>3. Len(mem.inv) <= Len(mem.inv)
    BY <1>2, MemoryFacts
  <2>4. Paid' /\ Durable'
    BY <1>1, <1>2, <2>1, <2>2, <2>3, LiveFacts, SaveStep
  <2>5. Live'
    BY <1>1, <1>2, <2>2, LiveFacts DEF Live
  <2>6. AtPlace(task)'
    BY <1>1, <1>3, <1>7, <2>1
       DEF AtPlace, Started, Positions, Looping, Early, Opening, Leaving, Waiting, Ending
  <2>7. Reported'
    BY <1>3, <1>4, <1>7, <2>1 DEF Reported, Outside
  <2>8. Typed'
    BY <1>1, <2>1, <2>2 DEF Inv, Typed
  <2>9. QED
    BY <1>3, <2>4, <2>5, <2>6, <2>7, <2>8 DEF Inv
<1>8. QED
  BY <1>5, <1>6, <1>7

-----------------------------------------------------------------------------
(* What the rows and the events say of an invocation of the checkpoint: only
   that it was started may be news.                                          *)
LEMMA ImportedFacts ==
  ASSUME Inv, task.pc # "idle", NEW i \in DOMAIN ckpt.mem.inv
  PROVE  LET status == ckpt.mem.inv[i].status
         IN  /\ Imported(i, status) = status \/ (status = "PENDING" /\ Imported(i, status) = "STARTED")
             /\ Imported(i, status) = "PENDING" => row[i] \in {None, "PENDING"}
             /\ status \in Terminal \cup {"PENDING", "STARTED"} /\ i \in Ids
<1> DEFINE status == ckpt.mem.inv[i].status
<1>1. ckpt.mem \in Memory /\ WellFormed(ckpt.mem)
  BY DEF Inv, Durable, Snapshot
<1>2. i \in Ids /\ status \in Terminal \cup {"PENDING", "STARTED"}
  BY <1>1, MemoryFacts, HarnessAssumption DEF WellFormed, Ids
<1>3. row[i] \in Terminal => status \in Terminal
  BY <1>2 DEF Inv, Durable
<1>4. row[i] \in Terminal \cup {None, "PENDING", "STARTED"}
  BY <1>2, InvFacts
<1>5. EndedWith(i) # {} => status \in Terminal
  <2>1. ASSUME NEW k \in Events("ended"), journal[k].what.inv = i
        PROVE  status \in Terminal
    <3>1. journal[k] \in Entry /\ journal[k].kind = "ended"
      BY <2>1, InvFacts DEF Events
    <3>2. journal[k].what.status \in Terminal
      BY <3>1 DEF Entry, EndReport
    <3>3. QED
      BY <2>1, <3>2 DEF Inv, Durable
  <2>2. QED
    BY <2>1 DEF EndedWith
<1>6. CASE status \in Terminal
  BY <1>2, <1>6, NoneAssumption DEF Imported, Terminal
<1>7. CASE status \notin Terminal
  <2>1. EndedWith(i) = {} /\ row[i] \in {None, "PENDING", "STARTED"}
    BY <1>3, <1>4, <1>5, <1>7
  <2>2. CASE row[i] = "STARTED"
    BY <1>2, <1>7, <2>2, NoneAssumption DEF Imported, Terminal
  <2>3. CASE row[i] \in {None, "PENDING"}
    <3>1. row[i] \notin Terminal \cup {"STARTED"}
      BY <2>3, NoneAssumption DEF Terminal
    <3>2. Imported(i, status) = IF EventsOf("started", i) # {} THEN "STARTED" ELSE status
      BY <1>7, <2>1, <3>1 DEF Imported
    <3>3. QED
      BY <1>2, <1>7, <2>3, <3>2
  <2>4. QED
    BY <2>1, <2>2, <2>3
<1>8. QED
  BY <1>6, <1>7

LEMMA ResumeInv ==
  ASSUME Inv, Resume
  PROVE  Inv'
<1> DEFINE m == ckpt.mem
           refreshed == {i \in Pending(m) : /\ ~m.active.local
                                            /\ \/ Imported(i, "PENDING") = "PENDING"
                                               \/ i \notin Debits}
<1>1. /\ task.pc # "idle" /\ UNCHANGED <<ckpt, row, wire>>
  BY DEF Resume
<1>2. /\ ckpt \in Snapshot /\ m \in Memory /\ WellFormed(m)
      /\ DOMAIN m.inv = 1 .. Len(m.inv) /\ Len(m.inv) \in Nat
  BY <1>1, MemoryFacts DEF Inv, Durable, Snapshot
<1>3. CASE Inconsistent(m)
  <2>1. task' = Idle("raised") /\ artifacts \subseteq artifacts' /\ mem' = m /\ UNCHANGED journal
    BY <1>3 DEF Resume, ResumeFails
  <2>2. Neutral
    BY <2>1 DEF Neutral
  <2>3. QED
    BY <1>1, <1>2, <2>1, <2>2, RestStep
<1>4. CASE ~Inconsistent(m)
  <2> DEFINE calls == Reconciled(m)
  <2>1. PICK host \in IF refreshed = {} THEN {FALSE} ELSE BOOLEAN :
          mem' = [m EXCEPT !.spent = m.spent + Cardinality(DebitTail), !.inv = calls,
                           !.active = IF host THEN [m.active EXCEPT !.local = TRUE] ELSE m.active]
    BY <1>4 DEF Resume
  <2>2. /\ task' = [Idle("reconcile") EXCEPT !.debited = Debits, !.resuming = TRUE]
        /\ UNCHANGED <<journal, artifacts>>
    BY <1>4 DEF Resume
  <2>3. m.spent + Cardinality(DebitTail) \in Nat
    <3>1. DebitTail \subseteq 1 .. Len(journal) /\ Len(journal) \in Nat
      <4>1. DOMAIN journal = 1 .. Len(journal) /\ Len(journal) \in Nat
        BY InvFacts
      <4>2. QED
        BY <4>1 DEF DebitTail, Events
    <3>2. IsFiniteSet(DebitTail)
      <4>1. IsFiniteSet(1 .. Len(journal))
        BY <3>1, FS_Interval
      <4>2. QED
        BY <3>1, <4>1, FS_Subset
    <3>3. Cardinality(DebitTail) \in Nat
      BY <3>2, FS_CardinalityType
    <3>4. QED
      BY <1>2, <3>3 DEF Memory
  <2>4. /\ calls \in Seq(Invocation) /\ Len(calls) = Len(m.inv) /\ DOMAIN calls = DOMAIN m.inv
        /\ \A i \in DOMAIN m.inv :
             \/ calls[i].status = m.inv[i].status
             \/ m.inv[i].status = "PENDING" /\ calls[i].status = "STARTED"
        /\ \A i \in DOMAIN m.inv : calls[i].status = "PENDING" => row[i] \in {None, "PENDING"}
    <3>1. ASSUME NEW i \in DOMAIN m.inv
          PROVE  calls[i] \in Invocation /\ calls[i].status = Imported(i, m.inv[i].status)
      <4>1. Imported(i, m.inv[i].status) \in Terminal \cup {"PENDING", "STARTED"}
        BY <1>1, ImportedFacts
      <4>2. m.inv[i] \in Invocation
        BY <1>2, MemoryFacts
      <4>3. QED
        BY <4>1, <4>2 DEF Invocation, Reconciled
    <3>2. \A i \in DOMAIN m.inv :
             /\ \/ calls[i].status = m.inv[i].status
                \/ m.inv[i].status = "PENDING" /\ calls[i].status = "STARTED"
             /\ calls[i].status = "PENDING" => row[i] \in {None, "PENDING"}
      BY <1>1, <3>1, ImportedFacts
    <3>3. calls \in [1 .. Len(m.inv) -> Invocation]
      BY <1>2, <3>1 DEF Reconciled
    <3> HIDE DEF calls
    <3>4. calls \in Seq(Invocation) /\ Len(calls) = Len(m.inv) /\ DOMAIN calls = DOMAIN m.inv
      BY <1>2, <3>3
    <3>5. QED
      BY <3>2, <3>4
  <2>5. (IF host THEN [m.active EXCEPT !.local = TRUE] ELSE m.active) \in Prepared \cup {None}
        /\ (m.active \in Prepared =>
             (IF host THEN [m.active EXCEPT !.local = TRUE] ELSE m.active) \in Prepared)
    <3>1. CASE ~host
      BY <1>2, <3>1, MemoryFacts
    <3>2. CASE host
      <4>1. Open(m) # {}
        BY <3>2, <2>1 DEF Pending, Positions, Open
      <4>2. m.active \in Prepared
        BY <1>2, <4>1 DEF WellFormed
      <4>3. QED
        BY <3>2, <4>2 DEF Prepared
    <3>3. QED
      BY <3>1, <3>2
  <2>6. /\ mem' \in Memory /\ mem'.inv = calls /\ mem'.staged = m.staged /\ mem'.finish = m.finish
        /\ m.active \in Prepared => mem'.active \in Prepared
    <3> HIDE DEF calls, refreshed
    <3>1. QED
      BY <1>2, <2>1, <2>3, <2>4, <2>5 DEF Memory
  <2> HIDE DEF calls, refreshed
  <2>7. WellFormed(mem')
    <3>1. Open(mem') = Open(m) /\ Held(mem') = Held(m)
      <4>1. \A i \in DOMAIN m.inv : calls[i].status \in {"PENDING", "STARTED"}
                                     <=> m.inv[i].status \in {"PENDING", "STARTED"}
        BY <2>4
      <4>2. QED
        BY <2>4, <2>6, <4>1 DEF Open, Positions, Held
    <3>2. QED
      BY <1>2, <2>4, <2>6, <3>1 DEF WellFormed
  <2>8. /\ task' \in Process /\ task'.pc = "reconcile" /\ task'.debited = Debits
    <3>1. Debits \in SUBSET Nat
      <4>1. \A k \in Events("debit") : journal[k] \in Entry /\ journal[k].kind = "debit"
        BY InvFacts DEF Events
      <4>2. \A k \in Events("debit") : journal[k].what \in Nat
        BY <4>1 DEF Entry
      <4>3. QED
        BY <4>2 DEF Debits
    <3>2. QED
      BY <2>2, <3>1 DEF Idle, Process, Places, Outside
  <2>9. /\ \A kind : Events(kind)' = Events(kind)
        /\ Debits' = Debits /\ (Completed' <=> Completed)
    BY <2>2 DEF Events, Debits, Completed
  <2>10. Typed'
    BY <1>1, <2>2, <2>6, <2>8 DEF Inv, Typed
  <2>11. DebitsOnce' /\ Paid' /\ Durable'
    BY <1>1, <2>2, <2>8, <2>9 DEF Inv, DebitsOnce, Paid, Durable
  <2>12. Live'
    BY <1>1, <2>4, <2>6, <2>7 DEF Live, Terminal
  <2>13. AtPlace(task)'
    BY <2>8, <2>9 DEF AtPlace, Looping, Early, Opening, Leaving, Waiting, Ending
  <2>14. Reported'
    BY <1>1, <2>2, <2>6, <2>8, <2>9
       DEF Inv, Reported, Held, Looping, Early, Opening, Leaving, Waiting, Ending
  <2>15. QED
    BY <2>10, <2>11, <2>12, <2>13, <2>14 DEF Inv
<1>5. QED
  BY <1>3, <1>4

-----------------------------------------------------------------------------
LEMMA NextInv ==
  ASSUME Inv, [Next]_vars
  PROVE  Inv'
<1>1. CASE Next
  <2>1. CASE Begin
    BY <2>1, BeginInv
  <2>2. CASE Work
    BY <2>2, FinishInv, EnterInv, ConnectInv, DecideInv, DecideToFinishInv, DecideAgainInv,
       RepairInv, TakeUpInv, CreateInv, PersistPendingInv, DebitInv, StartRowInv, AnnounceInv,
       CommitInv, SendInv, AnswerInv, FailuresInv, ApplyInv, PublishInv, RouteInv, CloseInv,
       CompleteInv, ReturnInv, RepublishInv, SettleInv, SameInv DEF Work, StoreAnswer
  <2>3. CASE Resume
    BY <2>3, ResumeInv
  <2>4. CASE Stop
    BY <2>4, StopInv
  <2>5. CASE DeadlinePasses
    BY <2>5, SameInv DEF DeadlinePasses
  <2>6. QED
    BY <1>1, <2>1, <2>2, <2>3, <2>4, <2>5 DEF Next
<1>2. CASE UNCHANGED vars
  BY <1>2, SameInv DEF vars
<1>3. QED
  BY <1>1, <1>2

LEMMA SpecInv == Spec => []Inv
BY InitInv, NextInv, PTL DEF Spec


(* Whatever stops when, an invocation is sent at most once, and only after its
   one debit is on record.                                                    *)
THEOREM SpecCallsArePaidOnce == Spec => []CallsArePaidOnce
<1>1. ASSUME Inv
      PROVE  CallsArePaidOnce
  <2>1. SUFFICES ASSUME NEW i \in Ids
                 PROVE  /\ Cardinality(EventsOf("debit", i)) <= 1
                        /\ wire[i] <= Cardinality(EventsOf("debit", i))
                        /\ wire[i] > 0 => row[i] \notin {None, "PENDING"}
    BY DEF CallsArePaidOnce
  <2>2. wire[i] \in Nat /\ (wire[i] > 0 => wire[i] = 1 /\ i \in Debits /\ row[i] \notin {None, "PENDING"})
    BY <1>1, InvFacts DEF Inv, Paid
  <2>3. CASE EventsOf("debit", i) = {}
    <3>1. i \notin Debits
      BY <2>3 DEF EventsOf, Debits
    <3>2. Cardinality(EventsOf("debit", i)) = 0
      BY <2>3, FS_EmptySet
    <3>3. QED
      BY <2>2, <3>1, <3>2
  <2>4. ASSUME NEW k \in EventsOf("debit", i)
        PROVE  Cardinality(EventsOf("debit", i)) = 1
    <3>1. EventsOf("debit", i) = {k}
      BY <1>1, <2>4 DEF Inv, DebitsOnce, EventsOf
    <3>2. QED
      BY <3>1, FS_Singleton
  <2>5. QED
    BY <2>2, <2>3, <2>4
<1>2. QED
  BY <1>1, SpecInv, PTL

(* An answer that reached a checkpoint is neither settled as lost nor missing
   from the response store when the investigation is reported as completed.  *)
THEOREM SpecAnswersAreKept == Spec => []AnswersAreKept
<1>1. ASSUME Inv
      PROVE  AnswersAreKept
  <2>1. SUFFICES ASSUME ckpt # None
                 PROVE  /\ \A i \in Held(ckpt.mem) :
                             ckpt.mem.inv[i].status \notin {"UNKNOWN", "TIMED_OUT"}
                        /\ Completed => Held(ckpt.mem) \subseteq artifacts
    BY DEF AnswersAreKept
  <2>2. WellFormed(ckpt.mem)
    BY <1>1, <2>1 DEF Inv, Durable
  <2>3. QED
    BY <1>1, <2>2 DEF WellFormed, Inv, Reported
<1>2. QED
  BY <1>1, SpecInv, PTL

-----------------------------------------------------------------------------
(* Bounds that hold of a process at rest, too. *)
MemoryBounded ==
  /\ Len(mem.inv) <= MaxInvocations
  /\ artifacts \subseteq Ids
  /\ resumes \in 0 .. MaxResumes

(* A step that ends at rest leaves the memory, or takes it from the checkpoint. *)
LEMMA MemoryAtRest ==
  ASSUME Inv, [Next]_vars, task'.pc \in AtRest
  PROVE  mem' = mem \/ StartRow \/ (task.pc # "idle" /\ mem' = ckpt.mem)
<1>1. task \in Process /\ DOMAIN task = {"pc", "prepared", "session", "debited", "fault", "resuming"}
  BY DEF Inv, Typed, Process
<1>2. \A where \in Places \ AtRest : ~Goto(where)
  BY <1>1 DEF Goto, Process
<1>3. Looping \cup Outside \subseteq Places \ AtRest
  BY DEF Places, Looping, Outside, AtRest, Early, Opening, Leaving, Waiting, Ending
<1>4. CASE FinishAtDeadline \/ ScenarioCompletes \/ DecideToFinish \/ Debit \/ Commit \/ Answer
  BY <1>1, <1>4 DEF FinishAtDeadline, ScenarioCompletes, Finish, DecideToFinish, Debit, Commit,
     Answer, Goto, AtRest
<1>5. CASE (\E c \in Calls : Decide(c)) \/ DecideAgain \/ RepairPlan \/ Create \/ Reuse
  BY <1>1, <1>5 DEF Decide, Choosing, DecideAgain, RepairPlan, Create, Reuse, Goto, AtRest
<1>6. CASE Apply \/ CallFails \/ AnswerIsRejected \/ OutcomeUnknown
  BY <1>1, <1>6 DEF Apply, CallFails, AnswerIsRejected, OutcomeUnknown, Fail, AtRest
<1>7. CASE ConnectFails \/ Route
  BY <1>1, <1>7 DEF ConnectFails, Route, GoOn, Goto, AtRest
<1>8. CASE Resume
  BY <1>8 DEF Resume, ResumeFails, Idle, AtRest
<1>9. CASE Begin \/ Enter \/ Connect \/ TakeUp \/ OpenForCall \/ PersistPending \/ Announce \/ Send
           \/ PersistTerminal \/ Tell \/ Close \/ StoreAnswer \/ Complete \/ Return \/ Republish
           \/ Settle \/ Stop \/ DeadlinePasses \/ UNCHANGED vars
  BY <1>9 DEF Begin, Enter, Connect, TakeUp, OpenForCall, PersistPending, Announce, Send,
     PersistTerminal, Tell, Close, StoreAnswer, Complete, Return, Republish, Settle, Stop,
     DeadlinePasses, vars
<1>10. QED
  BY <1>4, <1>5, <1>6, <1>7, <1>8, <1>9 DEF Next, Work

(* Only an answer that is held, by the process or by its checkpoint, is stored. *)
LEMMA ArtifactsGrow ==
  ASSUME Inv, [Next]_vars
  PROVE  \/ artifacts' \subseteq artifacts
         \/ Running /\ artifacts' \subseteq artifacts \cup Held(mem)
         \/ task.pc # "idle" /\ artifacts' \subseteq artifacts \cup Held(ckpt.mem)
<1>1. CASE StoreAnswer
  <2>1. Running
    BY <1>1 DEF StoreAnswer, Running, AtRest
  <2>2. Held(mem) \ artifacts \in SUBSET Nat /\ Held(mem) \ artifacts # {}
    BY <1>1, InvFacts, MemoryFacts DEF StoreAnswer
  <2>3. QED
    BY <1>1, <2>1, <2>2, MinOfNaturals DEF StoreAnswer
<1>2. CASE Stop
  BY <1>2 DEF Stop
<1>3. CASE Resume
  BY <1>3 DEF Resume, ResumeFails
<1>4. CASE PersistPending \/ StartRow \/ PersistTerminal \/ Republish
  <2>1. Running
    BY <1>4 DEF PersistPending, StartRow, PersistTerminal, Republish, Running, AtRest
  <2>2. UNCHANGED artifacts \/ Raise
    BY <1>4 DEF PersistPending, StartRow, PersistTerminal, Republish, SaveRow
  <2>3. QED
    BY <2>1, <2>2 DEF Raise
<1>5. CASE FinishAtDeadline \/ ScenarioCompletes \/ DecideToFinish \/ DecideAgain \/ RepairPlan
             \/ (\E c \in Calls : Decide(c)) \/ Create \/ Reuse \/ Debit \/ Announce \/ Commit
  BY <1>5 DEF FinishAtDeadline, ScenarioCompletes, Finish, DecideToFinish, DecideAgain,
     RepairPlan, Decide, Create, Reuse, Debit, Announce, Commit
<1>6. CASE Apply \/ CallFails \/ AnswerIsRejected \/ OutcomeUnknown \/ ConnectFails \/ Route
  BY <1>6 DEF Apply, CallFails, AnswerIsRejected, OutcomeUnknown, Fail, ConnectFails, Route
<1>7. CASE Begin \/ Enter \/ Connect \/ TakeUp \/ OpenForCall \/ Send \/ Answer \/ Tell \/ Close
             \/ Complete \/ Return \/ Settle \/ DeadlinePasses \/ UNCHANGED vars
  BY <1>7 DEF Begin, Enter, Connect, TakeUp, OpenForCall, Send, Answer, Tell, Close,
     Complete, Return, Settle, DeadlinePasses, vars
<1>8. QED
  BY <1>1, <1>2, <1>3, <1>4, <1>5, <1>6, <1>7 DEF Next, Work

LEMMA HeldAreIds ==
  ASSUME Inv
  PROVE  /\ Running => Held(mem) \subseteq Ids
         /\ task.pc # "idle" => Held(ckpt.mem) \subseteq Ids
<1>1. ASSUME NEW m \in Memory, WellFormed(m)
      PROVE  Held(m) \subseteq Ids
  BY <1>1, MemoryFacts, HarnessAssumption DEF WellFormed, Ids
<1>2. QED
  BY <1>1, InvFacts DEF Inv, Durable, Snapshot

LEMMA MemoryBoundedStays ==
  ASSUME Inv, MemoryBounded, [Next]_vars
  PROVE  MemoryBounded'
<1>1. Inv'
  BY NextInv
<1>2. Len(mem.inv)' <= MaxInvocations
  <2>1. CASE Running'
    BY <1>1, <2>1 DEF Inv, Live, WellFormed
  <2>2. CASE task'.pc \in AtRest
    <3>1. CASE mem' = mem
      BY <3>1 DEF MemoryBounded
    <3>2. CASE StartRow
      <4>1. task.pc \in Opening /\ mem' = SetStatus(mem, Current(mem), "STARTED")
        BY <3>2 DEF StartRow, Opening
      <4>2. Current(mem) \in 1 .. Len(mem.inv) /\ mem \in Memory
        BY <4>1, CurrentIsNewest, InvFacts
      <4>3. QED
        BY <4>1, <4>2, SetStatusFacts DEF MemoryBounded
    <3>3. CASE task.pc # "idle" /\ mem' = ckpt.mem
      BY <3>3 DEF Inv, Durable, WellFormed
    <3>4. QED
      BY <2>2, <3>1, <3>2, <3>3, MemoryAtRest
  <2>3. QED
    BY <2>1, <2>2 DEF Running
<1>3. artifacts' \subseteq Ids
  BY ArtifactsGrow, HeldAreIds DEF MemoryBounded
<1>4. resumes' \in 0 .. MaxResumes
  <2>1. CASE Resume
    <3>1. resumes < MaxResumes /\ resumes' = resumes + 1 /\ resumes \in 0 .. MaxResumes
      BY <2>1 DEF Resume, MemoryBounded
    <3>2. QED
      BY <3>1, HarnessAssumption
  <2>2. UNCHANGED resumes \/ Resume
    <3>1. CASE PersistPending \/ StartRow \/ PersistTerminal \/ Republish \/ Stop
      BY <3>1 DEF PersistPending, StartRow, PersistTerminal, Republish, Stop
    <3>2. CASE FinishAtDeadline \/ ScenarioCompletes \/ DecideToFinish \/ DecideAgain \/ RepairPlan
                 \/ (\E c \in Calls : Decide(c)) \/ Create \/ Reuse \/ Debit \/ Announce \/ Commit
      BY <3>2 DEF FinishAtDeadline, ScenarioCompletes, Finish, DecideToFinish, DecideAgain,
         RepairPlan, Decide, Create, Reuse, Debit, Announce, Commit
    <3>3. CASE Apply \/ CallFails \/ AnswerIsRejected \/ OutcomeUnknown \/ ConnectFails \/ Route
      BY <3>3 DEF Apply, CallFails, AnswerIsRejected, OutcomeUnknown, Fail, ConnectFails, Route
    <3>4. CASE Begin \/ Enter \/ Connect \/ TakeUp \/ OpenForCall \/ Send \/ Answer \/ Tell \/ Close
                 \/ StoreAnswer \/ Complete \/ Return \/ Settle \/ DeadlinePasses \/ UNCHANGED vars
      BY <3>4 DEF Begin, Enter, Connect, TakeUp, OpenForCall, Send, Answer, Tell, Close,
         StoreAnswer, Complete, Return, Settle, DeadlinePasses, vars
    <3>5. QED
      BY <3>1, <3>2, <3>3, <3>4 DEF Next, Work
  <2>3. QED
    BY <2>1, <2>2 DEF MemoryBounded
<1>5. QED
  BY <1>2, <1>3, <1>4 DEF MemoryBounded

(* The memory, the process, the rows and the stored answers have their types:
   no more invocations than the bound, and no answer stored of an unknown one. *)
THEOREM SpecTypeOK == Spec => []TypeOK
<1>1. Init => MemoryBounded
  BY HarnessAssumption DEF Init, MemoryBounded, FreshMemory
<1>2. Inv /\ MemoryBounded /\ [Next]_vars => MemoryBounded'
  BY MemoryBoundedStays
<1>3. Inv /\ MemoryBounded => TypeOK
  <2>1. Inv => /\ mem \in Memory /\ task.prepared \in Prepared \cup {None}
               /\ row \in [Ids -> Terminal \cup {None, "PENDING", "STARTED"}] /\ wire \in [Ids -> Nat]
    BY InvFacts DEF Process
  <2>2. QED
    BY <2>1, MemoryFacts DEF TypeOK, MemoryBounded
<1>4. QED
  BY <1>1, <1>2, <1>3, SpecInv, PTL DEF Spec
=================================================================================
