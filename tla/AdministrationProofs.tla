------------------------ MODULE AdministrationProofs ------------------------
(***************************************************************************)
(* What holds of the settings, of the dispatch gate, of the intake of      *)
(* alerts and of the failures that pause the dispatch, for every number of *)
(* processes, administrators, polls, edits and repeated requests.          *)
(***************************************************************************)
EXTENDS RuntimeSettings, AlertIntake, ModelClient, FiniteSetTheorems, WellFoundedInduction, TLAPS

-----------------------------------------------------------------------------
(* The settings and the dispatch gate.  An edit is made under the file lock by
   the one administrator whose page shows what the file holds (LockedEdit).
   A request that is probing knows a dispatch version that is not ahead of the
   row's, and is behind it as soon as another run paused the dispatch
   (ProbesLag): the resume, which compares the versions, is then refused.  *)

Request ==
  [pc : {"idle", "rejected", "looking", "submitted", "loaded", "written", "probing", "probed"},
   at : Processes \cup {None}, seen : Overrides, change : Changes,
   version : Nat, superseded : BOOLEAN]

Typed ==
  /\ file \in Overrides
  /\ manager \in [Processes -> [known : Overrides, busy : Overrides \cup Admins \cup {None}]]
  /\ running \in [Processes -> Overrides]
  /\ admin \in [Admins -> Request]
  /\ control \in [state : {"ENABLED", "PAUSED"}, version : Nat, revision : {None} \cup 0 .. 1]
  /\ run \in [Processes -> {None} \cup 0 .. 1]

(* The request that may write holds the file lock, and its page is true. *)
LockedEdit ==
  \A c \in Admins : admin[c].pc = "loaded" => flock = c /\ admin[c].seen = file

ProbesLag ==
  \A c \in Admins : admin[c].pc \in InProbe =>
    /\ admin[c].version <= control.version
    /\ admin[c].superseded => admin[c].version < control.version

SInv == Typed /\ LockedEdit /\ ProbesLag

-----------------------------------------------------------------------------
LEMMA IdleIsRequest == Idle \in Request /\ Deployment \in Overrides
BY DEF Idle, Request, Deployment, Overrides, Changes

LEMMA ChangedIsOverrides ==
  ASSUME NEW o \in Overrides, NEW change \in Changes
  PROVE  Changed(o, change) \in Overrides
BY IdleIsRequest DEF Changed, Changes, Overrides

(* What the answer to a request leaves of it. *)
LEMMA Answered ==
  ASSUME Typed, NEW c \in Admins, NEW verdict \in {"accepted", "conflict", "rejected"},
         Answer(c, verdict)
  PROVE  /\ admin' \in [Admins -> Request]
         /\ admin'[c].pc \in {"idle", "rejected"}
         /\ \A d \in Admins : d # c => admin'[d] = admin[d]
<1> DEFINE r == [Idle EXCEPT !.pc = IF verdict = "rejected" THEN "rejected" ELSE "idle"]
<1>1. r \in Request /\ r.pc \in {"idle", "rejected"}
  BY IdleIsRequest DEF Request, Idle
<1>2. admin' = [admin EXCEPT ![c] = r]
  BY DEF Answer
<1> HIDE DEF r
<1>3. QED
  BY <1>1, <1>2 DEF Typed

(* Whoever neither edits nor probes after a step cannot disturb the
   invariant, if the row and the file keep what the others rely on.         *)
LEMMA OthersUndisturbed ==
  ASSUME SInv, Typed', NEW c \in Admins,
         admin'[c].pc \notin InProbe \cup {"loaded"},
         \A d \in Admins : d # c => admin'[d] = admin[d],
         \A d \in Admins \ {c} : flock = d => flock' = d /\ file' = file,
         control'.version >= control.version
  PROVE  SInv'
<1>1. LockedEdit'
  BY DEF SInv, LockedEdit
<1>2. ProbesLag'
  <2> SUFFICES ASSUME NEW d \in Admins, admin'[d].pc \in InProbe
               PROVE  /\ admin'[d].version <= control'.version
                      /\ admin'[d].superseded => admin'[d].version < control'.version
    BY DEF ProbesLag, InProbe
  <2>1. d # c /\ admin'[d] = admin[d]
    OBVIOUS
  <2>2. admin[d].version \in Nat /\ control.version \in Nat /\ control'.version \in Nat
    BY DEF SInv, Typed, Request
  <2>3. /\ admin[d].version <= control.version
        /\ admin[d].superseded => admin[d].version < control.version
    BY <2>1 DEF SInv, ProbesLag
  <2>4. QED
    BY <2>1, <2>2, <2>3
<1>3. QED
  BY <1>1, <1>2 DEF SInv

(* A step that leaves the requests, the file, its lock and the row alone. *)
LEMMA Aside ==
  ASSUME SInv, Typed', UNCHANGED <<file, flock, admin, control>>
  PROVE  SInv'
BY DEF SInv, LockedEdit, ProbesLag

-----------------------------------------------------------------------------
LEMMA InitInv == Init => SInv
<1> SUFFICES ASSUME Init
             PROVE  SInv
  OBVIOUS
<1>1. \A c \in Admins : admin[c] = Idle
  BY DEF Init
<1>2. Typed
  BY IdleIsRequest DEF Init, Typed
<1>3. QED
  BY <1>1, <1>2 DEF SInv, LockedEdit, ProbesLag, Idle, InProbe

(* The steps of a process: reload, and the runs it starts and ends. *)
LEMMA ProcessInv ==
  ASSUME SInv, NEW p \in Processes,
         ReloadBegin(p) \/ ReloadEnd(p) \/ StartRun(p) \/ EndRun(p)
  PROVE  SInv'
<1>1. Typed
  BY DEF SInv
<1>2. CASE ReloadBegin(p)
  BY <1>1, <1>2, Aside DEF ReloadBegin, Typed
<1>3. CASE ReloadEnd(p)
  BY <1>1, <1>3, Aside DEF ReloadEnd, Adopt, Typed
<1>4. CASE StartRun(p)
  <2>1. running[p].ai \in 0 .. 1
    BY <1>1 DEF Typed, Overrides
  <2>2. QED
    BY <1>1, <1>4, <2>1, Aside DEF StartRun, Typed
<1>5. CASE EndRun(p)
  BY <1>1, <1>5, Aside DEF EndRun, Typed
<1>6. QED
  BY <1>2, <1>3, <1>4, <1>5

(* A run that fails: the probes under way learn of the pause. *)
LEMMA FailRunInv ==
  ASSUME SInv, NEW p \in Processes, FailRun(p)
  PROVE  SInv'
<1>1. Typed
  BY DEF SInv
<1>2. run' \in [Processes -> {None} \cup 0 .. 1]
  BY <1>1 DEF FailRun, Typed
<1>3. CASE Pauses(p) /\ ~AlreadyPaused(run[p])
  <2> DEFINE asked(c) == [admin[c] EXCEPT !.superseded = @ \/ admin[c].pc \in InProbe]
  <2>1. admin' = [c \in Admins |-> asked(c)] /\ UNCHANGED <<file, flock, manager, running>>
    BY <1>3 DEF FailRun
  <2>2. ASSUME NEW c \in Admins
        PROVE  /\ asked(c) \in Request /\ asked(c).pc = admin[c].pc
               /\ asked(c).seen = admin[c].seen /\ asked(c).version = admin[c].version
    <3>1. admin[c] \in Request
      BY <1>1 DEF Typed
    <3>2. (admin[c].superseded \/ admin[c].pc \in InProbe) \in BOOLEAN
      BY <3>1 DEF Request
    <3>3. QED
      BY <3>1, <3>2 DEF Request
  <2>3. /\ control' \in [state : {"ENABLED", "PAUSED"}, version : Nat, revision : {None} \cup 0 .. 1]
        /\ control'.version = control.version + 1 /\ control.version \in Nat
    BY <1>1, <1>3 DEF FailRun, Typed
  <2> HIDE DEF asked
  <2>4. Typed'
    BY <1>1, <1>2, <2>1, <2>2, <2>3 DEF Typed
  <2>5. LockedEdit'
    BY <2>1, <2>2 DEF SInv, LockedEdit
  <2>6. ProbesLag'
    <3> SUFFICES ASSUME NEW c \in Admins, admin'[c].pc \in InProbe
                 PROVE  admin'[c].version < control'.version
      BY <2>3, <2>4 DEF ProbesLag, Typed, Request, InProbe
    <3>1. admin[c].version <= control.version
      BY <2>1, <2>2 DEF SInv, ProbesLag
    <3>2. admin[c].version \in Nat /\ admin'[c].version = admin[c].version
      BY <1>1, <2>1, <2>2 DEF Typed, Request
    <3>3. QED
      BY <2>3, <3>1, <3>2
  <2>7. QED
    BY <2>4, <2>5, <2>6 DEF SInv
<1>4. CASE ~(Pauses(p) /\ ~AlreadyPaused(run[p]))
  BY <1>1, <1>2, <1>4, Aside DEF FailRun, Typed
<1>5. QED
  BY <1>3, <1>4

(* A request that an administrator moves on without writing the file. *)
LEMMA PageInv ==
  ASSUME SInv, NEW c \in Admins,
         \/ \E p \in Processes : Look(c, p)
         \/ \E p \in Processes, change \in Changes : Submit(c, p, change)
         \/ Applied(c)
  PROVE  SInv'
<1>1. Typed /\ admin[c] \in Request
  BY DEF SInv, Typed
<1>2. ASSUME NEW p \in Processes, Look(c, p)
      PROVE  SInv'
  <2> DEFINE r == [Idle EXCEPT !.pc = "looking", !.at = p, !.seen = manager[p].known]
  <2>1. r \in Request /\ r.pc = "looking"
    BY <1>1, IdleIsRequest DEF Request, Idle, Typed
  <2>2. admin' = [admin EXCEPT ![c] = r] /\ UNCHANGED <<file, flock, manager, running, control, run>>
    BY <1>2 DEF Look
  <2> HIDE DEF r
  <2>3. Typed' /\ admin'[c].pc = "looking" /\ \A d \in Admins : d # c => admin'[d] = admin[d]
    BY <1>1, <2>1, <2>2 DEF Typed
  <2>4. QED
    BY <1>1, <2>2, <2>3, OthersUndisturbed DEF Typed, InProbe
<1>3. ASSUME NEW p \in Processes, NEW change \in Changes, Submit(c, p, change)
      PROVE  SInv'
  <2> DEFINE r == [admin[c] EXCEPT !.pc = "submitted", !.at = p, !.change = change]
  <2>1. r \in Request /\ r.pc = "submitted"
    BY <1>1 DEF Request
  <2>2. admin' = [admin EXCEPT ![c] = r] /\ UNCHANGED <<file, flock, manager, running, control, run>>
    BY <1>1, <1>3 DEF Submit, Typed, Request
  <2> HIDE DEF r
  <2>3. Typed' /\ admin'[c].pc = "submitted" /\ \A d \in Admins : d # c => admin'[d] = admin[d]
    BY <1>1, <2>1, <2>2 DEF Typed
  <2>4. QED
    BY <1>1, <2>2, <2>3, OthersUndisturbed DEF Typed, InProbe
<1>4. CASE Applied(c)
  <2>1. /\ Answer(c, "accepted") /\ Adopt(admin[c].at, admin[c].seen)
        /\ UNCHANGED <<file, flock, control, run>>
    BY <1>4 DEF Applied
  <2>2. /\ admin' \in [Admins -> Request] /\ admin'[c].pc \in {"idle", "rejected"}
        /\ \A d \in Admins : d # c => admin'[d] = admin[d]
    BY <1>1, <2>1, Answered
  <2>3. Typed'
    BY <1>1, <2>1, <2>2 DEF Typed, Adopt, Request
  <2>4. QED
    BY <1>1, <2>1, <2>2, <2>3, OthersUndisturbed DEF Typed, InProbe
<1>5. QED
  BY <1>2, <1>3, <1>4

(* The request takes the file lock, or is told of the conflict. *)
LEMMA LoadInv ==
  ASSUME SInv, None \notin Admins, NEW c \in Admins, LoadLatest(c)
  PROVE  SInv'
<1>1. Typed /\ admin[c] \in Request
  BY DEF SInv, Typed
<1>2. flock = None /\ UNCHANGED <<file, running, control, run>>
  BY DEF LoadLatest
<1>3. CASE admin[c].seen # file
  <2>1. Answer(c, "conflict") /\ UNCHANGED <<flock, manager>>
    BY <1>3 DEF LoadLatest
  <2>2. /\ admin' \in [Admins -> Request] /\ admin'[c].pc \in {"idle", "rejected"}
        /\ \A d \in Admins : d # c => admin'[d] = admin[d]
    BY <1>1, <2>1, Answered
  <2>3. Typed'
    BY <1>1, <1>2, <2>1, <2>2 DEF Typed
  <2>4. QED
    BY <1>1, <1>2, <2>1, <2>2, <2>3, OthersUndisturbed DEF Typed, InProbe
<1>4. CASE admin[c].seen = file
  <2> DEFINE r == [admin[c] EXCEPT !.pc = "loaded"]
  <2>1. r \in Request /\ r.pc = "loaded" /\ r.seen = file
    BY <1>1, <1>4 DEF Request
  <2>2. /\ admin' = [admin EXCEPT ![c] = r] /\ flock' = c
        /\ manager' = [manager EXCEPT ![admin[c].at].busy = c]
    BY <1>1, <1>4 DEF LoadLatest, Typed, Request
  <2> HIDE DEF r
  <2>3. Typed'
    BY <1>1, <1>2, <2>1, <2>2 DEF Typed
  <2>4. LockedEdit'
    BY <1>1, <1>2, <2>1, <2>2 DEF SInv, Typed, LockedEdit
  <2>5. ProbesLag'
    BY <1>1, <1>2, <2>1, <2>2 DEF SInv, Typed, ProbesLag, InProbe
  <2>6. QED
    BY <2>3, <2>4, <2>5 DEF SInv
<1>5. QED
  BY <1>3, <1>4

(* The writer is the only one who holds the lock, and gives it up. *)
LEMMA WriteInv ==
  ASSUME SInv, NEW c \in Admins, Patch(c) \/ Reset(c)
  PROVE  SInv'
<1>1. Typed /\ admin[c] \in Request
  BY DEF SInv, Typed
<1>2. flock = c /\ UNCHANGED <<running, control, run>>
  BY DEF SInv, LockedEdit, Patch, Reset
<1>3. /\ file' \in Overrides
      /\ \/ \E o \in Overrides :
              admin' = [admin EXCEPT ![c].pc = "written", ![c].seen = o] /\ UNCHANGED manager
         \/ Answer(c, "rejected") /\ manager' = [manager EXCEPT ![admin[c].at].busy = None]
  <2>1. Changed(admin[c].seen, admin[c].change) \in Overrides
    BY <1>1, ChangedIsOverrides DEF Request
  <2>2. CASE Patch(c)
    BY <1>1, <2>1, <2>2 DEF Patch, Typed
  <2>3. CASE Reset(c)
    BY <2>3, IdleIsRequest DEF Reset
  <2>4. QED
    BY <2>2, <2>3
<1> DEFINE Ends == /\ admin' \in [Admins -> Request]
                   /\ admin'[c].pc \in {"idle", "rejected", "written"}
                   /\ \A d \in Admins : d # c => admin'[d] = admin[d]
<1>4. Ends
  <2>1. ASSUME NEW o \in Overrides, admin' = [admin EXCEPT ![c].pc = "written", ![c].seen = o]
        PROVE  Ends
    <3> DEFINE r == [admin[c] EXCEPT !.pc = "written", !.seen = o]
    <3>1. r \in Request /\ r.pc = "written"
      BY <1>1 DEF Request
    <3>2. admin' = [admin EXCEPT ![c] = r]
      BY <1>1, <2>1 DEF Typed, Request
    <3> HIDE DEF r
    <3>3. QED
      BY <1>1, <3>1, <3>2 DEF Typed
  <2>2. CASE Answer(c, "rejected")
    BY <1>1, <2>2, Answered
  <2>3. QED
    BY <1>3, <2>1, <2>2
<1>5. Typed'
  BY <1>1, <1>2, <1>3, <1>4 DEF Typed
<1>6. QED
  BY <1>1, <1>2, <1>4, <1>5, OthersUndisturbed DEF Typed, InProbe

(* A restart drops the requests of its process, and the lock one of them held. *)
LEMMA RestartInv ==
  ASSUME SInv, NEW p \in Processes, Restart(p)
  PROVE  SInv'
<1>1. Typed
  BY DEF SInv
<1>2. /\ \A c \in Admins : admin'[c] = Idle \/ admin'[c] = admin[c]
      /\ admin' \in [Admins -> Request]
      /\ UNCHANGED <<file, control>>
  BY <1>1, IdleIsRequest DEF Restart, Typed
<1>3. Typed'
  BY <1>1, <1>2 DEF Restart, Typed
<1>4. LockedEdit'
  <2> SUFFICES ASSUME NEW c \in Admins, admin'[c].pc = "loaded"
               PROVE  flock' = c /\ admin'[c].seen = file'
    BY DEF LockedEdit
  <2>1. admin'[c] = admin[c] /\ admin[c].at # p
    BY <1>1, <1>2 DEF Restart, Idle
  <2>2. flock = c /\ admin[c].seen = file
    BY <2>1 DEF SInv, LockedEdit
  <2>3. QED
    BY <1>2, <2>1, <2>2 DEF Restart
<1>5. ProbesLag'
  <2> SUFFICES ASSUME NEW c \in Admins, admin'[c].pc \in InProbe
               PROVE  admin'[c] = admin[c]
    BY <1>2 DEF SInv, ProbesLag, InProbe
  <2>1. QED
    BY <1>2 DEF Idle, InProbe
<1>6. QED
  BY <1>3, <1>4, <1>5 DEF SInv

(* The probe and the resume. *)
LEMMA GateInv ==
  ASSUME SInv, NEW c \in Admins,
         ValidateBegin(c) \/ ProbeSucceeds(c) \/ ProbeFails(c) \/ ResumeDispatch(c)
  PROVE  SInv'
<1>1. Typed /\ admin[c] \in Request /\ control.version \in Nat
  BY DEF SInv, Typed
<1>2. UNCHANGED <<file, flock, manager, running, run>>
  BY DEF ValidateBegin, ProbeSucceeds, ProbeFails, ResumeDispatch
<1>3. ASSUME NEW verdict \in {"accepted", "conflict"}, Answer(c, verdict),
             control' \in [state : {"ENABLED", "PAUSED"}, version : Nat,
                           revision : {None} \cup 0 .. 1],
             control'.version >= control.version
      PROVE  SInv'
  <2>1. /\ admin' \in [Admins -> Request] /\ admin'[c].pc \in {"idle", "rejected"}
        /\ \A d \in Admins : d # c => admin'[d] = admin[d]
    BY <1>1, <1>3, Answered
  <2>2. Typed'
    BY <1>1, <1>2, <1>3, <2>1 DEF Typed
  <2>3. QED
    BY <1>2, <1>3, <2>1, <2>2, OthersUndisturbed DEF InProbe
<1>4. ASSUME NEW r \in Request, admin' = [admin EXCEPT ![c] = r], UNCHANGED control,
             r.pc \in InProbe, r.version <= control.version,
             r.superseded => r.version < control.version
      PROVE  SInv'
  <2>1. Typed'
    BY <1>1, <1>2, <1>4 DEF Typed
  <2>2. LockedEdit'
    BY <1>1, <1>2, <1>4 DEF SInv, LockedEdit, Typed, InProbe
  <2>3. ProbesLag'
    BY <1>1, <1>4 DEF SInv, ProbesLag, Typed
  <2>4. QED
    BY <2>1, <2>2, <2>3 DEF SInv
<1>5. CASE ValidateBegin(c)
  <2> DEFINE r == [admin[c] EXCEPT !.pc = "probing", !.version = control.version,
                                   !.superseded = FALSE]
  <2>1. r \in Request /\ r.pc \in InProbe /\ r.version = control.version /\ ~r.superseded
    BY <1>1 DEF Request, InProbe
  <2>2. admin' = [admin EXCEPT ![c] = r] /\ UNCHANGED control
    BY <1>1, <1>5 DEF ValidateBegin, Typed, Request
  <2> HIDE DEF r
  <2>3. r.version <= control.version
    BY <1>1, <2>1
  <2>4. QED
    BY <1>4, <2>1, <2>2, <2>3
<1>6. CASE ProbeSucceeds(c)
  <2>1. CASE SettingsMoved(c)
    BY <1>1, <1>3, <1>6, <2>1 DEF ProbeSucceeds, Typed
  <2>2. CASE ~SettingsMoved(c)
    <3> DEFINE r == [admin[c] EXCEPT !.pc = "probed"]
    <3>1. /\ r \in Request /\ r.pc \in InProbe /\ r.version = admin[c].version
          /\ r.superseded = admin[c].superseded
      BY <1>1 DEF Request, InProbe
    <3>2. admin' = [admin EXCEPT ![c] = r] /\ UNCHANGED control /\ admin[c].pc \in InProbe
      BY <1>1, <1>6, <2>2 DEF ProbeSucceeds, Typed, Request, InProbe
    <3> HIDE DEF r
    <3>3. QED
      BY <1>4, <3>1, <3>2 DEF SInv, ProbesLag
  <2>3. QED
    BY <2>1, <2>2
<1>7. CASE ProbeFails(c)
  <2>1. /\ control' \in [state : {"ENABLED", "PAUSED"}, version : Nat,
                         revision : {None} \cup 0 .. 1]
        /\ control'.version >= control.version
    BY <1>1, <1>7 DEF ProbeFails, Typed
  <2>2. QED
    BY <1>3, <1>7, <2>1 DEF ProbeFails
<1>8. CASE ResumeDispatch(c)
  <2>1. /\ control' \in [state : {"ENABLED", "PAUSED"}, version : Nat,
                         revision : {None} \cup 0 .. 1]
        /\ control'.version >= control.version
    <3>1. CASE Unpausable(c)
      BY <1>1, <1>8, <3>1 DEF ResumeDispatch, Typed
    <3>2. CASE ~Unpausable(c)
      <4> DEFINE gate == [control EXCEPT !.state = "ENABLED", !.version = control.version + 1]
      <4>1. control' = gate
        BY <1>8, <3>2 DEF ResumeDispatch
      <4>2. control.version + 1 \in Nat /\ control.version + 1 >= control.version
        BY <1>1
      <4>3. /\ gate \in [state : {"ENABLED", "PAUSED"}, version : Nat, revision : {None} \cup 0 .. 1]
            /\ gate.version = control.version + 1
        BY <1>1, <4>2 DEF Typed
      <4> HIDE DEF gate
      <4>4. QED
        BY <4>1, <4>2, <4>3
    <3>3. QED
      BY <3>1, <3>2
  <2>2. QED
    BY <1>3, <1>8, <2>1 DEF ResumeDispatch
<1>9. QED
  BY <1>5, <1>6, <1>7, <1>8

LEMMA SettingsInv ==
  ASSUME None \notin Admins
  PROVE  Spec => []SInv
<1>1. ASSUME SInv, [Next]_settingsVars
      PROVE  SInv'
  <2>1. CASE UNCHANGED settingsVars
    BY <1>1, <2>1 DEF settingsVars, SInv, Typed, LockedEdit, ProbesLag
  <2>2. CASE \E p \in Processes :
               \/ ReloadBegin(p) \/ ReloadEnd(p) \/ Restart(p)
               \/ StartRun(p) \/ EndRun(p) \/ FailRun(p)
    BY <1>1, <2>2, ProcessInv, RestartInv, FailRunInv
  <2>3. CASE \/ \E c \in Admins, p \in Processes : Look(c, p)
             \/ \E c \in Admins, p \in Processes, change \in Changes : Submit(c, p, change)
    BY <1>1, <2>3, PageInv
  <2>4. CASE \E c \in Admins :
               \/ LoadLatest(c) \/ Patch(c) \/ Reset(c) \/ Applied(c)
               \/ ValidateBegin(c) \/ ProbeSucceeds(c) \/ ProbeFails(c) \/ ResumeDispatch(c)
    BY <1>1, <2>4, LoadInv, WriteInv, PageInv, GateInv
  <2>5. QED
    BY <1>1, <2>1, <2>2, <2>3, <2>4 DEF Next
<1>2. QED
  BY <1>1, InitInv, PTL DEF Spec

-----------------------------------------------------------------------------
(* The file only changes by an edit of what its author saw on the page. *)
THEOREM SpecEditsBuildOnWhatWasSeen ==
  ASSUME None \notin Admins
  PROVE  Spec => EditsBuildOnWhatWasSeen
<1>1. ASSUME SInv, Next, file' # file
      PROVE  \E c \in Admins : admin[c].seen = file /\ file' = Changed(file, admin[c].change)
  <2>1. PICK c \in Admins : Patch(c) \/ Reset(c)
    BY <1>1 DEF Next, ReloadBegin, ReloadEnd, Restart, StartRun, EndRun, FailRun, Look, Submit,
                LoadLatest, Applied, ValidateBegin, ProbeSucceeds, ProbeFails, ResumeDispatch
  <2>2. admin[c].pc = "loaded" /\ admin[c].seen = file
    BY <1>1, <2>1 DEF Patch, Reset, SInv, LockedEdit
  <2>3. file' = Changed(file, admin[c].change)
    BY <1>1, <2>1, <2>2 DEF Patch, Reset, Changed
  <2>4. QED
    BY <2>2, <2>3
<1>2. SInv /\ [Next]_settingsVars
        => [file' # file =>
              \E c \in Admins : admin[c].seen = file /\ file' = Changed(file, admin[c].change)]_settingsVars
  BY <1>1
<1>3. QED
  BY <1>2, SettingsInv, PTL DEF Spec, EditsBuildOnWhatWasSeen

(* The dispatch is only resumed by a request that no other pause overtook. *)
THEOREM SpecResumesThePauseItProbed ==
  ASSUME None \notin Admins
  PROVE  Spec => ResumesThePauseItProbed
<1>1. ASSUME SInv, Next, control.state = "PAUSED", control'.state = "ENABLED"
      PROVE  \E c \in Admins : admin[c].pc = "probed" /\ ~admin[c].superseded
  <2>1. \/ \E p \in Processes : FailRun(p)
        \/ \E c \in Admins : ProbeFails(c) \/ ResumeDispatch(c)
    BY <1>1 DEF Next, ReloadBegin, ReloadEnd, Restart, StartRun, EndRun, Look, Submit,
                LoadLatest, Patch, Reset, Applied, ValidateBegin, ProbeSucceeds
  <2>2. ASSUME NEW p \in Processes
        PROVE  ~FailRun(p)
    BY <1>1 DEF FailRun
  <2>3. ASSUME NEW c \in Admins
        PROVE  ~ProbeFails(c)
    BY <1>1 DEF ProbeFails, SInv, Typed
  <2>4. PICK c \in Admins : ResumeDispatch(c)
    BY <2>1, <2>2, <2>3
  <2>5. admin[c].pc = "probed" /\ control.version = admin[c].version
    BY <1>1, <2>4 DEF ResumeDispatch, Unpausable
  <2>6. control.version \in Nat /\ (admin[c].superseded => admin[c].version < control.version)
    BY <1>1, <2>5 DEF SInv, Typed, ProbesLag, InProbe
  <2>7. QED
    BY <2>5, <2>6
<1>2. SInv /\ [Next]_settingsVars
        => [control.state = "PAUSED" /\ control'.state = "ENABLED" =>
              \E c \in Admins : admin[c].pc = "probed" /\ ~admin[c].superseded]_settingsVars
  BY <1>1
<1>3. QED
  BY <1>2, SettingsInv, PTL DEF Spec, ResumesThePauseItProbed

(* When every process runs on the settings of the file, only a run of these
   settings can pause the dispatch.                                         *)
THEOREM SpecOldRunsDoNotPause ==
  ASSUME None \notin Admins
  PROVE  Spec => OldRunsDoNotPause
<1>1. ASSUME SInv, Next, \A p \in Processes : running[p] = file,
             control'.state = "PAUSED", control' # control
      PROVE  control'.revision = file.ai \/ control'.revision = control.revision
  <2>1. \/ \E p \in Processes : FailRun(p)
        \/ \E c \in Admins : ProbeFails(c) \/ ResumeDispatch(c)
    BY <1>1 DEF Next, ReloadBegin, ReloadEnd, Restart, StartRun, EndRun, Look, Submit,
                LoadLatest, Patch, Reset, Applied, ValidateBegin, ProbeSucceeds
  <2>2. ASSUME NEW p \in Processes, FailRun(p)
        PROVE  control'.revision = file.ai
    BY <1>1, <2>2 DEF FailRun, Pauses
  <2>3. ASSUME NEW c \in Admins, ProbeFails(c) \/ ResumeDispatch(c)
        PROVE  control'.revision = control.revision
    BY <1>1, <2>3 DEF ProbeFails, ResumeDispatch, SInv, Typed
  <2>4. QED
    BY <2>1, <2>2, <2>3
<1>2. SInv /\ [Next]_settingsVars
        => [(\A p \in Processes : running[p] = file) /\ control'.state = "PAUSED" /\ control' # control
            => control'.revision = file.ai \/ control'.revision = control.revision]_settingsVars
  BY <1>1
<1>3. QED
  BY <1>2, SettingsInv, PTL DEF Spec, OldRunsDoNotPause

-----------------------------------------------------------------------------
(* The intake.  What a poll has been given and has not stored yet is young
   enough to be kept by retention when it is stored (WorldInv, PollInv).   *)

(* Retention does not delete what a poll may still fetch. *)
KeptWhileFetched == Lookback + PollTime <= Retention

(* What occurred, what is stored of it, and what retention has deleted. *)
WorldInv ==
  /\ now \in Nat /\ feed \in Seq(Alerts \X Nat)
  /\ \A i \in 1 .. Len(feed) : feed[i][2] <= now
  /\ row \in [Alerts -> [status : {"absent", "QUEUED", "SETTLED"}, at : Nat]]
  /\ created \in [Alerts -> Nat]
  /\ \A a \in Alerts :
       /\ created[a] # 0 => a \in Fed
       /\ row[a] # NoRow =>
            /\ created[a] # 0 /\ row[a].at <= now
            /\ \A i \in 1 .. Len(feed) : feed[i][1] = a => feed[i][2] <= row[a].at
       /\ created[a] # 0 /\ row[a] = NoRow =>
            \A i \in 1 .. Len(feed) : feed[i][1] = a => feed[i][2] + Retention < now
       /\ KeptWhileFetched => created[a] <= 1

(* What a poll holds occurred in its window, which is not far in the past; and
   while nothing has failed, what it owes is stored or still in its hands.  *)
PollInv(p) ==
  /\ DOMAIN poll[p] = {"pc", "from", "to", "cursor", "fetched", "total", "found", "failed", "owed"}
  /\ poll[p].from \in Nat /\ poll[p].to \in Nat /\ poll[p].total \in Nat
  /\ poll[p].failed \in BOOLEAN
  /\ poll[p].fetched \subseteq Alerts /\ poll[p].owed \subseteq Alerts
  /\ poll[p].pc = "idle" => poll[p].fetched = {}
  /\ poll[p].pc # "idle" =>
       poll[p].to <= poll[p].from + Lookback /\ now <= poll[p].to + PollTime
  /\ \A a \in poll[p].fetched : \E i \in Window(p) : feed[i][1] = a
  /\ poll[p].found # "no" => poll[p].pc = "storing" /\ poll[p].found \in poll[p].fetched
  /\ poll[p].pc = "storing" /\ ~poll[p].failed =>
       \A a \in poll[p].owed : created[a] # 0 \/ a \in poll[p].fetched

IntakeInv ==
  /\ WorldInv
  /\ DOMAIN poll = Polls
  /\ \A p \in Polls : PollInv(p)

-----------------------------------------------------------------------------
LEMMA FeedEntries ==
  ASSUME WorldInv, NEW i \in 1 .. Len(feed)
  PROVE  feed[i][1] \in Alerts /\ feed[i][2] \in Nat /\ feed[i][2] <= now
  BY DEF WorldInv

(* A poll at rest holds nothing. *)
LEMMA RestingPoll ==
  ASSUME NEW p \in Polls, poll'[p] = NoPoll, now' \in Nat
  PROVE  PollInv(p)'
  BY DEF PollInv, NoPoll

(* The feed only grows, and what was in a window stays in it. *)
LEMMA WindowsGrow ==
  ASSUME WorldInv, NEW p \in Polls, poll'[p].from = poll[p].from, poll'[p].to = poll[p].to,
         feed' = feed \/ \E x \in Alerts \X Nat : feed' = Append(feed, x)
  PROVE  /\ \A i \in 1 .. Len(feed) : i \in 1 .. Len(feed') /\ feed'[i] = feed[i]
         /\ \A i \in Window(p) : i \in Window(p)'
<1>1. feed \in Seq(Alerts \X Nat)
  BY DEF WorldInv
<1>2. \A i \in 1 .. Len(feed) : i \in 1 .. Len(feed') /\ feed'[i] = feed[i]
  BY <1>1
<1>3. \A i \in Window(p) : i \in Window(p)'
  BY <1>2 DEF Window, InWindow
<1> QED BY <1>2, <1>3

(* Nothing a poll relies on is undone by time that it leaves room for, by
   another alert that occurs, by rows that come and go.                     *)
LEMMA PollKept ==
  ASSUME WorldInv, NEW p \in Polls, PollInv(p), poll'[p] = poll[p], now' \in Nat,
         poll[p].pc # "idle" => now' <= poll[p].to + PollTime,
         feed' = feed \/ \E x \in Alerts \X Nat : feed' = Append(feed, x),
         \A a \in Alerts : created[a] # 0 => created'[a] # 0
  PROVE  PollInv(p)'
<1>1. /\ \A i \in Window(p) : i \in Window(p)' /\ feed'[i] = feed[i]
  BY WindowsGrow DEF Window
<1>2. \A a \in poll'[p].fetched : \E i \in Window(p)' : feed'[i][1] = a
  BY <1>1 DEF PollInv
<1>3. \A a \in poll'[p].owed : created[a] # 0 => created'[a] # 0
  BY DEF PollInv
<1> HIDE DEF Window
<1> QED BY <1>2, <1>3 DEF PollInv
-----------------------------------------------------------------------------
(* The world.                                                              *)

LEMMA IntakeInitInv == IntakeInit => IntakeInv
<1> SUFFICES ASSUME IntakeInit PROVE IntakeInv
  OBVIOUS
<1>1. WorldInv
  <2>1. Len(feed) = 0 /\ feed \in Seq(Alerts \X Nat) /\ 1 .. Len(feed) = {}
    BY DEF IntakeInit
  <2>2. row = [a \in Alerts |-> NoRow] /\ created = [a \in Alerts |-> 0] /\ now = 0
    BY DEF IntakeInit
  <2> QED BY <2>1, <2>2 DEF WorldInv, NoRow
<1>2. ASSUME NEW p \in Polls PROVE PollInv(p)
  BY <1>2 DEF IntakeInit, PollInv, NoPoll
<1> QED BY <1>1, <1>2 DEF IntakeInv, IntakeInit

(* An alert in the hands of a poll whose row is gone never had one: what
   retention deletes is older than every window in use.                    *)
LEMMA FetchedWasNotDeleted ==
  ASSUME IntakeInv, KeptWhileFetched, NEW p \in Polls, NEW a \in poll[p].fetched,
         row[a] = NoRow
  PROVE  created[a] = 0
<1>1. PICK i \in Window(p) : feed[i][1] = a
  BY DEF IntakeInv, PollInv
<1>2. i \in 1 .. Len(feed) /\ feed[i][2] >= poll[p].from
  BY DEF Window, InWindow
<1>3. poll[p].to <= poll[p].from + Lookback /\ now <= poll[p].to + PollTime
  BY DEF IntakeInv, PollInv
<1>4. feed[i][2] \in Nat /\ poll[p].from \in Nat /\ poll[p].to \in Nat /\ now \in Nat
  BY <1>2, FeedEntries DEF IntakeInv, PollInv, WorldInv
<1>5. ~(feed[i][2] + Retention < now)
  <2>1. \A time, from, to, clock, l, r, t \in Nat :
          time >= from /\ to <= from + l /\ clock <= to + t /\ l + t <= r => ~(time + r < clock)
    OBVIOUS
  <2>2. Lookback \in Nat /\ Retention \in Nat /\ PollTime \in Nat
    BY IntakeAssumption
  <2>3. Lookback + PollTime <= Retention
    BY DEF KeptWhileFetched
  <2> QED BY <1>2, <1>3, <1>4, <2>1, <2>2, <2>3
<1>6. a \in Alerts
  BY DEF IntakeInv, PollInv
<1> QED BY <1>1, <1>2, <1>5, <1>6 DEF IntakeInv, WorldInv

LEMMA InsertedWorld ==
  ASSUME WorldInv, NEW a \in Alerts, a \in Fed, Inserted(a), UNCHANGED <<now, feed>>,
         KeptWhileFetched => created[a] = 0
  PROVE  /\ WorldInv'
         /\ \A b \in Alerts : created[b] # 0 => created'[b] # 0
         /\ created'[a] # 0
<1>1. row' = [row EXCEPT ![a] = [status |-> "QUEUED", at |-> now]]
  BY DEF Inserted
<1>2. created' = [created EXCEPT ![a] = created[a] + 1]
  BY DEF Inserted
<1>3. [status |-> "QUEUED", at |-> now] # NoRow
  BY DEF NoRow
<1>4. Fed' = Fed
  BY DEF Fed
<1>5. /\ row' \in [Alerts -> [status : {"absent", "QUEUED", "SETTLED"}, at : Nat]]
      /\ created' \in [Alerts -> Nat]
  BY <1>1, <1>2 DEF WorldInv
<1>6. ASSUME NEW b \in Alerts
      PROVE  /\ created'[b] # 0 => b \in Fed
             /\ row'[b] # NoRow =>
                  /\ created'[b] # 0 /\ row'[b].at <= now
                  /\ \A i \in 1 .. Len(feed) : feed[i][1] = b => feed[i][2] <= row'[b].at
             /\ created'[b] # 0 /\ row'[b] = NoRow =>
                  \A i \in 1 .. Len(feed) : feed[i][1] = b => feed[i][2] + Retention < now
             /\ KeptWhileFetched => created'[b] <= 1
             /\ created[b] # 0 => created'[b] # 0
  <2>1. CASE b = a
    <3>1. row'[b] = [status |-> "QUEUED", at |-> now] /\ created'[b] = created[a] + 1
      BY <1>1, <1>2, <2>1 DEF WorldInv
    <3>2. created[a] \in Nat /\ now \in Nat
      BY DEF WorldInv
    <3> QED BY <1>3, <2>1, <3>1, <3>2, FeedEntries
  <2>2. CASE b # a
    <3>1. row'[b] = row[b] /\ created'[b] = created[b]
      BY <1>1, <1>2, <2>2 DEF WorldInv
    <3> QED BY <3>1 DEF WorldInv
  <2> QED BY <2>1, <2>2
<1>7. created'[a] # 0
  BY <1>2 DEF WorldInv
<1>8. WorldInv'
  BY <1>4, <1>5, <1>6 DEF WorldInv, KeptWhileFetched
<1> QED BY <1>6, <1>7, <1>8

(* A step of the world that leaves the polls alone. *)
LEMMA WorldStep ==
  ASSUME IntakeInv, WorldInv', poll' = poll,
         \A p \in Polls : poll[p].pc # "idle" => now' <= poll[p].to + PollTime,
         feed' = feed \/ \E x \in Alerts \X Nat : feed' = Append(feed, x),
         \A a \in Alerts : created[a] # 0 => created'[a] # 0
  PROVE  IntakeInv'
<1>1. now' \in Nat
  BY DEF WorldInv
<1>2. ASSUME NEW p \in Polls PROVE PollInv(p)'
  BY <1>1, PollKept DEF IntakeInv
<1> QED BY <1>2 DEF IntakeInv

LEMMA WorldKept ==
  ASSUME WorldInv, UNCHANGED <<now, feed, row, created>>
  PROVE  WorldInv'
  BY DEF WorldInv, Fed, KeptWhileFetched

LEMMA TimePasses ==
  ASSUME IntakeInv, Tick
  PROVE  IntakeInv'
<1>1. now' = now + 1 /\ UNCHANGED <<feed, row, created, poll>> /\ now \in Nat
  BY DEF Tick, IntakeInv, WorldInv
<1>2. WorldInv'
  <2>1. \A i \in 1 .. Len(feed) : feed[i][2] \in Nat /\ feed[i][2] <= now
    BY FeedEntries DEF IntakeInv
  <2>2. \A a \in Alerts : row[a].at \in Nat
    BY DEF IntakeInv, WorldInv
  <2>3. Fed' = Fed
    BY <1>1 DEF Fed
  <2>4. ASSUME NEW a \in Alerts
        PROVE  /\ row[a] # NoRow =>
                    /\ created[a] # 0 /\ row[a].at <= now + 1
                    /\ \A i \in 1 .. Len(feed) : feed[i][1] = a => feed[i][2] <= row[a].at
               /\ created[a] # 0 /\ row[a] = NoRow =>
                    \A i \in 1 .. Len(feed) : feed[i][1] = a => feed[i][2] + Retention < now + 1
    <3>1. /\ row[a] # NoRow =>
               /\ created[a] # 0 /\ row[a].at <= now
               /\ \A i \in 1 .. Len(feed) : feed[i][1] = a => feed[i][2] <= row[a].at
          /\ created[a] # 0 /\ row[a] = NoRow =>
               \A i \in 1 .. Len(feed) : feed[i][1] = a => feed[i][2] + Retention < now
      BY DEF IntakeInv, WorldInv
    <3>2. row[a].at \in Nat /\ Retention \in Nat
      BY <2>2, IntakeAssumption
    <3> QED BY <1>1, <2>1, <3>1, <3>2
  <2>5. \A i \in 1 .. Len(feed) : feed[i][2] <= now + 1
    BY <1>1, <2>1
  <2> QED BY <1>1, <2>3, <2>4, <2>5 DEF IntakeInv, WorldInv, KeptWhileFetched
<1>3. \A p \in Polls : poll[p].pc # "idle" => now' <= poll[p].to + PollTime
  BY DEF Tick
<1> QED BY <1>1, <1>2, <1>3, WorldStep

LEMMA AlertOccurs ==
  ASSUME IntakeInv, NEW a \in Alerts, NEW time, Occurs(a, time)
  PROVE  IntakeInv'
<1>1. /\ a \notin Fed /\ time \in Nat /\ time <= now
      /\ feed' = Append(feed, <<a, time>>)
      /\ UNCHANGED <<now, row, created, poll>>
  BY DEF Occurs, IntakeInv, WorldInv
<1>2. <<a, time>> \in Alerts \X Nat
  BY <1>1
<1>3. feed \in Seq(Alerts \X Nat) /\ WorldInv
  BY DEF IntakeInv, WorldInv
<1>4. feed' \in Seq(Alerts \X Nat) /\ Len(feed') = Len(feed) + 1
  BY <1>1, <1>2, <1>3
<1>5. /\ \A i \in 1 .. Len(feed) : i \in 1 .. Len(feed') /\ feed'[i] = feed[i]
      /\ feed'[Len(feed')] = <<a, time>>
      /\ \A i \in 1 .. Len(feed') : i \in 1 .. Len(feed) \/ i = Len(feed')
  BY <1>1, <1>3, <1>4
<1>6. Fed \subseteq Fed' /\ created[a] = 0 /\ row[a] = NoRow
  <2>1. Fed \subseteq Fed'
    BY <1>5 DEF Fed
  <2> QED BY <1>1, <1>3, <2>1 DEF WorldInv
<1>7. \A i \in 1 .. Len(feed') : feed'[i][2] <= now
  BY <1>1, <1>3, <1>5 DEF WorldInv
<1>8. \A b \in Alerts : b # a => \A i \in 1 .. Len(feed') :
        feed'[i][1] = b => i \in 1 .. Len(feed) /\ feed'[i] = feed[i]
  BY <1>5
<1>9. WorldInv'
  <2>1. now' = now /\ row' = row /\ created' = created
    BY <1>1
  <2>2. ASSUME NEW b \in Alerts
        PROVE  /\ created[b] # 0 => b \in Fed'
               /\ row[b] # NoRow =>
                    /\ created[b] # 0 /\ row[b].at <= now
                    /\ \A i \in 1 .. Len(feed') : feed'[i][1] = b => feed'[i][2] <= row[b].at
               /\ created[b] # 0 /\ row[b] = NoRow =>
                    \A i \in 1 .. Len(feed') : feed'[i][1] = b => feed'[i][2] + Retention < now
               /\ KeptWhileFetched => created[b] <= 1
    <3>1. CASE b = a
      BY <1>6, <3>1
    <3>2. CASE b # a
      BY <1>3, <1>6, <1>8, <3>2 DEF WorldInv
    <3> QED BY <3>1, <3>2
  <2> QED BY <1>3, <1>4, <1>7, <2>1, <2>2 DEF WorldInv, KeptWhileFetched
<1>10. \A p \in Polls : poll[p].pc # "idle" => now' <= poll[p].to + PollTime
  BY <1>1 DEF IntakeInv, PollInv
<1> QED BY <1>1, <1>2, <1>9, <1>10, WorldStep

(* Rows are settled and deleted. *)
LEMMA RowsSettle ==
  ASSUME IntakeInv, Clean \/ \E a \in Alerts : Settles(a)
  PROVE  IntakeInv'
<1>1. UNCHANGED <<now, feed, created, poll>>
  BY DEF Clean, Settles
<1>2. /\ row' \in [Alerts -> [status : {"absent", "QUEUED", "SETTLED"}, at : Nat]]
      /\ \A a \in Alerts :
           \/ row'[a] # NoRow /\ row[a] # NoRow /\ row'[a].at = row[a].at
           \/ row'[a] = NoRow /\ row[a] = NoRow
           \/ row'[a] = NoRow /\ row[a] # NoRow /\ row[a].at + Retention < now
  <2> USE DEF IntakeInv, WorldInv
  <2>1. CASE Clean
    BY <2>1 DEF Clean, Expired, NoRow
  <2>2. CASE \E a \in Alerts : Settles(a)
    BY <2>2 DEF Settles, NoRow
  <2> QED BY <2>1, <2>2
<1>3. \A i \in 1 .. Len(feed) : feed[i][2] \in Nat
  BY FeedEntries DEF IntakeInv
<1>4. WorldInv'
  <2>1. now \in Nat /\ \A a \in Alerts : row[a].at \in Nat
    BY DEF IntakeInv, WorldInv
  <2>2. ASSUME NEW a \in Alerts
        PROVE  /\ row'[a] # NoRow =>
                    /\ created[a] # 0 /\ row'[a].at <= now
                    /\ \A i \in 1 .. Len(feed) : feed[i][1] = a => feed[i][2] <= row'[a].at
               /\ created[a] # 0 /\ row'[a] = NoRow =>
                    \A i \in 1 .. Len(feed) : feed[i][1] = a => feed[i][2] + Retention < now
    <3>1. /\ row[a] # NoRow =>
               /\ created[a] # 0 /\ row[a].at <= now
               /\ \A i \in 1 .. Len(feed) : feed[i][1] = a => feed[i][2] <= row[a].at
          /\ created[a] # 0 /\ row[a] = NoRow =>
               \A i \in 1 .. Len(feed) : feed[i][1] = a => feed[i][2] + Retention < now
      BY DEF IntakeInv, WorldInv
    <3>2. CASE row'[a] # NoRow /\ row[a] # NoRow /\ row'[a].at = row[a].at
      BY <3>1, <3>2
    <3>3. CASE row'[a] = NoRow /\ row[a] = NoRow
      BY <3>1, <3>3
    <3>4. CASE row'[a] = NoRow /\ row[a] # NoRow /\ row[a].at + Retention < now
      BY <1>3, <2>1, <3>1, <3>4, IntakeAssumption
    <3> QED BY <1>2, <3>2, <3>3, <3>4
  <2> QED BY <1>1, <1>2, <2>2 DEF IntakeInv, WorldInv, Fed, KeptWhileFetched
<1>5. \A p \in Polls : poll[p].pc # "idle" => now' <= poll[p].to + PollTime
  BY <1>1 DEF IntakeInv, PollInv
<1> QED BY <1>1, <1>4, <1>5, WorldStep

LEMMA OtherProcessStores ==
  ASSUME IntakeInv, NEW a \in Alerts, StoredElsewhere(a)
  PROVE  IntakeInv'
<1>1. /\ a \in Fed /\ created[a] = 0 /\ Inserted(a)
      /\ UNCHANGED <<now, feed, poll>>
  BY DEF StoredElsewhere
<1>2. WorldInv' /\ \A b \in Alerts : created[b] # 0 => created'[b] # 0
  BY <1>1, InsertedWorld DEF IntakeInv
<1>3. \A p \in Polls : poll[p].pc # "idle" => now' <= poll[p].to + PollTime
  BY <1>1 DEF IntakeInv, PollInv
<1> QED BY <1>1, <1>2, <1>3, WorldStep
-----------------------------------------------------------------------------
(* The polls.                                                              *)

LEMMA OnePollMoves ==
  ASSUME IntakeInv, NEW p \in Polls, DOMAIN poll' = Polls,
         \A q \in Polls \ {p} : poll'[q] = poll[q],
         WorldInv', UNCHANGED <<now, feed>>,
         \A a \in Alerts : created[a] # 0 => created'[a] # 0,
         PollInv(p)'
  PROVE  IntakeInv'
<1>1. ASSUME NEW q \in Polls \ {p} PROVE PollInv(q)'
  <2>1. PollInv(q) /\ poll'[q] = poll[q] /\ now' \in Nat
    BY DEF IntakeInv, WorldInv
  <2>2. poll[q].pc # "idle" => now' <= poll[q].to + PollTime
    BY <2>1 DEF PollInv
  <2> QED BY <2>1, <2>2, PollKept DEF IntakeInv
<1> QED BY <1>1 DEF IntakeInv

(* A poll that ends, fails or is given up leaves nothing behind. *)
LEMMA PollRests ==
  ASSUME IntakeInv, NEW p \in Polls, poll' = [poll EXCEPT ![p] = NoPoll],
         UNCHANGED <<now, feed, row, created>>
  PROVE  IntakeInv'
<1>1. poll'[p] = NoPoll /\ DOMAIN poll' = Polls /\ \A q \in Polls \ {p} : poll'[q] = poll[q]
  BY DEF IntakeInv
<1>2. WorldInv'
  BY WorldKept DEF IntakeInv
<1>3. PollInv(p)'
  BY <1>1, RestingPoll DEF IntakeInv, WorldInv
<1> QED BY <1>1, <1>2, <1>3, OnePollMoves

LEMMA PollStarts ==
  ASSUME IntakeInv, NEW p \in Polls, Start(p) \/ Acquire(p)
  PROVE  IntakeInv'
<1>1. UNCHANGED <<now, feed, row, created>> /\ now \in Nat
  BY DEF Start, Acquire, IntakeInv, WorldInv
<1>2. DOMAIN poll' = Polls /\ \A q \in Polls \ {p} : poll'[q] = poll[q]
  BY DEF Start, Acquire, IntakeInv
<1>3. PollInv(p)'
  <2>1. CASE Start(p)
    <3>1. poll'[p] = [NoPoll EXCEPT !.pc = "waiting", !.to = now,
                                    !.from = IF now < Lookback THEN 0 ELSE now - Lookback]
      BY <2>1 DEF Start, IntakeInv
    <3>2. /\ DOMAIN poll'[p] = {"pc", "from", "to", "cursor", "fetched", "total", "found",
                                "failed", "owed"}
          /\ poll'[p].pc = "waiting" /\ poll'[p].to = now /\ poll'[p].total = 0
          /\ poll'[p].from = IF now < Lookback THEN 0 ELSE now - Lookback
          /\ poll'[p].fetched = {} /\ poll'[p].owed = {} /\ poll'[p].found = "no"
          /\ poll'[p].failed = FALSE
      BY <3>1 DEF NoPoll
    <3>3. poll'[p].from \in Nat /\ poll'[p].to <= poll'[p].from + Lookback
      BY <1>1, <3>2, IntakeAssumption
    <3>4. now' <= poll'[p].to + PollTime
      BY <1>1, <3>2, IntakeAssumption
    <3>5. poll'[p].to \in Nat /\ poll'[p].total \in Nat
      BY <1>1, <3>2
    <3> QED BY <3>2, <3>3, <3>4, <3>5 DEF PollInv
  <2>2. CASE Acquire(p)
    <3>1. poll'[p] = [poll[p] EXCEPT !.pc = "fetching"] /\ poll[p].pc = "waiting" /\ PollInv(p)
      BY <2>2 DEF Acquire, IntakeInv
    <3>2. /\ DOMAIN poll'[p] = DOMAIN poll[p] /\ poll'[p].pc = "fetching"
          /\ poll'[p].from = poll[p].from /\ poll'[p].to = poll[p].to
          /\ poll'[p].total = poll[p].total /\ poll'[p].fetched = poll[p].fetched
          /\ poll'[p].owed = poll[p].owed /\ poll'[p].found = poll[p].found
          /\ poll'[p].failed = poll[p].failed
      BY <3>1 DEF PollInv
    <3>3. Window(p)' = Window(p)
      BY <1>1, <3>2 DEF Window, InWindow
    <3> QED BY <1>1, <3>1, <3>2, <3>3 DEF PollInv
  <2> QED BY <2>1, <2>2
<1>4. WorldInv'
  BY <1>1, WorldKept DEF IntakeInv
<1> QED BY <1>1, <1>2, <1>3, <1>4, OnePollMoves

LEMMA WindowIsFinite ==
  ASSUME WorldInv, NEW p \in Polls
  PROVE  /\ IsFiniteSet(Window(p)) /\ Cardinality(Window(p)) \in Nat
         /\ IsFiniteSet({feed[i][1] : i \in Window(p)})
         /\ Cardinality({feed[i][1] : i \in Window(p)}) <= Cardinality(Window(p))
<1>1. IsFiniteSet(1 .. Len(feed))
  <2>1. Len(feed) \in Nat
    BY DEF WorldInv
  <2> QED BY <2>1, FS_Interval
<1>2. IsFiniteSet(Window(p))
  BY <1>1, FS_Subset DEF Window
<1>3. Cardinality(Window(p)) \in Nat
  BY <1>2, FS_CardinalityType
<1> DEFINE f == [i \in Window(p) |-> feed[i][1]]
           T == {feed[i][1] : i \in Window(p)}
<1>4. f \in Surjection(Window(p), T)
  BY DEF Surjection
<1>5. IsFiniteSet(T) /\ Cardinality(T) <= Cardinality(Window(p))
  BY <1>2, <1>4, FS_Surjection
<1> QED BY <1>2, <1>3, <1>5

(* Pages that hold as many alerts as the server announced hold them all. *)
LEMMA CompletePagesHoldTheWindow ==
  ASSUME IntakeInv, NEW p \in Polls,
         NEW fetched, fetched \subseteq {feed[i][1] : i \in Window(p)},
         AllPages(fetched, Most(poll[p].total, Cardinality(Window(p))))
  PROVE  fetched = {feed[i][1] : i \in Window(p)}
<1> DEFINE T == {feed[i][1] : i \in Window(p)}
<1>1. /\ Cardinality(Window(p)) \in Nat
      /\ IsFiniteSet(T) /\ Cardinality(T) <= Cardinality(Window(p))
  BY WindowIsFinite DEF IntakeInv
<1>2. Cardinality(fetched) >= Cardinality(Window(p)) \/ poll[p].total \notin Nat
  <2>1. Cardinality(fetched) >= Most(poll[p].total, Cardinality(Window(p)))
    BY DEF AllPages
  <2>2. Cardinality(fetched) \in Nat
    BY <1>1, FS_Subset, FS_CardinalityType
  <2> QED BY <1>1, <2>1, <2>2 DEF Most
<1>3. poll[p].total \in Nat
  BY DEF IntakeInv, PollInv
<1>4. /\ Cardinality(fetched) <= Cardinality(T)
      /\ Cardinality(T) = Cardinality(fetched) => T = fetched
  BY <1>1, FS_Subset
<1>5. Cardinality(T) \in Nat /\ Cardinality(fetched) \in Nat
  BY <1>1, FS_Subset, FS_CardinalityType
<1>6. Cardinality(T) = Cardinality(fetched)
  <2> HIDE DEF T
  <2> QED BY <1>1, <1>2, <1>3, <1>4, <1>5
<1> QED BY <1>4, <1>6

LEMMA PageIsFetched ==
  ASSUME IntakeInv, NEW p \in Polls, FetchPage(p) \/ FetchFails(p)
  PROVE  IntakeInv'
<1>1. UNCHANGED <<now, feed, row, created>> /\ poll[p].pc = "fetching" /\ PollInv(p)
  BY DEF FetchPage, FetchFails, IntakeInv
<1>2. CASE poll' = [poll EXCEPT ![p] = NoPoll]
  BY <1>1, <1>2, PollRests
<1>3. CASE poll' # [poll EXCEPT ![p] = NoPoll]
  <2> DEFINE fetched == poll[p].fetched \cup {feed[i][1] : i \in Page(p)}
             total == Most(poll[p].total, Cardinality(Window(p)))
             owed == {feed[i][1] : i \in Window(p)}
  <2>1. FetchPage(p)
    BY <1>3 DEF FetchFails, Fails
  <2>2. \/ \E cursor : poll' = [poll EXCEPT ![p].cursor = cursor, ![p].fetched = fetched,
                                            ![p].total = total]
        \/ /\ AllPages(fetched, total)
           /\ poll' = [poll EXCEPT ![p].pc = "storing", ![p].fetched = fetched,
                                   ![p].owed = owed]
    BY <1>3, <2>1 DEF FetchPage, Fails
  <2>3. fetched \subseteq owed /\ owed \subseteq Alerts
    <3>1. Page(p) \subseteq Window(p)
      BY DEF Page
    <3>2. \A a \in poll[p].fetched : \E i \in Window(p) : feed[i][1] = a
      BY <1>1 DEF PollInv
    <3>3. owed \subseteq Alerts
      BY FeedEntries DEF Window, IntakeInv
    <3> QED BY <3>1, <3>2, <3>3
  <2>4. total \in Nat
    BY <1>1, WindowIsFinite DEF Most, IntakeInv, PollInv
  <2>5. AllPages(fetched, total) => fetched = owed
    BY <2>3, CompletePagesHoldTheWindow
  <2>6. DOMAIN poll' = Polls /\ \A q \in Polls \ {p} : poll'[q] = poll[q]
    BY <2>2 DEF IntakeInv
  <2>7. /\ DOMAIN poll'[p] = DOMAIN poll[p]
        /\ poll'[p].from = poll[p].from /\ poll'[p].to = poll[p].to
        /\ poll'[p].failed = poll[p].failed /\ poll'[p].found = poll[p].found
        /\ poll'[p].fetched = fetched
        /\ \/ poll'[p].pc = "fetching" /\ poll'[p].owed = poll[p].owed /\ poll'[p].total = total
           \/ /\ poll'[p].pc = "storing" /\ poll'[p].owed = owed /\ poll'[p].total = poll[p].total
              /\ fetched = owed
    <3> HIDE DEF fetched, total, owed
    <3>1. DOMAIN poll = Polls /\ DOMAIN poll[p] = {"pc", "from", "to", "cursor", "fetched", "total",
                                                  "found", "failed", "owed"}
      BY <1>1 DEF IntakeInv, PollInv
    <3>2. CASE \E cursor : poll' = [poll EXCEPT ![p].cursor = cursor, ![p].fetched = fetched,
                                                ![p].total = total]
      BY <1>1, <3>1, <3>2
    <3>3. CASE /\ AllPages(fetched, total)
               /\ poll' = [poll EXCEPT ![p].pc = "storing", ![p].fetched = fetched,
                                       ![p].owed = owed]
      BY <2>5, <3>1, <3>3
    <3> QED BY <2>2, <3>2, <3>3
  <2>8. Window(p)' = Window(p)
    BY <1>1, <2>7 DEF Window, InWindow
  <2>9. \A a \in fetched : \E i \in Window(p) : feed[i][1] = a
    BY <2>3
  <2>10. poll[p].fetched \subseteq fetched
    OBVIOUS
  <2>11. PollInv(p)'
    <3> HIDE DEF fetched, total, owed
    <3> QED BY <1>1, <2>3, <2>4, <2>7, <2>8, <2>9, <2>10 DEF PollInv
  <2>12. WorldInv'
    BY <1>1, WorldKept DEF IntakeInv
  <2> QED BY <1>1, <2>6, <2>11, <2>12, OnePollMoves
<1> QED BY <1>2, <1>3

(* An alert leaves the hands of a poll when it is stored or its storing fails. *)
LEMMA AlertLeavesPoll ==
  ASSUME IntakeInv, NEW p \in Polls, NEW a \in Alerts,
         poll[p].pc = "storing",
         DOMAIN poll' = Polls, \A q \in Polls \ {p} : poll'[q] = poll[q],
         DOMAIN poll'[p] = DOMAIN poll[p],
         poll'[p].pc = "storing", poll'[p].total = poll[p].total,
         poll'[p].from = poll[p].from, poll'[p].to = poll[p].to,
         poll'[p].owed = poll[p].owed, poll'[p].fetched = poll[p].fetched \ {a},
         poll'[p].found = "no",
         poll'[p].failed \in BOOLEAN,
         poll'[p].failed \/ (poll'[p].failed = poll[p].failed /\ created'[a] # 0),
         UNCHANGED <<now, feed>>, WorldInv',
         \A b \in Alerts : created[b] # 0 => created'[b] # 0
  PROVE  IntakeInv'
<1>1. Window(p)' = Window(p)
  BY DEF Window, InWindow
<1>2. PollInv(p)
  BY DEF IntakeInv
<1>3. poll'[p].pc = "storing" /\ ~poll'[p].failed =>
        \A b \in poll'[p].owed : created'[b] # 0 \/ b \in poll'[p].fetched
  BY <1>2 DEF PollInv
<1>4. PollInv(p)'
  BY <1>1, <1>2, <1>3 DEF PollInv
<1> QED BY <1>4, OnePollMoves

LEMMA AlertIsStored ==
  ASSUME IntakeInv, NEW p \in Polls, NEW a \in Alerts,
         Find(p, a) \/ Insert(p, a) \/ StoreFails(p, a)
  PROVE  IntakeInv'
<1>1. PollInv(p) /\ UNCHANGED <<now, feed>> /\ a # "no"
  BY IntakeAssumption DEF Find, Insert, StoreFails, IntakeInv
<1>2. row[a] # NoRow => created[a] # 0
  BY DEF IntakeInv, WorldInv
<1>3. CASE Find(p, a) /\ row[a] # NoRow
  <2>1. poll' = [poll EXCEPT ![p].fetched = poll[p].fetched \ {a}, ![p].found = "no"]
    BY <1>3 DEF Find, Stored
  <2>2. poll[p].pc = "storing" /\ UNCHANGED <<now, feed, row, created>>
    BY <1>3 DEF Find
  <2>3. WorldInv'
    BY <2>2, WorldKept DEF IntakeInv
  <2>4. DOMAIN poll' = Polls /\ \A q \in Polls \ {p} : poll'[q] = poll[q]
    BY <2>1 DEF IntakeInv
  <2>5. /\ DOMAIN poll'[p] = DOMAIN poll[p]
        /\ poll'[p].pc = "storing" /\ poll'[p].total = poll[p].total
        /\ poll'[p].from = poll[p].from /\ poll'[p].to = poll[p].to
        /\ poll'[p].owed = poll[p].owed /\ poll'[p].fetched = poll[p].fetched \ {a}
        /\ poll'[p].found = "no" /\ poll'[p].failed = poll[p].failed
    BY <1>1, <2>1, <2>2 DEF IntakeInv, PollInv
  <2>6. poll[p].failed \in BOOLEAN
    BY <1>1 DEF PollInv
  <2> QED BY <1>2, <1>3, <2>2, <2>3, <2>4, <2>5, <2>6, AlertLeavesPoll
<1>4. CASE Find(p, a) /\ row[a] = NoRow
  <2>1. /\ poll' = [poll EXCEPT ![p].found = a]
        /\ a \in poll[p].fetched /\ poll[p].pc = "storing"
        /\ UNCHANGED <<now, feed, row, created>>
    BY <1>4 DEF Find
  <2>2. DOMAIN poll' = Polls /\ \A q \in Polls \ {p} : poll'[q] = poll[q]
    BY <2>1 DEF IntakeInv
  <2>3. /\ DOMAIN poll'[p] = DOMAIN poll[p]
        /\ poll'[p].pc = poll[p].pc /\ poll'[p].total = poll[p].total
        /\ poll'[p].from = poll[p].from /\ poll'[p].to = poll[p].to
        /\ poll'[p].owed = poll[p].owed /\ poll'[p].fetched = poll[p].fetched
        /\ poll'[p].found = a /\ poll'[p].failed = poll[p].failed
    BY <1>1, <2>1 DEF IntakeInv, PollInv
  <2>4. Window(p)' = Window(p)
    BY <2>1, <2>3 DEF Window, InWindow
  <2>5. PollInv(p)'
    BY <1>1, <2>1, <2>3, <2>4 DEF PollInv
  <2>6. WorldInv'
    BY <2>1, WorldKept DEF IntakeInv
  <2> QED BY <2>1, <2>2, <2>5, <2>6, OnePollMoves
<1>5. CASE Insert(p, a)
  <2>1. poll' = [poll EXCEPT ![p].fetched = poll[p].fetched \ {a}, ![p].found = "no"]
    BY <1>5 DEF Insert, Stored
  <2>2. a \in poll[p].fetched /\ poll[p].found = a
    BY <1>1, <1>5 DEF Insert, PollInv
  <2>3. WorldInv' /\ created'[a] # 0 /\ \A b \in Alerts : created[b] # 0 => created'[b] # 0
    <3>1. CASE row[a] # NoRow
      <4>1. UNCHANGED <<row, created>>
        BY <1>5, <3>1 DEF Insert
      <4> QED BY <1>1, <1>2, <3>1, <4>1, WorldKept DEF IntakeInv
    <3>2. CASE row[a] = NoRow
      <4>1. Inserted(a)
        BY <1>5, <3>2 DEF Insert
      <4>2. a \in Fed
        BY <1>1, <2>2 DEF PollInv, Window, Fed
      <4>3. KeptWhileFetched => created[a] = 0
        BY <2>2, <3>2, FetchedWasNotDeleted
      <4> QED BY <1>1, <4>1, <4>2, <4>3, InsertedWorld DEF IntakeInv
    <3> QED BY <3>1, <3>2
  <2>4. DOMAIN poll' = Polls /\ \A q \in Polls \ {p} : poll'[q] = poll[q]
    BY <2>1 DEF IntakeInv
  <2>5. /\ DOMAIN poll'[p] = DOMAIN poll[p]
        /\ poll'[p].pc = poll[p].pc /\ poll'[p].total = poll[p].total
        /\ poll'[p].from = poll[p].from /\ poll'[p].to = poll[p].to
        /\ poll'[p].owed = poll[p].owed /\ poll'[p].fetched = poll[p].fetched \ {a}
        /\ poll'[p].found = "no" /\ poll'[p].failed = poll[p].failed
    BY <1>1, <2>1 DEF IntakeInv, PollInv
  <2>6. poll[p].pc = "storing" /\ poll[p].failed \in BOOLEAN
    BY <1>1, <2>2 DEF PollInv
  <2>7. poll'[p].pc = "storing" /\ poll'[p].failed \in BOOLEAN
    BY <2>5, <2>6
  <2>8. poll'[p].failed \/ (poll'[p].failed = poll[p].failed /\ created'[a] # 0)
    BY <2>3, <2>5
  <2> QED BY <1>1, <2>3, <2>4, <2>5, <2>6, <2>7, <2>8, AlertLeavesPoll
<1>6. CASE StoreFails(p, a)
  <2>1. /\ poll' = [poll EXCEPT ![p].fetched = poll[p].fetched \ {a}, ![p].found = "no",
                                ![p].failed = TRUE]
        /\ poll[p].pc = "storing" /\ UNCHANGED <<now, feed, row, created>>
    BY <1>6 DEF StoreFails
  <2>2. WorldInv'
    BY <2>1, WorldKept DEF IntakeInv
  <2>3. DOMAIN poll' = Polls /\ \A q \in Polls \ {p} : poll'[q] = poll[q]
    BY <2>1 DEF IntakeInv
  <2>4. /\ DOMAIN poll'[p] = DOMAIN poll[p]
        /\ poll'[p].pc = "storing" /\ poll'[p].total = poll[p].total
        /\ poll'[p].from = poll[p].from /\ poll'[p].to = poll[p].to
        /\ poll'[p].owed = poll[p].owed /\ poll'[p].fetched = poll[p].fetched \ {a}
        /\ poll'[p].found = "no" /\ poll'[p].failed /\ poll'[p].failed \in BOOLEAN
    BY <1>1, <2>1 DEF IntakeInv, PollInv
  <2>5. poll'[p].failed \/ (poll'[p].failed = poll[p].failed /\ created'[a] # 0)
    BY <2>4
  <2>6. /\ poll[p].pc = "storing" /\ UNCHANGED <<now, feed>>
        /\ \A b \in Alerts : created[b] # 0 => created'[b] # 0
    BY <2>1
  <2> QED BY <2>2, <2>3, <2>4, <2>5, <2>6, AlertLeavesPoll
<1> QED BY <1>3, <1>4, <1>5, <1>6

-----------------------------------------------------------------------------
LEMMA IntakeStays ==
  ASSUME IntakeInv, UNCHANGED <<now, feed, row, created, poll>>
  PROVE  IntakeInv'
<1>1. WorldInv'
  BY WorldKept DEF IntakeInv
<1>2. \A p \in Polls : poll[p].pc # "idle" => now' <= poll[p].to + PollTime
  BY DEF IntakeInv, PollInv
<1> QED BY <1>1, <1>2, WorldStep

LEMMA IntakeNextInv ==
  ASSUME IntakeInv, [IntakeNext]_intakeVars
  PROVE  IntakeInv'
<1>1. CASE Tick
  BY <1>1, TimePasses
<1>2. CASE Clean
  BY <1>2, RowsSettle
<1>3. CASE Switch
  BY <1>3, IntakeStays DEF Switch
<1>4. CASE Stopped
  <2>1. Background \in Polls
    BY DEF Polls
  <2> QED BY <1>4, <2>1, PollRests DEF Stopped
<1>5. CASE Disconnect
  <2>1. Manual \in Polls
    BY DEF Polls
  <2> QED BY <1>5, <2>1, PollRests DEF Disconnect
<1>6. ASSUME NEW a \in Alerts, Settles(a) PROVE IntakeInv'
  BY <1>6, RowsSettle
<1>7. ASSUME NEW a \in Alerts, StoredElsewhere(a) PROVE IntakeInv'
  BY <1>7, OtherProcessStores
<1>8. ASSUME NEW a \in Alerts, NEW time \in 0 .. MaxTime, Occurs(a, time) PROVE IntakeInv'
  BY <1>8, AlertOccurs
<1>9. ASSUME NEW p \in Polls, Start(p) \/ Acquire(p) PROVE IntakeInv'
  BY <1>9, PollStarts
<1>10. ASSUME NEW p \in Polls, FetchPage(p) \/ FetchFails(p) PROVE IntakeInv'
  BY <1>10, PageIsFetched
<1>11. ASSUME NEW p \in Polls, Finish(p) PROVE IntakeInv'
  BY <1>11, PollRests DEF Finish
<1>12. ASSUME NEW p \in Polls, NEW a \in Alerts,
              Find(p, a) \/ Insert(p, a) \/ StoreFails(p, a)
       PROVE  IntakeInv'
  BY <1>12, AlertIsStored
<1>13. CASE UNCHANGED intakeVars
  BY <1>13, IntakeStays DEF intakeVars
<1> QED BY <1>1, <1>2, <1>3, <1>4, <1>5, <1>6, <1>7, <1>8, <1>9, <1>10, <1>11, <1>12, <1>13
        DEF IntakeNext

LEMMA IntakeSpecInv == IntakeSpec => []IntakeInv
<1>1. IntakeInit => IntakeInv
  BY IntakeInitInv
<1>2. IntakeInv /\ [IntakeNext]_intakeVars => IntakeInv'
  BY IntakeNextInv
<1> QED BY <1>1, <1>2, PTL DEF IntakeSpec

-----------------------------------------------------------------------------
(* An alert is stored once in its life, although every poll asks again for
   the last Lookback: by the time retention deletes a row, no poll that is
   still under way can be given the alert again.  This takes a retention that
   is longer than the lookback and a poll together.                        *)
THEOREM SpecStoredOnce ==
  ASSUME Lookback + PollTime <= Retention
  PROVE  IntakeSpec => []StoredOnce
<1>1. IntakeInv => StoredOnce
  BY DEF IntakeInv, WorldInv, KeptWhileFetched, StoredOnce
<1> QED BY <1>1, IntakeSpecInv, PTL

(* A poll that ends with SUCCESS has stored every alert that it owed when it
   began, whoever else polls, deletes or is switched over meanwhile.       *)
THEOREM SpecSuccessIsComplete == IntakeSpec => SuccessIsComplete
<1>1. ASSUME IntakeInv, [IntakeNext]_intakeVars, NEW p \in Polls, Finish(p), state' = "SUCCESS",
             NEW a \in poll[p].owed
      PROVE  created[a] > 0
  <2>1. PollInv(p) /\ poll[p].pc = "storing" /\ poll[p].fetched = {} /\ ~poll[p].failed
    BY <1>1 DEF Finish, IntakeInv
  <2>2. a \in Alerts /\ created[a] # 0
    BY <1>1, <2>1 DEF PollInv
  <2> QED BY <1>1, <2>2 DEF IntakeInv, WorldInv
<1>2. IntakeInv /\ [IntakeNext]_intakeVars =>
        [\A p \in Polls :
           Finish(p) /\ state' = "SUCCESS" => \A a \in poll[p].owed : created[a] > 0]_intakeVars
  BY <1>1
<1> QED BY <1>2, IntakeSpecInv, PTL DEF IntakeSpec, SuccessIsComplete

-----------------------------------------------------------------------------
(* The requests to the model.  What pauses the dispatch is decided by the first
   of ten rules that applies to an error (ConfirmedErrorsPause), and a request
   that fails keeps the error that explains its failure (ClientInv).        *)

(* The first of some numbered rules. *)
LEMMA FirstOfRules ==
  ASSUME NEW S \in SUBSET Nat, S # {}
  PROVE  Min(S) \in S /\ \A k \in S : Min(S) <= k
<1> DEFINE R == {ss \in Nat \X Nat : ss[1] < ss[2]}
<1>1. PICK x \in S : \A y \in S : ~ (<<y, x>> \in R)
  <2>1. IsWellFoundedOn(R, Nat)
    BY NatLessThanWellFounded DEF OpToRel
  <2>2. QED
    <3> HIDE DEF R
    <3>1. QED BY <2>1, WFMin
<1>2. \A y \in S : x <= y
  <2> SUFFICES ASSUME NEW y \in S
               PROVE  x <= y
    OBVIOUS
  <2>1. <<y, x>> \in Nat \X Nat /\ <<y, x>>[1] = y /\ <<y, x>>[2] = x
    OBVIOUS
  <2>2. ~(y < x)
    BY <1>1, <2>1
  <2>3. QED
    BY <2>2
<1>3. QED
  BY <1>2 DEF Min

(* The classification pauses for the confirmed errors and for no others, and
   an error that pauses is never retried.                                   *)
THEOREM ConfirmedErrorsPause ==
  ASSUME NEW e \in Errors
  PROVE  /\ Category(e) \in Pausing <=> Confirmed(e)
         /\ Category(e) \in Retryable => ~Confirmed(e)
<1> DEFINE S == {k \in DOMAIN Rules(e) : Rules(e)[k][1]}
<1>1. /\ DOMAIN Rules(e) = 1 .. 10
      /\ Rules(e)[1][1] = (e.code = "authentication") /\ Rules(e)[2][1] = (e.code = "quota")
      /\ Rules(e)[3][1] = (e.status = "401") /\ Rules(e)[4][1] = (e.status = "403")
      /\ Rules(e)[5][1] = (e.code = "configuration") /\ Rules(e)[6][1] = (e.status = "408")
      /\ Rules(e)[7][1] = (e.status = "429") /\ Rules(e)[8][1] = (e.status = "500")
      /\ Rules(e)[9][1] = e.network /\ Rules(e)[10][1] = TRUE
  BY DEF Rules
<1>2. /\ \A k \in 1 .. 5 : Rules(e)[k][2] \in Pausing
      /\ \A k \in 6 .. 10 : Rules(e)[k][2] \notin Pausing
      /\ \A k \in 1 .. 5 : Rules(e)[k][2] \notin Retryable
  BY DEF Rules, Pausing, Retryable
<1>3. S \in SUBSET Nat /\ 10 \in S
  BY <1>1
<1>4. Min(S) \in S /\ \A k \in S : Min(S) <= k
  BY <1>3, FirstOfRules
<1>5. Confirmed(e) <=> \E k \in 1 .. 5 : k \in S
  <2>1. e.code \in {"none", "authentication", "quota", "configuration"}
    BY DEF Errors, Error, NoError
  <2>2. /\ 1 \in S <=> e.code = "authentication"
        /\ 2 \in S <=> e.code = "quota"
        /\ 3 \in S <=> e.status = "401"
        /\ 4 \in S <=> e.status = "403"
        /\ 5 \in S <=> e.code = "configuration"
    <3>1. /\ 1 \in S <=> Rules(e)[1][1]
          /\ 2 \in S <=> Rules(e)[2][1]
          /\ 3 \in S <=> Rules(e)[3][1]
          /\ 4 \in S <=> Rules(e)[4][1]
          /\ 5 \in S <=> Rules(e)[5][1]
      BY <1>1
    <3>2. QED
      BY <1>1, <3>1
  <2>3. (\E k \in 1 .. 5 : k \in S) <=> 1 \in S \/ 2 \in S \/ 3 \in S \/ 4 \in S \/ 5 \in S
    <3> HIDE DEF S
    <3>1. QED
      OBVIOUS
  <2> HIDE DEF S
  <2>4. QED
    BY <2>1, <2>2, <2>3 DEF Confirmed
<1>6. Category(e) = Rules(e)[Min(S)][2]
  BY DEF Category
<1> HIDE DEF S
<1>7. Min(S) \in 1 .. 10
  BY <1>1, <1>4 DEF S
<1>8. Confirmed(e) <=> Min(S) \in 1 .. 5
  BY <1>4, <1>5, <1>7
<1>9. QED
  BY <1>2, <1>6, <1>7, <1>8

(* The request, and why it failed. *)
Requesting ==
  [op : Operations, protocol : Protocols,
   at : {"start", "send", "stream", "check", "answered", "failed"},
   attempts : 0 .. AI_PROVIDER_MAX_ATTEMPTS - 1, repairs : 0 .. MaxRepairs,
   error : Errors]

Explained(failure, error) ==
  failure.pauses =>
    Confirmed(error) \/ (error = NoError /\ failure.category = "CONFIGURATION")

ClientInv ==
  /\ request \in Requesting
  /\ reply.items \in Outputs
  /\ request.at = "failed" => outcome = None \/ Explained(outcome, request.error)

(* Nothing was sent yet. *)
LEMMA NothingIsAnOutput ==
  ASSUME MaxItems \in Nat
  PROVE  NoReply.items \in Outputs
<1>1. <<>> \in [1 .. 0 -> Kinds]
  OBVIOUS
<1>2. 0 \in 0 .. MaxItems
  OBVIOUS
<1>3. QED
  BY <1>1, <1>2 DEF NoReply, Outputs

LEMMA ClientInitInv == MaxItems \in Nat /\ MaxRepairs \in Nat /\ ClientInit => ClientInv
<1> SUFFICES ASSUME MaxItems \in Nat, MaxRepairs \in Nat, ClientInit PROVE ClientInv
  OBVIOUS
<1>1. NoError \in Errors
  BY DEF Errors, NoError
<1>2. request \in Requesting /\ request.at = "start"
  BY <1>1 DEF ClientInit, Requesting, AI_PROVIDER_MAX_ATTEMPTS
<1>3. QED
  BY <1>2, NothingIsAnOutput DEF ClientInit, ClientInv

(* The request fails, with an error that explains the failure. *)
LEMMA FailedInv ==
  ASSUME MaxItems \in Nat, ClientInv, NEW category, NEW error \in Errors, FailWith(ModelFailure(category), error),
         category \in Pausing =>
           Confirmed(error) \/ (error = NoError /\ category = "CONFIGURATION")
  PROVE  ClientInv'
<1>1. request' \in Requesting /\ request'.error = error
  BY DEF ClientInv, FailWith, Requesting
<1>2. outcome' \in {None, ModelFailure(category)} /\ reply' = NoReply
  BY DEF FailWith
<1>3. ModelFailure(category).category = category /\ (ModelFailure(category).pauses => category \in Pausing)
  BY DEF ModelFailure
<1>4. outcome' = None \/ Explained(outcome', error)
  BY <1>2, <1>3 DEF Explained
<1>5. QED
  BY <1>1, <1>2, <1>4, NothingIsAnOutput DEF ClientInv

LEMMA ClientNextInv ==
  ASSUME MaxItems \in Nat, MaxRepairs \in Nat, ClientInv, [ClientNext]_clientVars
  PROVE  ClientInv'
<1>1. NoError \in Errors /\ request \in Requesting
  BY DEF Errors, NoError, ClientInv
<1>2. ASSUME NEW yes \in BOOLEAN, Configured(yes)
      PROVE  ClientInv'
  <2>1. CASE yes
    <3>1. MoveTo("send") /\ UNCHANGED <<reply, outcome>>
      BY <1>2, <2>1 DEF Configured
    <3>2. QED
      BY <1>1, <3>1 DEF MoveTo, ClientInv, Requesting
  <2>2. CASE ~yes
    BY <1>1, <1>2, <2>2, FailedInv DEF Configured
  <2>3. QED
    BY <2>1, <2>2
<1>3. ASSUME NEW error \in Errors, Refuse(error)
      PROVE  ClientInv'
  <2>1. CASE Category(error) \in Retryable /\ request.attempts + 1 < MaxAttempts
    <3>1. /\ request' = [request EXCEPT !.attempts = request.attempts + 1]
          /\ UNCHANGED <<reply, outcome>> /\ request.at = "send"
      BY <1>3, <2>1 DEF Refuse
    <3>2. request.attempts + 1 \in 0 .. AI_PROVIDER_MAX_ATTEMPTS - 1
      BY <1>1, <2>1 DEF MaxAttempts, AI_PROVIDER_MAX_ATTEMPTS, Requesting
    <3>3. QED
      BY <1>1, <3>1, <3>2 DEF ClientInv, Requesting
  <2>2. CASE ~(Category(error) \in Retryable /\ request.attempts + 1 < MaxAttempts)
    <3>1. FailWith(ModelFailure(Category(error)), error)
      BY <1>3, <2>2 DEF Refuse
    <3>2. QED
      BY <3>1, ConfirmedErrorsPause, FailedInv
  <2>3. QED
    BY <2>1, <2>2
<1>4. ASSUME NEW error \in Errors, Break(error)
      PROVE  ClientInv'
  <2>1. CASE request.protocol = "responses" /\ ~error.network
    <3>1. FailWith(ModelFailure("INVALID_RESPONSE"), error)
      BY <1>4, <2>1 DEF Break
    <3>2. QED
      BY <3>1, FailedInv DEF Pausing
  <2>2. CASE ~(request.protocol = "responses" /\ ~error.network)
    <3>1. FailWith(ModelFailure(Category(error)), error)
      BY <1>4, <2>2 DEF Break
    <3>2. QED
      BY <3>1, ConfirmedErrorsPause, FailedInv
  <2>3. QED
    BY <2>1, <2>2
<1>5. ASSUME NEW items \in Outputs, NEW style \in Styles, Open(items, style)
      PROVE  ClientInv'
  <2>1. MoveTo("stream") /\ reply'.items = items
    BY <1>5 DEF Open
  <2>2. QED
    BY <1>1, <2>1 DEF MoveTo, ClientInv, Requesting
<1>6. CASE Receive
  <2>1. UNCHANGED <<request, outcome>> /\ reply' = [reply EXCEPT !.next = reply.next + 1]
    BY <1>6 DEF Receive
  <2>2. reply'.items = reply.items
    BY <2>1
  <2>3. QED
    BY <2>1, <2>2 DEF ClientInv
<1>7. CASE End
  BY <1>1, <1>7 DEF End, MoveTo, ClientInv, Requesting
<1>8. CASE Accept
  BY <1>1, <1>8 DEF Accept, MoveTo, ClientInv, Requesting
<1>9. CASE Reject
  BY <1>1, <1>9, FailedInv DEF Reject, Pausing
<1>10. CASE Repair
  <2>1. /\ request' = [request EXCEPT !.at = "send", !.attempts = 0,
                                      !.repairs = request.repairs + 1]
        /\ reply' = NoReply /\ request.repairs < MaxRepairs
    BY <1>10 DEF Repair
  <2>2. request.repairs + 1 \in 0 .. MaxRepairs /\ 0 \in 0 .. AI_PROVIDER_MAX_ATTEMPTS - 1
    BY <1>1, <2>1 DEF Requesting, AI_PROVIDER_MAX_ATTEMPTS
  <2>3. request' \in Requesting /\ request'.at = "send"
    BY <1>1, <2>1, <2>2 DEF Requesting
  <2>4. QED
    BY <2>1, <2>3, NothingIsAnOutput DEF ClientInv
<1>11. CASE UNCHANGED clientVars
  BY <1>11 DEF clientVars, ClientInv
<1>12. QED
  BY <1>2, <1>3, <1>4, <1>5, <1>6, <1>7, <1>8, <1>9, <1>10, <1>11 DEF ClientNext

LEMMA ClientSpecInv ==
  ASSUME MaxItems \in Nat, MaxRepairs \in Nat
  PROVE  ClientSpec => []ClientInv
<1>1. ClientInit => ClientInv
  BY ClientInitInv
<1>2. ClientInv /\ [ClientNext]_clientVars => ClientInv'
  BY ClientNextInv
<1>3. QED
  BY <1>1, <1>2, PTL DEF ClientSpec

(* A request is sent at most three times before an answer begins, and its
   counters stay within their bounds, for every protocol and output.        *)
THEOREM ClientSpecTypeOK ==
  ASSUME MaxItems \in Nat, MaxRepairs \in Nat
  PROVE  ClientSpec => []ClientTypeOK
<1>1. ClientInv => ClientTypeOK
  BY DEF ClientInv, Requesting, AI_PROVIDER_MAX_ATTEMPTS, ClientTypeOK
<1>2. QED
  BY <1>1, ClientSpecInv, PTL

(* No passing trouble pauses the dispatch, whatever is repeated, breaks off or
   is repaired before.  (README.md:34-35)                                    *)
THEOREM SpecPausesAreExplained ==
  ASSUME MaxItems \in Nat, MaxRepairs \in Nat
  PROVE  ClientSpec => []PausesAreExplained
<1>1. ClientInv => PausesAreExplained
  BY DEF ClientInv, Explained, PausesAreExplained
<1>2. QED
  BY <1>1, ClientSpecInv, PTL
-----------------------------------------------------------------------------
(* What a flattened sequence is.  FlattenSeq joins the parts one by one; Join
   names what the first k of them come to.                                  *)

Joined(f, parts) ==
  /\ DOMAIN f = 0 .. Len(parts) /\ f = [k \in DOMAIN f |-> f[k]]
  /\ f[0] = <<>>
  /\ \A k \in 1 .. Len(parts) : f[k] = f[k - 1] \o parts[k]

Join(parts) == CHOOSE f : Joined(f, parts)

(* Of a set of numbers that is not empty one is the least. *)
LEMMA Least ==
  ASSUME NEW S \in SUBSET Nat, S # {}
  PROVE  \E x \in S : \A k \in S : x <= k
BY FirstOfRules

(* What is joined the same way from the same parts is the same. *)
LEMMA JoinedOnce ==
  ASSUME NEW f, NEW g, NEW parts, NEW others, Joined(f, parts), Joined(g, others),
         Len(parts) \in Nat, Len(others) \in Nat,
         NEW n \in Nat, n <= Len(parts), n <= Len(others),
         \A k \in 1 .. n : parts[k] = others[k]
  PROVE  \A k \in 0 .. n : f[k] = g[k]
<1> DEFINE Bad == {k \in 0 .. n : f[k] # g[k]}
<1> SUFFICES ASSUME Bad # {} PROVE FALSE
  OBVIOUS
<1>1. PICK k \in Bad : \A j \in Bad : k <= j
  <2>1. Bad \in SUBSET Nat
    OBVIOUS
  <2> HIDE DEF Bad
  <2> QED BY <2>1, Least
<1>2. k # 0
  BY <1>1 DEF Joined
<1>3. k - 1 \in 0 .. n /\ k - 1 \notin Bad /\ k \in 1 .. n
  BY <1>1, <1>2
<1>4. f[k] = f[k - 1] \o parts[k] /\ g[k] = g[k - 1] \o others[k]
  <2>1. k \in 1 .. Len(parts) /\ k \in 1 .. Len(others)
    BY <1>3
  <2> QED BY <2>1 DEF Joined
<1>5. f[k - 1] = g[k - 1] /\ parts[k] = others[k]
  BY <1>3
<1>6. QED
  BY <1>1, <1>4, <1>5

(* What is joined of sequences is sequences. *)
LEMMA JoinedType ==
  ASSUME NEW T, NEW parts \in Seq(Seq(T)), NEW f, Joined(f, parts)
  PROVE  f \in [0 .. Len(parts) -> Seq(T)]
<1> DEFINE Bad == {k \in 0 .. Len(parts) : f[k] \notin Seq(T)}
<1>1. Len(parts) \in Nat
  OBVIOUS
<1>0. /\ DOMAIN f = 0 .. Len(parts) /\ f = [k \in DOMAIN f |-> f[k]] /\ f[0] = <<>>
      /\ \A k \in 1 .. Len(parts) : f[k] = f[k - 1] \o parts[k]
  BY Zenon DEF Joined
<1>2. Bad = {}
  <2> SUFFICES ASSUME Bad # {} PROVE FALSE
    OBVIOUS
  <2>1. PICK k \in Bad : \A j \in Bad : k <= j
    <3>1. Bad \in SUBSET Nat
      BY <1>1
    <3> HIDE DEF Bad
    <3> QED BY <3>1, Least
  <2>2. k # 0
    <3>1. f[0] \in Seq(T) /\ f[k] \notin Seq(T)
      BY <1>0, <2>1
    <3> QED BY <3>1
  <2>3. k - 1 \in 0 .. Len(parts) /\ k - 1 \notin Bad /\ k \in 1 .. Len(parts)
    <3>1. k \in 0 .. Len(parts)
      BY <2>1
    <3>2. \A j \in Bad : k <= j
      BY <2>1
    <3> HIDE DEF Bad
    <3> QED BY <3>1, <3>2, <2>2, <1>1
  <2>4. f[k - 1] \in Seq(T) /\ parts[k] \in Seq(T)
    BY <2>3
  <2>5. f[k] = f[k - 1] \o parts[k] /\ f[k] \notin Seq(T)
    BY <1>0, <2>1, <2>3
  <2> HIDE DEF Bad
  <2>6. QED
    BY <2>4, <2>5
<1>3. \A k \in DOMAIN f : f[k] \in Seq(T)
  BY <1>0, <1>2
<1>4. QED
  <2> HIDE DEF Bad
  <2> QED BY <1>0, <1>3

(* Every sequence of parts can be joined. *)
LEMMA JoinExists ==
  ASSUME NEW T, NEW parts \in Seq(Seq(T))
  PROVE  \E f : Joined(f, parts)
<1> DEFINE Upto(k, f) == /\ f \in [0 .. k -> Seq(T)] /\ f[0] = <<>>
                         /\ \A i \in 1 .. k : f[i] = f[i - 1] \o parts[i]
           N == Len(parts)
           Bad == {k \in 0 .. N : ~ \E f : Upto(k, f)}
<1>0. N \in Nat
  OBVIOUS
<1>1. Bad = {}
  <2> SUFFICES ASSUME Bad # {} PROVE FALSE
    OBVIOUS
  <2>1. PICK k \in Bad : \A j \in Bad : k <= j
    <3> HIDE DEF Upto
    <3>1. Bad \in SUBSET Nat
      BY <1>0
    <3> HIDE DEF Bad
    <3> QED BY <3>1, Least
  <2>2. k # 0
    <3> DEFINE z == [i \in 0 .. 0 |-> <<>>]
    <3>1. z \in [0 .. 0 -> Seq(T)]
      OBVIOUS
    <3>2. Upto(0, z)
      BY <3>1
    <3> HIDE DEF z
    <3>3. \E f : Upto(0, f)
      BY <3>2
    <3> HIDE DEF Upto
    <3> QED BY <2>1, <3>3
  <2>3. k - 1 \in 0 .. N /\ k - 1 \notin Bad /\ k \in 1 .. N
    <3> HIDE DEF Upto
    <3>1. k \in 0 .. N /\ \A j \in Bad : k <= j
      BY <2>1
    <3> HIDE DEF Bad
    <3> QED BY <2>2, <3>1, <1>0
  <2>4. PICK f : Upto(k - 1, f)
    <3> HIDE DEF Upto
    <3> QED BY <2>3
  <2> DEFINE g == [i \in 0 .. k |-> IF i = k THEN f[k - 1] \o parts[k] ELSE f[i]]
  <2>5. f \in [0 .. (k - 1) -> Seq(T)] /\ f[0] = <<>>
    BY <2>4
  <2>6. parts[k] \in Seq(T) /\ f[k - 1] \in Seq(T) /\ k \in Nat
    BY <2>3, <2>5, <1>0
  <2>7. f[k - 1] \o parts[k] \in Seq(T)
    BY <2>6
  <2>8. g \in [0 .. k -> Seq(T)] /\ g[0] = <<>>
    <3>1. \A i \in 0 .. k : i # k => i \in 0 .. (k - 1)
      BY <2>6
    <3>2. 0 \in 0 .. k /\ 0 # k
      BY <2>3, <2>6
    <3> QED BY <2>5, <2>7, <3>1, <3>2
  <2>9. ASSUME NEW i \in 1 .. k PROVE g[i] = g[i - 1] \o parts[i]
    <3>1. CASE i = k
      <4>1. k - 1 # k /\ k - 1 \in 0 .. k /\ k \in 0 .. k
        BY <2>3, <2>6
      <4>2. g[k] = f[k - 1] \o parts[k] /\ g[k - 1] = f[k - 1]
        BY <4>1
      <4> HIDE DEF g
      <4> QED BY <3>1, <4>2
    <3>2. CASE i # k
      <4>1. i \in 1 .. (k - 1) /\ i - 1 # k
        BY <3>2, <2>6
      <4>2. g[i] = f[i] /\ g[i - 1] = f[i - 1]
        BY <4>1, <3>2, <2>6
      <4>3. f[i] = f[i - 1] \o parts[i]
        BY <2>4, <4>1
      <4> QED BY <4>2, <4>3
    <3> QED BY <3>1, <3>2
  <2>10. Upto(k, g)
    BY <2>8, <2>9
  <2> HIDE DEF g
  <2>11. \E ff : Upto(k, ff)
    BY <2>10
  <2> HIDE DEF Upto
  <2> QED BY <2>11
<1>2. PICK f : Upto(N, f)
  <2> HIDE DEF Upto
  <2>1. N \in 0 .. N
    BY <1>0
  <2> QED BY <1>1, <2>1
<1>3. Joined(f, parts)
  BY <1>2 DEF Joined
<1>4. QED
  BY <1>3

(* So Join is what they come to. *)
LEMMA JoinIsJoined ==
  ASSUME NEW T, NEW parts \in Seq(Seq(T))
  PROVE  Joined(Join(parts), parts) /\ Join(parts) \in [0 .. Len(parts) -> Seq(T)]
<1>1. Joined(Join(parts), parts)
  BY JoinExists DEF Join
<1> QED BY <1>1, JoinedType

(* FlattenSeq is defined by the whole of the joined sequences: it is the last. *)
LEMMA FlattenIsJoin ==
  ASSUME NEW T, NEW parts \in Seq(Seq(T))
  PROVE  FlattenSeq(parts) = Join(parts)[Len(parts)]
<1> DEFINE N == Len(parts)
<1>0. N \in Nat
  OBVIOUS
<1>1. CASE N = 0
  <2>1. parts = <<>> /\ FlattenSeq(parts) = parts
    BY <1>1 DEF FlattenSeq
  <2> QED BY <2>1, <1>1, JoinIsJoined DEF Joined
<1>2. CASE N # 0
  <2> DEFINE J == Join(parts)
             Part(f, i) == IF i = 1 THEN parts[i] ELSE f[i - 1] \o parts[i]
             flat == CHOOSE f : f = [i \in 1 .. N |-> Part(f, i)]
             g == [i \in 1 .. N |-> J[i]]
  <2>1. Joined(J, parts) /\ J \in [0 .. N -> Seq(T)]
    BY JoinIsJoined
  <2>0. J[0] = <<>> /\ \A i \in 1 .. N : J[i] = J[i - 1] \o parts[i]
    <3> HIDE DEF J
    <3> QED BY <2>1, Zenon DEF Joined
  <2>2. \A i \in 1 .. N : g[i] = Part(g, i)
    <3> SUFFICES ASSUME NEW i \in 1 .. N PROVE J[i] = Part(g, i)
      OBVIOUS
    <3>1. J[i] = J[i - 1] \o parts[i] /\ J[0] = <<>> /\ parts[i] \in Seq(T)
      <4>1. parts[i] \in Seq(T)
        BY <1>0
      <4> HIDE DEF J, g
      <4> QED BY <2>0, <4>1
    <3> HIDE DEF J, g
    <3>2. CASE i = 1
      <4>0. i - 1 = 0
        BY <3>2
      <4>1. J[1] = J[0] \o parts[1]
        BY <3>1, <3>2, <4>0
      <4>2. J[1] = <<>> \o parts[1]
        BY <3>1, <4>1
      <4>3. J[1] = parts[1]
        BY <3>1, <3>2, <4>2
      <4> QED BY <3>2, <4>3
    <3>3. CASE i # 1
      <4>1. i - 1 \in 1 .. N
        BY <3>3, <1>0
      <4>2. g[i - 1] = J[i - 1]
        BY <4>1 DEF g
      <4> QED BY <3>1, <3>3, <4>2
    <3> QED BY <3>2, <3>3
  <2>3. g = [i \in 1 .. N |-> Part(g, i)]
    BY <2>2
  <2>4. flat = [i \in 1 .. N |-> Part(flat, i)]
    <3> HIDE DEF g, Part
    <3> QED BY <2>3
  <2>5. FlattenSeq(parts) = flat[N]
    BY <1>2 DEF FlattenSeq
  <2> HIDE DEF flat
  <2> DEFINE h == [k \in 0 .. N |-> IF k = 0 THEN <<>> ELSE flat[k]]
  <2>6. \A k \in 1 .. N : h[k] = h[k - 1] \o parts[k]
    <3> SUFFICES ASSUME NEW k \in 1 .. N PROVE h[k] = h[k - 1] \o parts[k]
      OBVIOUS
    <3>1. parts[k] \in Seq(T) /\ k - 1 \in 0 .. N /\ k \in 0 .. N
      BY <1>0
    <3>2. flat[k] = Part(flat, k)
      <4> HIDE DEF Part
      <4> QED BY <2>4
    <3>3. h[k] = flat[k] /\ h[k - 1] = IF k = 1 THEN <<>> ELSE flat[k - 1]
      BY <3>1
    <3> HIDE DEF h
    <3>4. CASE k = 1
      BY <3>1, <3>2, <3>3, <3>4
    <3>5. CASE k # 1
      BY <3>2, <3>3, <3>5
    <3> QED BY <3>4, <3>5
  <2>7. Joined(h, parts)
    <3>1. DOMAIN h = 0 .. N /\ h = [k \in 0 .. N |-> h[k]] /\ h[0] = <<>>
      BY <1>0
    <3> HIDE DEF h
    <3> QED BY <2>6, <3>1 DEF Joined
  <2>8. h[N] = J[N]
    <3> HIDE DEF h, J
    <3>1. N <= N /\ \A k \in 1 .. N : parts[k] = parts[k]
      BY <1>0
    <3>2. \A k \in 0 .. N : h[k] = J[k]
      BY <2>1, <2>7, <1>0, <3>1, JoinedOnce
    <3> QED BY <3>2, <1>0
  <2>9. QED
    BY <2>5, <2>8, <1>2, <1>0
<1>3. QED
  BY <1>1, <1>2

(* One more part is one more concatenation. *)
LEMMA FlattenAppend ==
  ASSUME NEW T, NEW parts \in Seq(Seq(T)), NEW x \in Seq(T)
  PROVE  /\ FlattenSeq(Append(parts, x)) = FlattenSeq(parts) \o x
         /\ FlattenSeq(parts) \in Seq(T)
<1> DEFINE longer == Append(parts, x)
           N == Len(parts)
<1>1. longer \in Seq(Seq(T)) /\ N \in Nat /\ Len(longer) = N + 1 /\ longer[N + 1] = x
      /\ \A k \in 1 .. N : parts[k] = longer[k]
  OBVIOUS
<1> HIDE DEF longer
<1>2. /\ Joined(Join(longer), longer) /\ Joined(Join(parts), parts)
      /\ Join(parts) \in [0 .. N -> Seq(T)]
  BY <1>1, JoinIsJoined
<1>3. Join(longer)[N] = Join(parts)[N]
  <2>1. N <= Len(longer) /\ N <= Len(parts) /\ Len(longer) \in Nat /\ N \in 0 .. N
    BY <1>1
  <2> DEFINE f == Join(parts)
             g == Join(longer)
  <2>2. Joined(f, parts) /\ Joined(g, longer)
    BY <1>2
  <2> HIDE DEF f, g
  <2>3. Len(parts) \in Nat /\ N <= Len(parts) /\ N <= Len(longer) /\ Len(longer) \in Nat
        /\ \A k \in 1 .. N : parts[k] = longer[k]
    BY <1>1, <2>1
  <2>4. \A k \in 0 .. N : f[k] = g[k]
    <3> HIDE DEF N
    <3>1. N \in Nat
      BY <1>1
    <3> QED BY <2>2, <2>3, <3>1, JoinedOnce
  <2> QED BY <2>1, <2>4 DEF f, g
<1>4. Join(longer)[N + 1] = Join(longer)[N] \o x
  <2>1. N + 1 \in 1 .. Len(longer) /\ (N + 1) - 1 = N
    BY <1>1
  <2>2. Join(longer)[N + 1] = Join(longer)[(N + 1) - 1] \o longer[N + 1]
    BY <1>2, <2>1 DEF Joined
  <2> QED BY <2>1, <2>2, <1>1
<1>5. /\ FlattenSeq(longer) = Join(longer)[N + 1] /\ FlattenSeq(parts) = Join(parts)[N]
  BY <1>1, FlattenIsJoin
<1>6. Join(parts)[N] \in Seq(T)
  BY <1>1, <1>2
<1>7. QED
  BY <1>3, <1>4, <1>5, <1>6 DEF longer

(* Where the elements of a part are in the whole. *)
LEMMA FlattenPosition ==
  ASSUME NEW T, NEW parts \in Seq(Seq(T)), NEW i \in 0 .. Len(parts)
  PROVE  /\ Join(parts)[i] \in Seq(T)
         /\ Len(Join(parts)[i]) <= Len(FlattenSeq(parts))
         /\ \A p \in 1 .. Len(Join(parts)[i]) : FlattenSeq(parts)[p] = Join(parts)[i][p]
<1> DEFINE N == Len(parts)
           J == Join(parts)
           Begins(k) == /\ Len(J[i]) <= Len(J[k])
                        /\ \A p \in 1 .. Len(J[i]) : J[k][p] = J[i][p]
           Bad == {k \in i .. N : ~Begins(k)}
<1>1. N \in Nat /\ Joined(J, parts) /\ J \in [0 .. N -> Seq(T)] /\ FlattenSeq(parts) = J[N]
  BY JoinIsJoined, FlattenIsJoin
<1>2. J[i] \in Seq(T) /\ i \in Nat
  BY <1>1
<1>3. Bad = {}
  <2> SUFFICES ASSUME Bad # {} PROVE FALSE
    OBVIOUS
  <2>1. PICK k \in Bad : \A j \in Bad : k <= j
    <3>1. Bad \in SUBSET Nat
      BY <1>1, <1>2
    <3> HIDE DEF Bad
    <3> QED BY <3>1, Least
  <2>2. k # i
    <3>1. Begins(i)
      BY <1>2
    <3> HIDE DEF Begins
    <3> QED BY <2>1, <3>1
  <2>3. k - 1 \in i .. N /\ k - 1 \notin Bad /\ k \in 1 .. N /\ k - 1 \in 0 .. N
    <3> HIDE DEF Begins
    <3>1. k \in i .. N /\ \A j \in Bad : k <= j
      BY <2>1
    <3> HIDE DEF Bad
    <3> QED BY <2>2, <3>1, <1>1, <1>2
  <2>4. Begins(k - 1)
    <3> HIDE DEF Begins
    <3> QED BY <2>3
  <2> HIDE DEF J, Bad
  <2>5. J[k] = J[k - 1] \o parts[k]
    BY <1>1, <2>3 DEF Joined
  <2>6. J[k - 1] \in Seq(T) /\ parts[k] \in Seq(T)
    BY <1>1, <2>3
  <2>7. /\ Len(J[k]) = Len(J[k - 1]) + Len(parts[k])
        /\ \A p \in 1 .. Len(J[k - 1]) : J[k][p] = J[k - 1][p]
    <3> DEFINE s == J[k - 1]
               t == parts[k]
    <3>1. s \in Seq(T) /\ t \in Seq(T) /\ J[k] = s \o t
      BY <2>5, <2>6
    <3> HIDE DEF s, t
    <3>2. Len(s \o t) = Len(s) + Len(t) /\ \A p \in 1 .. Len(s) : (s \o t)[p] = s[p]
      BY <3>1
    <3> QED BY <3>1, <3>2 DEF s, t
  <2>8. Len(J[k - 1]) \in Nat /\ Len(parts[k]) \in Nat /\ Len(J[i]) \in Nat
    BY <2>6, <1>2
  <2>9. Begins(k)
    <3>1. Len(J[i]) <= Len(J[k - 1]) /\ \A p \in 1 .. Len(J[i]) : J[k - 1][p] = J[i][p]
      BY Zenon, <2>4
    <3>2. Len(J[i]) <= Len(J[k])
      <4> DEFINE a == Len(J[i])
                 b == Len(J[k - 1])
                 c == Len(parts[k])
                 d == Len(J[k])
      <4>1. a <= b /\ d = b + c /\ a \in Nat /\ b \in Nat /\ c \in Nat
        BY <3>1, <2>7, <2>8
      <4> HIDE DEF a, b, c, d
      <4>2. a <= d
        BY <4>1
      <4> QED BY <4>2 DEF a, d
    <3>3. \A p \in 1 .. Len(J[i]) : p \in 1 .. Len(J[k - 1])
      BY <3>1, <2>8
    <3> QED BY <3>1, <3>2, <3>3, <2>7
  <2> HIDE DEF Begins
  <2> QED BY <2>9 DEF Bad
<1>4. Begins(N)
  <2>1. N \in i .. N
    BY <1>1, <1>2
  <2> HIDE DEF Begins
  <2> QED BY <1>3, <2>1
<1>5. QED
  BY <1>1, <1>2, <1>4

-----------------------------------------------------------------------------
(* What has been heard, for any output and any gateway.  Of a stream that is
   at the j-th event of its i-th item, all of the items before has been heard,
   and of that item what its events so far tell.                            *)

Piece == Nat \X Nat
Text == Seq(Piece)
StreamEvent ==
  [type : {"text", "reasoning", "reasoning done", "call added", "arguments", "call done"},
   item : Nat, text : Text]
(* The functions on some numbers. *)
Partial(T) == UNION {[D -> T] : D \in SUBSET Nat}

Hearing ==
  [content : Text, told : Seq(Text), spoken : SUBSET Nat,
   calls : Partial(Text), any : BOOLEAN]

Texts(items, kind) == [i \in DOMAIN items |-> IF items[i] = kind THEN Pieces(i) ELSE <<>>]
Parts(items, style) == [i \in DOMAIN items |-> EventsOf(i, items[i], style)]

(* The text of a kind in the first i items. *)
Upto(items, kind, i) == Join(Texts(items, kind))[i]

(* What j deltas of an item say. *)
Saying(i, j) == IF j = 0 THEN <<>> ELSE IF j = 1 THEN <<<<i, 1>>>> ELSE Pieces(i)

Begun(i, j, k) == k <= i \/ (k = i + 1 /\ j > 0)
IsNext(items, i, kind) == i < Len(items) /\ items[i + 1] = kind

HeardText(h, items, style, i, j) ==
  h.content = IF ~style.text THEN <<>>
              ELSE Upto(items, "message", i)
                     \o IF IsNext(items, i, "message") THEN Saying(i + 1, j) ELSE <<>>

(* All of the reasoning is told before the last event, or none. *)
Full(items, style) == style.finished \/ style.reasoning = OfKind(items, "reasoning")
Unspoken(style) == ~style.finished /\ style.reasoning = {}

HeardReasoning(h, items, style, i, j) ==
  /\ h.spoken = {k \in style.reasoning : Begun(i, j, k)}
  /\ Full(items, style) =>
       FlattenSeq(h.told) =
         Upto(items, "reasoning", i)
           \o IF ~IsNext(items, i, "reasoning") THEN <<>>
              ELSE IF i + 1 \in style.reasoning THEN Saying(i + 1, j)
              ELSE IF j = 0 THEN <<>> ELSE Pieces(i + 1)
  /\ Unspoken(style) => h.told = <<>>

(* The calls are complete before the last event. *)
Streamed(style) == style.finished \/ (style.arguments /\ ~style.early)

HeardCalls(h, items, style, i, j) ==
  /\ DOMAIN h.calls = {k \in OfKind(items, "call") : Begun(i, j, k)}
  /\ Streamed(style) =>
       \A k \in DOMAIN h.calls :
         /\ k <= i => h.calls[k] = Pieces(k)
         /\ k = i + 1 /\ ~style.finished => h.calls[k] = Saying(k, j - 1)
         /\ k = i + 1 /\ j = Len(EventsOf(k, items[k], style)) => h.calls[k] = Pieces(k)

Heard(h, items, style, i, j) ==
  /\ HeardText(h, items, style, i, j)
  /\ HeardReasoning(h, items, style, i, j)
  /\ HeardCalls(h, items, style, i, j)

LEMMA Appending ==
  ASSUME NEW T, NEW s \in Seq(T), NEW x \in T
  PROVE  Append(s, x) \in Seq(T)
OBVIOUS

(* Concatenation is associative, and nothing adds nothing. *)
LEMMA Concatenating ==
  ASSUME NEW T, NEW s \in Seq(T), NEW t \in Seq(T), NEW u \in Seq(T)
  PROVE  /\ s \o t \in Seq(T)
         /\ (s \o t) \o u = s \o (t \o u)
         /\ s \o <<>> = s /\ <<>> \o s = s
         /\ s \o t = <<>> => s = <<>> /\ t = <<>>
OBVIOUS

(* Where the elements of two sequences are in their concatenation. *)
LEMMA Positions ==
  ASSUME NEW T, NEW s \in Seq(T), NEW t \in Seq(T)
  PROVE  /\ s \o t \in Seq(T) /\ Len(s \o t) = Len(s) + Len(t)
         /\ Len(s) \in Nat /\ Len(t) \in Nat
         /\ \A k \in 1 .. Len(s) : (s \o t)[k] = s[k]
         /\ \A k \in 1 .. Len(t) : (s \o t)[Len(s) + k] = t[k]
OBVIOUS

(* A partial function has a set of numbers as its domain. *)
LEMMA PartialFunction ==
  ASSUME NEW T, NEW f
  PROVE  f \in Partial(T) <=> \E D \in SUBSET Nat : f \in [D -> T]
BY DEF Partial

(* Sequences with the same elements are the same. *)
LEMMA SameElements ==
  ASSUME NEW T, NEW s \in Seq(T), NEW t \in Seq(T), Len(s) = Len(t),
         \A k \in 1 .. Len(s) : s[k] = t[k]
  PROVE  s = t
OBVIOUS

(* Sequences of one and of two elements. *)
LEMMA ShortSequences ==
  ASSUME NEW T, NEW x \in T, NEW y \in T
  PROVE  /\ <<x, y>> \in Seq(T) /\ <<x>> \in Seq(T) /\ <<>> \in Seq(T)
         /\ <<x>> \o <<y>> = <<x, y>> /\ <<x, y>> # <<>> /\ <<x>> # <<>>
         /\ Len(<<x, y>>) = 2 /\ <<x, y>>[1] = x /\ <<x, y>>[2] = y
<1>1. <<x, y>> \in Seq(T) /\ <<x>> \in Seq(T) /\ <<>> \in Seq(T)
  OBVIOUS
<1>2. Len(<<x, y>>) = 2 /\ <<x, y>>[1] = x /\ <<x, y>>[2] = y
  OBVIOUS
<1>3. <<x>> \o <<y>> = <<x, y>>
  <2> DEFINE s == <<x>>
             t == <<y>>
             u == <<x, y>>
  <2>1. /\ s \in Seq(T) /\ t \in Seq(T) /\ u \in Seq(T)
        /\ Len(s) = 1 /\ Len(t) = 1 /\ Len(u) = 2 /\ s[1] = x /\ t[1] = y /\ u[1] = x /\ u[2] = y
    OBVIOUS
  <2> HIDE DEF s, t, u
  <2>2. /\ s \o t \in Seq(T) /\ Len(s \o t) = 2
        /\ (s \o t)[1] = s[1] /\ (s \o t)[2] = t[1]
    <3>1. /\ s \o t \in Seq(T) /\ Len(s \o t) = Len(s) + Len(t)
          /\ \A k \in 1 .. Len(s) : (s \o t)[k] = s[k]
          /\ \A k \in 1 .. Len(t) : (s \o t)[Len(s) + k] = t[k]
      BY <2>1, Positions
    <3>2. (s \o t)[Len(s) + 1] = t[1]
      BY <2>1, <3>1
    <3> QED BY <2>1, <3>1, <3>2
  <2>3. \A k \in 1 .. Len(u) : (s \o t)[k] = u[k]
    <3>1. \A k \in 1 .. Len(u) : k = 1 \/ k = 2
      BY <2>1
    <3> QED BY <2>1, <2>2, <3>1
  <2>4. s \o t = u
    BY <2>1, <2>2, <2>3, SameElements
  <2> QED BY <2>4 DEF s, t, u
<1>4. <<x, y>> # <<>> /\ <<x>> # <<>>
  OBVIOUS
<1> QED BY <1>1, <1>2, <1>3, <1>4

(* The text of an item, and its two deltas. *)
LEMMA PiecesType ==
  ASSUME NEW i \in Nat
  PROVE  /\ Pieces(i) \in Text /\ <<<<i, 1>>>> \in Text /\ <<<<i, 2>>>> \in Text /\ <<>> \in Text
         /\ <<<<i, 1>>>> \o <<<<i, 2>>>> = Pieces(i) /\ Pieces(i) # <<>> /\ <<<<i, 1>>>> # <<>>
         /\ <<>> \o <<<<i, 1>>>> = <<<<i, 1>>>> /\ <<>> \o Pieces(i) = Pieces(i)
<1> DEFINE x == <<i, 1>>
           y == <<i, 2>>
<1>1. x \in Piece /\ y \in Piece
  BY DEF Piece
<1>2. Pieces(i) = <<x, y>>
  BY DEF Pieces
<1> HIDE DEF x, y
<1>3. /\ <<x, y>> \in Seq(Piece) /\ <<x>> \in Seq(Piece) /\ <<y>> \in Seq(Piece) /\ <<>> \in Seq(Piece)
      /\ <<x>> \o <<y>> = <<x, y>> /\ <<x, y>> # <<>> /\ <<x>> # <<>>
  BY <1>1, ShortSequences
<1>4. <<>> \o <<x>> = <<x>> /\ <<>> \o <<x, y>> = <<x, y>>
  BY <1>3, Concatenating
<1> QED BY <1>2, <1>3, <1>4 DEF x, y, Text

(* An output is a sequence of kinds. *)
LEMMA ItemsType ==
  ASSUME NEW items \in Outputs, MaxItems \in Nat
  PROVE  /\ items \in Seq(Kinds) /\ Len(items) \in Nat /\ DOMAIN items = 1 .. Len(items)
         /\ \A i \in 0 .. Len(items) : i \in Nat
         /\ \A i \in DOMAIN items : i \in Nat /\ items[i] \in Kinds
<1>1. PICK n \in 0 .. MaxItems : items \in [1 .. n -> Kinds]
  BY DEF Outputs
<1> QED BY <1>1

(* The events of an item, by its kind. *)
LEMMA MessageEvents ==
  ASSUME NEW i \in Nat, NEW style \in Styles
  PROVE  LET E == EventsOf(i, "message", style) IN
         /\ E \in Seq(StreamEvent)
         /\ Len(E) = IF style.text THEN 2 ELSE 0
         /\ style.text => E[1] = Event("text", i, <<<<i, 1>>>>) /\ E[2] = Event("text", i, <<<<i, 2>>>>)
<1> DEFINE x == Event("text", i, <<<<i, 1>>>>)
           y == Event("text", i, <<<<i, 2>>>>)
<1>1. x \in StreamEvent /\ y \in StreamEvent
  BY PiecesType DEF Event, StreamEvent
<1>2. EventsOf(i, "message", style) = When(style.text, Deltas("text", i))
  BY DEF EventsOf
<1>3. style.text \in BOOLEAN
  BY DEF Styles
<1>4. EventsOf(i, "message", style) = IF style.text THEN <<x, y>> ELSE <<>>
  BY <1>2 DEF Deltas, When
<1> HIDE DEF x, y
<1>5. /\ <<x, y>> \in Seq(StreamEvent) /\ <<>> \in Seq(StreamEvent)
      /\ Len(<<x, y>>) = 2 /\ <<x, y>>[1] = x /\ <<x, y>>[2] = y /\ Len(<<>>) = 0
  BY <1>1, ShortSequences
<1>6. /\ EventsOf(i, "message", style) \in Seq(StreamEvent)
      /\ Len(EventsOf(i, "message", style)) = IF style.text THEN 2 ELSE 0
      /\ style.text => /\ EventsOf(i, "message", style)[1] = x
                       /\ EventsOf(i, "message", style)[2] = y
  BY <1>3, <1>4, <1>5
<1> QED BY <1>6 DEF x, y

(* Reasoning has its deltas where the style has them, and its end. *)
LEMMA ReasoningEvents ==
  ASSUME NEW i \in Nat, NEW style \in Styles
  PROVE  LET E == EventsOf(i, "reasoning", style)
             d == IF i \in style.reasoning THEN 2 ELSE 0 IN
         /\ E \in Seq(StreamEvent)
         /\ Len(E) = d + IF style.finished THEN 1 ELSE 0
         /\ i \in style.reasoning => /\ E[1] = Event("reasoning", i, <<<<i, 1>>>>)
                                     /\ E[2] = Event("reasoning", i, <<<<i, 2>>>>)
         /\ style.finished => E[d + 1] = Event("reasoning done", i, Pieces(i))
<1> DEFINE x == Event("reasoning", i, <<<<i, 1>>>>)
           y == Event("reasoning", i, <<<<i, 2>>>>)
           z == Event("reasoning done", i, Pieces(i))
           s == When(i \in style.reasoning, Deltas("reasoning", i))
           t == When(style.finished, <<z>>)
<1>1. x \in StreamEvent /\ y \in StreamEvent /\ z \in StreamEvent
  BY PiecesType DEF Event, StreamEvent
<1>2. EventsOf(i, "reasoning", style) = s \o t
  BY DEF EventsOf
<1>3. style.finished \in BOOLEAN
  BY DEF Styles
<1>4. s = (IF i \in style.reasoning THEN <<x, y>> ELSE <<>>) /\ t = (IF style.finished THEN <<z>> ELSE <<>>)
  BY DEF Deltas, When
<1> HIDE DEF x, y, z, s, t
<1>5. s \in Seq(StreamEvent) /\ t \in Seq(StreamEvent)
  BY <1>1, <1>4
<1>6. Len(s) = (IF i \in style.reasoning THEN 2 ELSE 0) /\ Len(t) = (IF style.finished THEN 1 ELSE 0)
  BY <1>4
<1>7. /\ s \o t \in Seq(StreamEvent) /\ Len(s \o t) = Len(s) + Len(t)
      /\ \A k \in 1 .. Len(s) : (s \o t)[k] = s[k]
      /\ \A k \in 1 .. Len(t) : (s \o t)[Len(s) + k] = t[k]
  BY <1>5
<1>8. i \in style.reasoning => (s \o t)[1] = x /\ (s \o t)[2] = y
  BY <1>4, <1>6, <1>7
<1>9. style.finished => (s \o t)[Len(s) + 1] = z
  BY <1>4, <1>6, <1>7
<1> QED BY <1>2, <1>3, <1>6, <1>7, <1>8, <1>9 DEF x, y, z

(* A call has a beginning, its arguments, and its end. *)
LEMMA CallEvents ==
  ASSUME NEW i \in Nat, NEW style \in Styles
  PROVE  LET E == EventsOf(i, "call", style)
             d == IF style.arguments THEN 3 ELSE 1 IN
         /\ E \in Seq(StreamEvent)
         /\ Len(E) = d + IF style.finished THEN 1 ELSE 0
         /\ E[1] = Event("call added", i, IF style.early THEN Pieces(i) ELSE <<>>)
         /\ style.arguments => /\ E[2] = Event("arguments", i, <<<<i, 1>>>>)
                               /\ E[3] = Event("arguments", i, <<<<i, 2>>>>)
         /\ style.finished => E[d + 1] = Event("call done", i, Pieces(i))
<1> DEFINE w == Event("call added", i, IF style.early THEN Pieces(i) ELSE <<>>)
           x == Event("arguments", i, <<<<i, 1>>>>)
           y == Event("arguments", i, <<<<i, 2>>>>)
           z == Event("call done", i, Pieces(i))
           s == When(style.arguments, Deltas("arguments", i))
           t == When(style.finished, <<z>>)
           u == <<w>> \o s
<1>1. w \in StreamEvent /\ x \in StreamEvent /\ y \in StreamEvent /\ z \in StreamEvent
  BY PiecesType DEF Event, StreamEvent
<1>2. EventsOf(i, "call", style) = u \o t
  BY DEF EventsOf
<1>3. style.finished \in BOOLEAN /\ style.arguments \in BOOLEAN
  BY DEF Styles
<1>4. s = (IF style.arguments THEN <<x, y>> ELSE <<>>) /\ t = (IF style.finished THEN <<z>> ELSE <<>>)
  BY DEF Deltas, When
<1> HIDE DEF w, x, y, z, s, t
<1>5. <<w>> \in Seq(StreamEvent) /\ s \in Seq(StreamEvent) /\ t \in Seq(StreamEvent)
  BY <1>1, <1>4
<1>6. Len(s) = (IF style.arguments THEN 2 ELSE 0) /\ Len(t) = (IF style.finished THEN 1 ELSE 0)
  BY <1>4
<1>7. /\ u \in Seq(StreamEvent) /\ Len(u) = 1 + Len(s) /\ u[1] = w
      /\ \A k \in 1 .. Len(s) : u[1 + k] = s[k]
  BY <1>5
<1>8. Len(u) = (IF style.arguments THEN 3 ELSE 1) /\ (style.arguments => u[2] = x /\ u[3] = y)
  <2>1. style.arguments => u[1 + 1] = x /\ u[1 + 2] = y
    <3> HIDE DEF u
    <3> QED BY <1>4, <1>6, <1>7
  <2> HIDE DEF u
  <2> QED BY <1>6, <1>7, <2>1
<1> HIDE DEF u
<1>9. /\ u \o t \in Seq(StreamEvent) /\ Len(u \o t) = Len(u) + Len(t)
      /\ \A k \in 1 .. Len(u) : (u \o t)[k] = u[k]
      /\ \A k \in 1 .. Len(t) : (u \o t)[Len(u) + k] = t[k]
  <2>1. u \in Seq(StreamEvent) /\ t \in Seq(StreamEvent)
    BY <1>5, <1>7
  <2> QED BY <2>1
<1>10. /\ (u \o t)[1] = w
       /\ style.arguments => (u \o t)[2] = x /\ (u \o t)[3] = y
  BY <1>7, <1>8, <1>9
<1>11. style.finished => (u \o t)[Len(u) + 1] = z
  BY <1>4, <1>6, <1>9
<1> QED BY <1>2, <1>3, <1>6, <1>8, <1>9, <1>10, <1>11 DEF w, x, y, z

(* The texts of a kind, item by item. *)
LEMMA UptoGrows ==
  ASSUME MaxItems \in Nat, NEW items \in Outputs, NEW kind
  PROVE  /\ Upto(items, kind, 0) = <<>>
         /\ \A i \in 0 .. Len(items) : Upto(items, kind, i) \in Text
         /\ \A i \in 0 .. Len(items) - 1 :
              Upto(items, kind, i + 1) =
                Upto(items, kind, i) \o IF items[i + 1] = kind THEN Pieces(i + 1) ELSE <<>>
         /\ TextOf(items, kind) = Upto(items, kind, Len(items))
<1> DEFINE parts == Texts(items, kind)
           n == Len(items)
<1>1. /\ n \in Nat /\ DOMAIN items = 1 .. n
      /\ \A i \in DOMAIN items : i \in Nat
  BY ItemsType
<1>2. \A i \in 1 .. n : /\ parts[i] = (IF items[i] = kind THEN Pieces(i) ELSE <<>>)
                        /\ parts[i] \in Seq(Piece)
  BY <1>1, PiecesType DEF Texts, Text
<1>3. parts \in Seq(Seq(Piece)) /\ Len(parts) = n
  BY <1>1, <1>2 DEF Texts
<1> HIDE DEF parts
<1>4. /\ Joined(Join(parts), parts) /\ Join(parts) \in [0 .. n -> Seq(Piece)]
      /\ FlattenSeq(parts) = Join(parts)[n]
  BY <1>3, JoinIsJoined, FlattenIsJoin
<1>5. ASSUME NEW i \in 0 .. n - 1
      PROVE  Join(parts)[i + 1] = Join(parts)[i] \o parts[i + 1]
  <2>1. i + 1 \in 1 .. n /\ (i + 1) - 1 = i
    BY <1>1
  <2>2. Join(parts)[i + 1] = Join(parts)[(i + 1) - 1] \o parts[i + 1]
    BY <1>3, <1>4, <2>1 DEF Joined
  <2> QED BY <2>1, <2>2
<1>6. Join(parts)[0] = <<>>
  BY <1>4 DEF Joined
<1>7. TextOf(items, kind) = FlattenSeq(parts)
  BY DEF TextOf, parts, Texts
<1>8. \A i \in 0 .. n - 1 : i + 1 \in 1 .. n
  BY <1>1
<1> QED BY <1>2, <1>4, <1>5, <1>6, <1>7, <1>8 DEF Upto, Text, parts

(* What an event changes. *)
LEMMA HearChanges ==
  ASSUME NEW h \in Hearing, NEW e \in StreamEvent
  PROVE  LET g == Hear(h, e) IN
    /\ g \in Hearing
    /\ g.content = IF e.type = "text" THEN h.content \o e.text ELSE h.content
    /\ g.told = IF e.type = "reasoning" \/ (e.type = "reasoning done" /\ e.item \notin h.spoken)
                THEN Append(h.told, e.text) ELSE h.told
    /\ g.spoken = IF e.type = "reasoning" THEN h.spoken \cup {e.item} ELSE h.spoken
    /\ g.calls = IF (e.type = "call added" /\ CallOf(h, e.item) = <<>>) \/ e.type \in {"arguments", "call done"}
                 THEN [k \in DOMAIN h.calls \cup {e.item} |->
                         IF k # e.item THEN h.calls[k]
                         ELSE IF e.type = "arguments" THEN CallOf(h, e.item) \o e.text ELSE e.text]
                 ELSE h.calls
<1> DEFINE g == Hear(h, e)
<1>0. /\ h.content \in Text /\ h.told \in Seq(Text) /\ h.spoken \in SUBSET Nat /\ h.any \in BOOLEAN
      /\ e.item \in Nat /\ e.text \in Text
      /\ e.type \in {"text", "reasoning", "reasoning done", "call added", "arguments", "call done"}
  BY DEF Hearing, StreamEvent
<1>1. PICK D \in SUBSET Nat : h.calls \in [D -> Text]
  <2>1. h.calls \in Partial(Text)
    BY DEF Hearing
  <2> QED BY <2>1, PartialFunction
<1>2. CallOf(h, e.item) \in Text
  <2>1. <<>> \in Text
    BY DEF Text
  <2> QED BY <1>1, <2>1 DEF CallOf
<1>3. ASSUME NEW text \in Text
      PROVE  /\ PutCall(h, e.item, text) =
                  [h EXCEPT !.calls = [k \in DOMAIN h.calls \cup {e.item} |->
                                         IF k # e.item THEN h.calls[k] ELSE text]]
             /\ PutCall(h, e.item, text) \in Hearing
  <2> DEFINE f == [k \in DOMAIN h.calls \cup {e.item} |-> IF k = e.item THEN text ELSE h.calls[k]]
             ff == [k \in DOMAIN h.calls \cup {e.item} |-> IF k # e.item THEN h.calls[k] ELSE text]
  <2>1. f \in [D \cup {e.item} -> Text] /\ D \cup {e.item} \in SUBSET Nat
    BY <1>0, <1>1
  <2>2. f \in Partial(Text)
    BY <2>1, PartialFunction
  <2>3. f = ff
    OBVIOUS
  <2>4. PutCall(h, e.item, text) = [h EXCEPT !.calls = f]
    BY DEF PutCall
  <2> HIDE DEF f, ff
  <2>5. [h EXCEPT !.calls = f] \in Hearing
    BY <2>2 DEF Hearing
  <2> QED BY <2>3, <2>4, <2>5 DEF ff
<1>4. CASE e.type = "text"
  <2>1. g = [h EXCEPT !.content = h.content \o e.text]
    BY <1>4 DEF Hear
  <2>2. h.content \o e.text \in Text
    BY <1>0, Concatenating DEF Text
  <2> QED BY <1>4, <2>1, <2>2 DEF Hearing
<1>5. CASE e.type = "reasoning"
  <2>1. g = [h EXCEPT !.told = Append(h.told, e.text), !.spoken = h.spoken \cup {e.item}]
    BY <1>5 DEF Hear, Tell, Hearing
  <2>2. Append(h.told, e.text) \in Seq(Text) /\ h.spoken \cup {e.item} \in SUBSET Nat
    BY <1>0, Appending
  <2> QED BY <1>5, <2>1, <2>2 DEF Hearing
<1>6. CASE e.type = "reasoning done"
  <2>1. g = IF e.item \in h.spoken THEN h ELSE [h EXCEPT !.told = Append(h.told, e.text)]
    BY <1>6 DEF Hear, HearDone, Tell
  <2>2. Append(h.told, e.text) \in Seq(Text)
    BY <1>0, Appending
  <2> QED BY <1>6, <2>1, <2>2 DEF Hearing
<1>7. CASE e.type = "call added"
  <2> DEFINE f == [k \in DOMAIN h.calls \cup {e.item} |->
                     IF k # e.item THEN h.calls[k] ELSE e.text]
  <2>1. g = IF CallOf(h, e.item) = <<>> THEN PutCall(h, e.item, e.text) ELSE h
    BY <1>7 DEF Hear
  <2>2. CASE CallOf(h, e.item) = <<>>
    <3>1. g = [h EXCEPT !.calls = f] /\ g \in Hearing
      BY <1>0, <1>3, <2>1, <2>2
    <3>2. g.calls = f /\ g.content = h.content /\ g.told = h.told /\ g.spoken = h.spoken
      <4> HIDE DEF f, g
      <4> QED BY <3>1 DEF Hearing
    <3>3. f = [k \in DOMAIN h.calls \cup {e.item} |->
            IF k # e.item THEN h.calls[k]
            ELSE IF e.type = "arguments" THEN CallOf(h, e.item) \o e.text ELSE e.text]
      BY <1>7
    <3> HIDE DEF f
    <3> QED BY <1>7, <2>2, <3>1, <3>2, <3>3
  <2>3. CASE CallOf(h, e.item) # <<>>
    BY <1>7, <2>1, <2>3
  <2> QED BY <2>2, <2>3
<1>8. CASE e.type = "arguments"
  <2> DEFINE f == [k \in DOMAIN h.calls \cup {e.item} |->
                     IF k # e.item THEN h.calls[k] ELSE CallOf(h, e.item) \o e.text]
  <2>1. g = PutCall(h, e.item, CallOf(h, e.item) \o e.text)
    BY <1>8 DEF Hear
  <2>2. CallOf(h, e.item) \o e.text \in Text
    BY <1>0, <1>2, Concatenating DEF Text
  <2>3. g = [h EXCEPT !.calls = f] /\ g \in Hearing
    BY <1>3, <2>1, <2>2
  <2>4. g.calls = f /\ g.content = h.content /\ g.told = h.told /\ g.spoken = h.spoken
    <3> HIDE DEF f, g
    <3> QED BY <2>3 DEF Hearing
  <2>5. f = [k \in DOMAIN h.calls \cup {e.item} |->
            IF k # e.item THEN h.calls[k]
            ELSE IF e.type = "arguments" THEN CallOf(h, e.item) \o e.text ELSE e.text]
    BY <1>8
  <2> HIDE DEF f
  <2> QED BY <1>8, <2>3, <2>4, <2>5
<1>9. CASE e.type = "call done"
  <2> DEFINE f == [k \in DOMAIN h.calls \cup {e.item} |->
                     IF k # e.item THEN h.calls[k] ELSE e.text]
  <2>1. g = PutCall(h, e.item, e.text)
    BY <1>9 DEF Hear
  <2>2. e.text \in Text
    BY <1>0, <1>2, Concatenating DEF Text
  <2>3. g = [h EXCEPT !.calls = f] /\ g \in Hearing
    BY <1>3, <2>1, <2>2
  <2>4. g.calls = f /\ g.content = h.content /\ g.told = h.told /\ g.spoken = h.spoken
    <3> HIDE DEF f, g
    <3> QED BY <2>3 DEF Hearing
  <2>5. f = [k \in DOMAIN h.calls \cup {e.item} |->
            IF k # e.item THEN h.calls[k]
            ELSE IF e.type = "arguments" THEN CallOf(h, e.item) \o e.text ELSE e.text]
    BY <1>9
  <2> HIDE DEF f
  <2> QED BY <1>9, <2>3, <2>4, <2>5
<1> QED BY <1>0, <1>4, <1>5, <1>6, <1>7, <1>8, <1>9

-----------------------------------------------------------------------------
(* The next event of an item of each kind. *)

(* What the event after the j-th of an item says. *)
SaysText(e, k, j, style) ==
  /\ style.text /\ j \in {0, 1} /\ e.type = "text"
  /\ j = 0 => e.text = <<<<k, 1>>>>
  /\ j = 1 => e.text = <<<<k, 2>>>>

SaysReasoning(e, k, j, style) ==
  /\ e.item = k
  /\ k \in style.reasoning /\ j < 2 =>
       /\ e.type = "reasoning" /\ j \in {0, 1}
       /\ j = 0 => e.text = <<<<k, 1>>>>
       /\ j = 1 => e.text = <<<<k, 2>>>>
  /\ ~(k \in style.reasoning /\ j < 2) =>
       /\ e.type = "reasoning done" /\ e.text = Pieces(k)
       /\ style.finished /\ j = IF k \in style.reasoning THEN 2 ELSE 0

SaysCall(e, k, j, style) ==
  /\ e.item = k
  /\ j = 0 => /\ e.type = "call added"
              /\ e.text = IF style.early THEN Pieces(k) ELSE <<>>
  /\ style.arguments /\ j = 1 => e.type = "arguments" /\ e.text = <<<<k, 1>>>>
  /\ style.arguments /\ j = 2 => e.type = "arguments" /\ e.text = <<<<k, 2>>>>
  /\ j # 0 /\ ~(style.arguments /\ j \in {1, 2}) =>
       e.type = "call done" /\ e.text = Pieces(k) /\ style.finished

Says(e, kind, k, j, style) ==
  /\ e \in StreamEvent
  /\ kind = "message" => SaysText(e, k, j, style)
  /\ kind = "reasoning" => SaysReasoning(e, k, j, style)
  /\ kind = "call" => SaysCall(e, k, j, style)

(* The next event of a message is its next delta. *)
LEMMA NextOfMessage ==
  ASSUME NEW k \in Nat, NEW style \in Styles, NEW E, E = EventsOf(k, "message", style),
         NEW j \in Nat, j < Len(E)
  PROVE  E[j + 1] \in StreamEvent /\ SaysText(E[j + 1], k, j, style)
<1> DEFINE x == Event("text", k, <<<<k, 1>>>>)
           y == Event("text", k, <<<<k, 2>>>>)
<1>1. /\ E \in Seq(StreamEvent) /\ Len(E) = IF style.text THEN 2 ELSE 0
      /\ style.text => E[1] = x /\ E[2] = y
  BY MessageEvents
<1>2. /\ x.type = "text" /\ x.text = <<<<k, 1>>>> /\ y.type = "text" /\ y.text = <<<<k, 2>>>>
      /\ style.text \in BOOLEAN
  BY DEF Event, Styles
<1> HIDE DEF x, y
<1>3. style.text /\ j \in {0, 1}
  <2>1. style.text
    <3> SUFFICES ASSUME ~style.text PROVE FALSE
      OBVIOUS
    <3>1. Len(E) = 0
      BY <1>1
    <3> QED BY <3>1
  <2>2. Len(E) = 2
    BY <1>1, <2>1
  <2>3. j = 0 \/ j = 1
    <3> DEFINE n == Len(E)
    <3>1. n = 2 /\ j < n
      BY <2>2
    <3> HIDE DEF n
    <3> QED BY <3>1
  <2> QED BY <2>1, <2>3
<1>4. j = 0 => E[j + 1] = x
  BY <1>1, <1>3
<1>5. j = 1 => E[j + 1] = y
  BY <1>1, <1>3
<1>6. E[j + 1] \in StreamEvent
  BY <1>1
<1> QED BY <1>2, <1>3, <1>4, <1>5, <1>6 DEF SaysText

(* The next event of reasoning is its next delta, or after them its end. *)
LEMMA NextOfReasoning ==
  ASSUME NEW k \in Nat, NEW style \in Styles, NEW E, E = EventsOf(k, "reasoning", style),
         NEW j \in Nat, j < Len(E)
  PROVE  E[j + 1] \in StreamEvent /\ SaysReasoning(E[j + 1], k, j, style)
<1> DEFINE d == IF k \in style.reasoning THEN 2 ELSE 0
           x == Event("reasoning", k, <<<<k, 1>>>>)
           y == Event("reasoning", k, <<<<k, 2>>>>)
           z == Event("reasoning done", k, Pieces(k))
<1>1. /\ E \in Seq(StreamEvent) /\ Len(E) = d + IF style.finished THEN 1 ELSE 0
      /\ k \in style.reasoning => E[1] = x /\ E[2] = y
      /\ style.finished => E[d + 1] = z
  BY ReasoningEvents
<1>2. /\ x.type = "reasoning" /\ x.text = <<<<k, 1>>>> /\ x.item = k
      /\ y.type = "reasoning" /\ y.text = <<<<k, 2>>>> /\ y.item = k
      /\ z.type = "reasoning done" /\ z.text = Pieces(k) /\ z.item = k
  BY DEF Event
<1> HIDE DEF x, y, z
<1>3. E[j + 1] \in StreamEvent
  BY <1>1
<1>4. CASE k \in style.reasoning /\ j < 2
  <2>1. j = 0 \/ j = 1
    BY <1>4
  <2>2. j = 0 => E[j + 1] = x
    BY <1>1, <1>4
  <2>3. j = 1 => E[j + 1] = y
    BY <1>1, <1>4
  <2> QED BY <1>2, <1>3, <1>4, <2>1, <2>2, <2>3 DEF SaysReasoning
<1>5. CASE ~(k \in style.reasoning /\ j < 2)
  <2>1. d \in {0, 2} /\ j >= d
    BY <1>5
  <2>2. style.finished /\ j = d
    <3> HIDE DEF d
    <3>1. style.finished
      <4> SUFFICES ASSUME ~style.finished PROVE FALSE
        OBVIOUS
      <4>1. Len(E) = d + 0
        BY <1>1
      <4> QED BY <2>1, <4>1
    <3> QED BY <1>1, <2>1, <3>1
  <2>3. E[j + 1] = z
    <3> HIDE DEF d
    <3> QED BY <1>1, <2>2
  <2> QED BY <1>2, <1>3, <1>5, <2>2, <2>3 DEF SaysReasoning
<1> QED BY <1>4, <1>5

(* The next event of a call, in the order of CallEvents. *)
LEMMA NextOfCall ==
  ASSUME NEW k \in Nat, NEW style \in Styles, NEW E, E = EventsOf(k, "call", style),
         NEW j \in Nat, j < Len(E)
  PROVE  E[j + 1] \in StreamEvent /\ SaysCall(E[j + 1], k, j, style)
<1> DEFINE d == IF style.arguments THEN 3 ELSE 1
           first == IF style.early THEN Pieces(k) ELSE <<>>
           w == Event("call added", k, first)
           x == Event("arguments", k, <<<<k, 1>>>>)
           y == Event("arguments", k, <<<<k, 2>>>>)
           z == Event("call done", k, Pieces(k))
<1>1. /\ E \in Seq(StreamEvent) /\ Len(E) = d + IF style.finished THEN 1 ELSE 0
      /\ E[1] = w
      /\ style.arguments => E[2] = x /\ E[3] = y
      /\ style.finished => E[d + 1] = z
  BY CallEvents
<1>2. /\ w.type = "call added" /\ w.text = first /\ w.item = k
      /\ x.type = "arguments" /\ x.text = <<<<k, 1>>>> /\ x.item = k
      /\ y.type = "arguments" /\ y.text = <<<<k, 2>>>> /\ y.item = k
      /\ z.type = "call done" /\ z.text = Pieces(k) /\ z.item = k
  BY DEF Event
<1> HIDE DEF w, x, y, z, first
<1>3. E[j + 1] \in StreamEvent
  BY <1>1
<1>4. CASE j = 0
  <2>1. E[j + 1] = w
    BY <1>1, <1>4
  <2> QED BY <1>1, <1>2, <1>3, <1>4, <2>1 DEF first, SaysCall
<1>5. CASE style.arguments /\ j = 1
  <2>1. E[j + 1] = x
    BY <1>1, <1>5
  <2> QED BY <1>1, <1>2, <1>3, <1>5, <2>1 DEF SaysCall
<1>6. CASE style.arguments /\ j = 2
  <2>1. E[j + 1] = y
    BY <1>1, <1>6
  <2> QED BY <1>1, <1>2, <1>3, <1>6, <2>1 DEF SaysCall
<1>7. CASE j # 0 /\ ~(style.arguments /\ j \in {1, 2})
  <2>1. d \in {1, 3} /\ j >= d
    BY <1>7
  <2>2. style.finished /\ j = d /\ j + 1 = Len(E)
    <3> HIDE DEF d
    <3>1. style.finished
      <4> SUFFICES ASSUME ~style.finished PROVE FALSE
        OBVIOUS
      <4>1. Len(E) = d + 0
        BY <1>1
      <4> QED BY <2>1, <4>1
    <3> QED BY <1>1, <2>1, <3>1
  <2>3. E[j + 1] = z
    <3> HIDE DEF d
    <3> QED BY <1>1, <2>2
  <2> QED BY <1>1, <1>2, <1>3, <1>7, <2>2, <2>3 DEF SaysCall
<1> QED BY <1>4, <1>5, <1>6, <1>7

(* The next event, for an item of any kind. *)
LEMMA NextEvent ==
  ASSUME NEW k \in Nat, NEW kind \in {"message", "reasoning", "call"}, NEW style \in Styles,
         NEW j \in Nat, j < Len(EventsOf(k, kind, style))
  PROVE  Says(EventsOf(k, kind, style)[j + 1], kind, k, j, style)
<1> DEFINE E == EventsOf(k, kind, style)
           e == E[j + 1]
<1>0. E = EventsOf(k, kind, style) /\ j < Len(E)
  OBVIOUS
<1>1. CASE kind = "message"
  <2>1. E = EventsOf(k, "message", style)
    BY <1>1
  <2> HIDE DEF E
  <2>2. SaysText(e, k, j, style) /\ e \in StreamEvent
    BY <1>0, <2>1, NextOfMessage
  <2> HIDE DEF e
  <2> QED BY <1>1, <2>2 DEF Says, E, e
<1>2. CASE kind = "reasoning"
  <2>1. E = EventsOf(k, "reasoning", style)
    BY <1>2
  <2> HIDE DEF E
  <2>2. SaysReasoning(e, k, j, style) /\ e \in StreamEvent
    BY <1>0, <2>1, NextOfReasoning
  <2> HIDE DEF e
  <2> QED BY <1>2, <2>2 DEF Says, E, e
<1>3. CASE kind = "call"
  <2>1. E = EventsOf(k, "call", style)
    BY <1>3
  <2> HIDE DEF E
  <2>2. SaysCall(e, k, j, style) /\ e \in StreamEvent
    BY <1>0, <2>1, NextOfCall
  <2> HIDE DEF e
  <2> QED BY <1>3, <2>2 DEF Says, E, e
<1> QED BY <1>1, <1>2, <1>3

-----------------------------------------------------------------------------
(* What is heard of the item the stream is at. *)

Follows(k, i) == k = i + 1

(* HeardText where an item is under way. *)
LEMMA TextAt ==
  ASSUME NEW items, NEW style, NEW h, NEW i, NEW j, NEW k, Follows(k, i), i < Len(items)
  PROVE  HeardText(h, items, style, i, j) <=>
           h.content = IF ~style.text THEN <<>>
                       ELSE Upto(items, "message", i)
                              \o IF items[k] = "message" THEN Saying(k, j) ELSE <<>>
BY DEF HeardText, IsNext, Follows

(* HeardReasoning where an item is under way. *)
LEMMA ReasoningAt ==
  ASSUME NEW items, NEW style, NEW h, NEW i, NEW j, NEW k, Follows(k, i), i < Len(items)
  PROVE  HeardReasoning(h, items, style, i, j) <=>
           /\ h.spoken = {x \in style.reasoning : Begun(i, j, x)}
           /\ Full(items, style) =>
                FlattenSeq(h.told) =
                  Upto(items, "reasoning", i)
                    \o IF items[k] # "reasoning" THEN <<>>
                       ELSE IF k \in style.reasoning THEN Saying(k, j)
                       ELSE IF j = 0 THEN <<>> ELSE Pieces(k)
           /\ Unspoken(style) => h.told = <<>>
BY DEF HeardReasoning, IsNext, Follows

(* Concatenating, for texts. *)
LEMMA JoiningTexts ==
  ASSUME NEW s \in Text, NEW t \in Text, NEW u \in Text
  PROVE  (s \o t) \o u = s \o (t \o u) /\ s \o <<>> = s /\ <<>> \o s = s
BY Concatenating DEF Text

(* One more delta of an item. *)
LEMMA SayingGrows ==
  ASSUME NEW k \in Nat, NEW j \in {0, 1}, NEW text,
         j = 0 => text = <<<<k, 1>>>>, j = 1 => text = <<<<k, 2>>>>
  PROVE  text \in Text /\ Saying(k, j) \in Text /\ Saying(k, j) \o text = Saying(k, j + 1)
<1> DEFINE x == <<<<k, 1>>>>
           y == <<<<k, 2>>>>
           p == Pieces(k)
<1>1. /\ x \in Text /\ y \in Text /\ <<>> \in Text /\ x \o y = p /\ <<>> \o x = x
  BY PiecesType
<1>2. Saying(k, 0) = <<>> /\ Saying(k, 1) = x /\ Saying(k, 2) = p
  BY DEF Saying
<1> HIDE DEF x, y, p
<1>3. CASE j = 0
  <2>1. text = x /\ Saying(k, j) = <<>> /\ j + 1 = 1
    BY <1>2, <1>3 DEF x
  <2> QED BY <1>1, <1>2, <2>1
<1>4. CASE j = 1
  <2>1. text = y /\ Saying(k, j) = x /\ j + 1 = 2
    BY <1>2, <1>4 DEF y
  <2> QED BY <1>1, <1>2, <2>1
<1> QED BY <1>3, <1>4

(* The next item has a kind. *)
LEMMA NextItem ==
  ASSUME MaxItems \in Nat, NEW items \in Outputs, NEW i \in 0 .. Len(items) - 1
  PROVE  /\ i \in Nat /\ i + 1 \in Nat /\ i < Len(items) /\ i \in 0 .. Len(items)
         /\ i + 1 \in DOMAIN items
         /\ items[i + 1] \in {"message", "reasoning", "call"}
BY ItemsType DEF Kinds

(* An event changes what it is about and nothing else. *)
LEMMA TextChanges ==
  ASSUME NEW h \in Hearing, NEW e \in StreamEvent
  PROVE  Hear(h, e).content = IF e.type = "text" THEN h.content \o e.text ELSE h.content
BY HearChanges

(* What becomes of the reasoning. *)
LEMMA ReasoningChanges ==
  ASSUME NEW h \in Hearing, NEW e \in StreamEvent
  PROVE  /\ h.told \in Seq(Text)
         /\ Hear(h, e).told =
              IF e.type = "reasoning" \/ (e.type = "reasoning done" /\ e.item \notin h.spoken)
              THEN Append(h.told, e.text) ELSE h.told
         /\ Hear(h, e).spoken =
              IF e.type = "reasoning" THEN h.spoken \cup {e.item} ELSE h.spoken
<1>1. h.told \in Seq(Text)
  BY DEF Hearing
<1> QED BY <1>1, HearChanges

(* The next event keeps HeardText. *)
LEMMA HearText ==
  ASSUME MaxItems \in Nat, NEW items \in Outputs, NEW style \in Styles,
         NEW i \in 0 .. Len(items) - 1, NEW h \in Hearing, NEW j \in Nat,
         NEW k, Follows(k, i), NEW e, Says(e, items[k], k, j, style),
         HeardText(h, items, style, i, j)
  PROVE  HeardText(Hear(h, e), items, style, i, j + 1)
<1> DEFINE u == Upto(items, "message", i)
           g == Hear(h, e)
           T(n) == IF items[k] = "message" THEN Saying(k, n) ELSE <<>>
<1>1. /\ k \in Nat /\ items[k] \in {"message", "reasoning", "call"}
      /\ i < Len(items) /\ i \in 0 .. Len(items)
  BY NextItem DEF Follows
<1>2. u \in Text /\ e \in StreamEvent
  BY <1>1, UptoGrows DEF Says
<1>3. h.content = IF ~style.text THEN <<>> ELSE u \o T(j)
  BY <1>1, TextAt
<1>4. SUFFICES g.content = IF ~style.text THEN <<>> ELSE u \o T(j + 1)
  BY <1>1, TextAt
<1>5. g.content = IF e.type = "text" THEN h.content \o e.text ELSE h.content
  BY <1>2, TextChanges
<1> HIDE DEF g, u
<1>6. CASE items[k] = "message"
  <2>1. SaysText(e, k, j, style)
    BY <1>6 DEF Says
  <2>2. /\ style.text /\ j \in {0, 1} /\ e.type = "text"
        /\ j = 0 => e.text = <<<<k, 1>>>>
        /\ j = 1 => e.text = <<<<k, 2>>>>
    BY <2>1 DEF SaysText
  <2>3. /\ e.text \in Text /\ Saying(k, j) \in Text
        /\ Saying(k, j) \o e.text = Saying(k, j + 1)
    BY <1>1, <2>2, SayingGrows
  <2>0. T(j) = Saying(k, j) /\ T(j + 1) = Saying(k, j + 1)
    BY <1>6
  <2> HIDE DEF T
  <2>4. h.content = u \o Saying(k, j)
    BY <1>3, <2>0, <2>2
  <2>5. (u \o Saying(k, j)) \o e.text = u \o (Saying(k, j) \o e.text)
    BY <1>2, <2>3, JoiningTexts
  <2>6. g.content = u \o Saying(k, j + 1)
    BY <1>5, <2>2, <2>3, <2>4, <2>5
  <2> QED BY <2>0, <2>2, <2>6
<1>7. CASE items[k] # "message"
  <2>1. e.type # "text"
    <3>1. CASE items[k] = "reasoning"
      BY <3>1 DEF Says, SaysReasoning
    <3>2. CASE items[k] = "call"
      <4>1. SaysCall(e, k, j, style)
        BY <3>2 DEF Says
      <4> QED BY <4>1 DEF SaysCall
    <3> QED BY <1>1, <1>7, <3>1, <3>2
  <2> QED BY <1>3, <1>5, <1>7, <2>1
<1> QED BY <1>6, <1>7

(* The next event keeps HeardReasoning: an item with deltas is not told again
   at its end. *)
LEMMA HearReasoning ==
  ASSUME MaxItems \in Nat, NEW items \in Outputs, NEW style \in Styles,
         style.reasoning \subseteq OfKind(items, "reasoning"),
         NEW i \in 0 .. Len(items) - 1, NEW h \in Hearing, NEW j \in Nat,
         NEW k, Follows(k, i), NEW e, Says(e, items[k], k, j, style),
         HeardReasoning(h, items, style, i, j)
  PROVE  HeardReasoning(Hear(h, e), items, style, i, j + 1)
<1> DEFINE u == Upto(items, "reasoning", i)
           g == Hear(h, e)
           S(n) == {x \in style.reasoning : Begun(i, n, x)}
           T(n) == IF items[k] # "reasoning" THEN <<>>
                   ELSE IF k \in style.reasoning THEN Saying(k, n)
                   ELSE IF n = 0 THEN <<>> ELSE Pieces(k)
<1>1. /\ k \in Nat /\ items[k] \in {"message", "reasoning", "call"}
      /\ i < Len(items) /\ i \in 0 .. Len(items) /\ i \in Nat /\ k \in DOMAIN items
  BY NextItem DEF Follows
<1>2. u \in Text /\ e \in StreamEvent
  BY <1>1, UptoGrows DEF Says
<1>3. /\ h.spoken = S(j)
      /\ Full(items, style) => FlattenSeq(h.told) = u \o T(j)
      /\ Unspoken(style) => h.told = <<>>
  BY <1>1, ReasoningAt
<1>4. SUFFICES /\ g.spoken = S(j + 1)
               /\ Full(items, style) => FlattenSeq(g.told) = u \o T(j + 1)
               /\ Unspoken(style) => g.told = <<>>
  BY <1>1, ReasoningAt
<1>5. /\ h.told \in Seq(Text)
      /\ g.told = IF e.type = "reasoning" \/ (e.type = "reasoning done" /\ e.item \notin h.spoken)
                  THEN Append(h.told, e.text) ELSE h.told
      /\ g.spoken = IF e.type = "reasoning" THEN h.spoken \cup {e.item} ELSE h.spoken
  BY <1>2, ReasoningChanges
<1>6. ASSUME NEW text \in Text
      PROVE  FlattenSeq(Append(h.told, text)) = FlattenSeq(h.told) \o text
  BY <1>5, <1>6, FlattenAppend DEF Text
<1>7. S(j + 1) = S(j) \cup ({k} \cap style.reasoning)
  BY <1>1 DEF Begun, Follows
<1>8. j > 0 /\ k \in style.reasoning => k \in S(j)
  BY <1>1 DEF Begun, Follows
<1>9. k \in S(j) => k \in style.reasoning
  OBVIOUS
<1> HIDE DEF g, u, S
<1>10. CASE items[k] = "reasoning"
  <2>0. SaysReasoning(e, k, j, style)
    BY <1>10 DEF Says
  <2>1. CASE k \in style.reasoning /\ j < 2
    <3>1. /\ e.type = "reasoning" /\ e.item = k /\ j \in {0, 1}
          /\ j = 0 => e.text = <<<<k, 1>>>>
          /\ j = 1 => e.text = <<<<k, 2>>>>
      BY <2>0, <2>1 DEF SaysReasoning
    <3>2. g.told = Append(h.told, e.text) /\ g.spoken = S(j + 1)
      BY <1>3, <1>5, <1>7, <2>1, <3>1
    <3>3. ASSUME Full(items, style)
          PROVE  FlattenSeq(g.told) = u \o Saying(k, j + 1)
      <4>1. FlattenSeq(h.told) = u \o Saying(k, j)
        BY <1>3, <1>10, <2>1, <3>3
      <4>2. /\ e.text \in Text /\ Saying(k, j) \in Text
            /\ Saying(k, j) \o e.text = Saying(k, j + 1)
        BY <1>1, <3>1, SayingGrows
      <4>3. (u \o Saying(k, j)) \o e.text = u \o (Saying(k, j) \o e.text)
        BY <1>2, <4>2, JoiningTexts
      <4>4. FlattenSeq(g.told) = FlattenSeq(h.told) \o e.text
        BY <1>6, <3>2, <4>2
      <4> QED BY <4>1, <4>2, <4>3, <4>4
    <3>4. ~Unspoken(style)
      BY <2>1 DEF Unspoken
    <3> QED BY <1>10, <2>1, <3>2, <3>3, <3>4
  <2>2. CASE ~(k \in style.reasoning /\ j < 2)
    <3>1. /\ e.type = "reasoning done" /\ e.text = Pieces(k) /\ e.item = k
          /\ style.finished /\ j = IF k \in style.reasoning THEN 2 ELSE 0
      BY <2>0, <2>2 DEF SaysReasoning
    <3>2. k \in S(j) <=> k \in style.reasoning
      <4>1. k \in style.reasoning => j = 2
        BY <3>1
      <4> QED BY <1>8, <1>9, <4>1
    <3>3. g.spoken = S(j + 1)
      <4>1. g.spoken = S(j)
        BY <1>3, <1>5, <3>1
      <4>2. {k} \cap style.reasoning \subseteq S(j)
        BY <3>2
      <4> QED BY <1>7, <4>1, <4>2
    <3>4. Full(items, style) /\ ~Unspoken(style)
      BY <3>1 DEF Full, Unspoken
    <3>5. FlattenSeq(g.told) = u \o Pieces(k)
      <4>1. CASE k \in style.reasoning
        <5>1. FlattenSeq(h.told) = u \o Saying(k, 2)
          BY <1>3, <1>10, <3>1, <3>4, <4>1
        <5>2. Saying(k, 2) = Pieces(k)
          BY DEF Saying
        <5>3. g.told = h.told
          BY <1>3, <1>5, <3>1, <3>2, <4>1
        <5> QED BY <5>1, <5>2, <5>3
      <4>2. CASE k \notin style.reasoning
        <5>1. FlattenSeq(h.told) = u \o <<>>
          BY <1>3, <1>10, <3>1, <3>4, <4>2
        <5>2. u \o <<>> = u /\ e.text \in Text
          BY <1>1, <1>2, <3>1, JoiningTexts, PiecesType
        <5>3. g.told = Append(h.told, e.text)
          BY <1>3, <1>5, <3>1, <3>2, <4>2
        <5>4. FlattenSeq(g.told) = FlattenSeq(h.told) \o e.text
          BY <1>6, <5>2, <5>3
        <5> QED BY <3>1, <5>1, <5>2, <5>4
      <4> QED BY <4>1, <4>2
    <3>6. T(j + 1) = Pieces(k)
      <4>0. k \in style.reasoning => j = 2
        BY <3>1
      <4>1. j + 1 # 0 /\ (k \in style.reasoning => j + 1 = 3)
        BY <4>0
      <4>2. Saying(k, 3) = Pieces(k)
        BY DEF Saying
      <4>3. T(j + 1) = IF k \in style.reasoning THEN Saying(k, j + 1) ELSE Pieces(k)
        BY <1>10, <4>1
      <4> HIDE DEF T
      <4>4. k \in style.reasoning => Saying(k, j + 1) = Saying(k, 3)
        BY <4>1
      <4> QED BY <4>2, <4>3, <4>4
    <3> HIDE DEF T
    <3> QED BY <3>3, <3>4, <3>5, <3>6
  <2> QED BY <2>1, <2>2
<1>11. CASE items[k] # "reasoning"
  <2>1. e.type \notin {"reasoning", "reasoning done"}
    <3>1. CASE items[k] = "message"
      BY <3>1 DEF Says, SaysText
    <3>2. CASE items[k] = "call"
      <4>1. SaysCall(e, k, j, style)
        BY <3>2 DEF Says
      <4> QED BY <4>1 DEF SaysCall
    <3> QED BY <1>1, <1>11, <3>1, <3>2
  <2>2. k \notin style.reasoning
    BY <1>1, <1>11 DEF OfKind
  <2>3. g.told = h.told /\ g.spoken = S(j + 1)
    BY <1>3, <1>5, <1>7, <2>1, <2>2
  <2> QED BY <1>3, <1>11, <2>3
<1> QED BY <1>10, <1>11

-----------------------------------------------------------------------------
(* The calls, as they are put together. *)

(* HeardCalls where an item is under way. *)
LEMMA CallsAt ==
  ASSUME NEW items, NEW style, NEW h, NEW i, NEW j, NEW k, Follows(k, i)
  PROVE  HeardCalls(h, items, style, i, j) <=>
           /\ DOMAIN h.calls = {x \in OfKind(items, "call") : Begun(i, j, x)}
           /\ Streamed(style) =>
                /\ \A x \in DOMAIN h.calls : x <= i => h.calls[x] = Pieces(x)
                /\ k \in DOMAIN h.calls =>
                     /\ ~style.finished => h.calls[k] = Saying(k, j - 1)
                     /\ j = Len(EventsOf(k, items[k], style)) => h.calls[k] = Pieces(k)
<1>1. k = i + 1
  BY DEF Follows
<1> QED BY <1>1 DEF HeardCalls

(* What becomes of the calls. *)
LEMMA CallChanges ==
  ASSUME NEW h \in Hearing, NEW e \in StreamEvent
  PROVE  Hear(h, e).calls =
           IF (e.type = "call added" /\ CallOf(h, e.item) = <<>>) \/ e.type \in {"arguments", "call done"}
           THEN [x \in DOMAIN h.calls \cup {e.item} |->
                   IF x # e.item THEN h.calls[x]
                   ELSE IF e.type = "arguments" THEN CallOf(h, e.item) \o e.text ELSE e.text]
           ELSE h.calls
BY HearChanges

(* The number of events of a call. *)
LEMMA CallLength ==
  ASSUME NEW k \in Nat, NEW style \in Styles, NEW kind, kind = "call"
  PROVE  Len(EventsOf(k, kind, style)) =
           (IF style.arguments THEN 3 ELSE 1) + IF style.finished THEN 1 ELSE 0
<1>1. EventsOf(k, kind, style) = EventsOf(k, "call", style)
  OBVIOUS
<1> QED BY <1>1, CallEvents

(* The next event keeps HeardCalls: its deltas follow an empty beginning, and
   the end replaces what was added up. *)
LEMMA HearCalls ==
  ASSUME MaxItems \in Nat, NEW items \in Outputs, NEW style \in Styles,
         NEW i \in 0 .. Len(items) - 1, NEW h \in Hearing, NEW j \in Nat,
         NEW k, Follows(k, i), NEW e, Says(e, items[k], k, j, style),
         HeardCalls(h, items, style, i, j)
  PROVE  HeardCalls(Hear(h, e), items, style, i, j + 1)
<1> DEFINE g == Hear(h, e)
           S(m) == {x \in OfKind(items, "call") : Begun(i, m, x)}
           n == Len(EventsOf(k, items[k], style))
<1>1. /\ k \in Nat /\ items[k] \in {"message", "reasoning", "call"}
      /\ i < Len(items) /\ i \in Nat /\ k \in DOMAIN items /\ e \in StreamEvent
  BY NextItem DEF Follows, Says
<1>2. /\ DOMAIN h.calls = S(j)
      /\ Streamed(style) =>
           /\ \A x \in DOMAIN h.calls : x <= i => h.calls[x] = Pieces(x)
           /\ k \in DOMAIN h.calls =>
                /\ ~style.finished => h.calls[k] = Saying(k, j - 1)
                /\ j = n => h.calls[k] = Pieces(k)
  BY CallsAt
<1>3. SUFFICES
        /\ DOMAIN g.calls = S(j + 1)
        /\ Streamed(style) =>
             /\ \A x \in DOMAIN g.calls : x <= i => g.calls[x] = Pieces(x)
             /\ k \in DOMAIN g.calls =>
                  /\ ~style.finished => g.calls[k] = Saying(k, (j + 1) - 1)
                  /\ j + 1 = n => g.calls[k] = Pieces(k)
  BY CallsAt
<1>4. g.calls =
        IF (e.type = "call added" /\ CallOf(h, e.item) = <<>>) \/ e.type \in {"arguments", "call done"}
        THEN [x \in DOMAIN h.calls \cup {e.item} |->
                IF x # e.item THEN h.calls[x]
                ELSE IF e.type = "arguments" THEN CallOf(h, e.item) \o e.text ELSE e.text]
        ELSE h.calls
  BY <1>1, CallChanges
<1>5. S(j + 1) = S(j) \cup ({k} \cap OfKind(items, "call"))
  BY <1>1 DEF Begun, Follows
<1>6. ~(k <= i) /\ (j + 1) - 1 = j
  BY <1>1 DEF Follows
<1>7. k \in S(0) => FALSE
  BY <1>1, <1>6 DEF Begun, Follows
<1>8. CASE items[k] = "call"
  <2>1. SaysCall(e, k, j, style)
    BY <1>8 DEF Says
  <2>2. n = (IF style.arguments THEN 3 ELSE 1) + IF style.finished THEN 1 ELSE 0
    BY <1>1, <1>8, CallLength
  <2>3. k \in OfKind(items, "call")
    BY <1>1, <1>8 DEF OfKind
  <2>4. j > 0 => k \in S(j)
    BY <1>1, <2>3 DEF Begun, Follows
  <2> HIDE DEF S, n, g
  <2>5. S(j + 1) = S(j) \cup {k} /\ k \in S(j + 1)
    BY <1>5, <2>3
  (* What the call is after the event. *)
  <2> DEFINE Put(text) ==
        g.calls = [x \in DOMAIN h.calls \cup {k} |-> IF x # k THEN h.calls[x] ELSE text]
  <2>6. ASSUME NEW text, Put(text),
               Streamed(style) /\ ~style.finished => text = Saying(k, j),
               Streamed(style) /\ j + 1 = n => text = Pieces(k)
        PROVE  /\ DOMAIN g.calls = S(j + 1)
               /\ Streamed(style) =>
                    /\ \A x \in DOMAIN g.calls : x <= i => g.calls[x] = Pieces(x)
                    /\ k \in DOMAIN g.calls =>
                         /\ ~style.finished => g.calls[k] = Saying(k, (j + 1) - 1)
                         /\ j + 1 = n => g.calls[k] = Pieces(k)
    <3>1. DOMAIN g.calls = S(j + 1)
      BY <1>2, <2>5, <2>6
    <3>2. g.calls[k] = text /\ \A x \in DOMAIN g.calls : x # k => x \in DOMAIN h.calls /\ g.calls[x] = h.calls[x]
      BY <2>6
    <3>3. \A x \in DOMAIN g.calls : x <= i => x # k
      BY <1>6
    <3> HIDE DEF Put
    <3> QED BY <1>2, <1>6, <2>6, <3>1, <3>2, <3>3
  <2>7. Streamed(style) /\ ~style.finished => style.arguments /\ ~style.early
    BY DEF Streamed
  <2>8. CASE j = 0
    <3>1. /\ e.type = "call added" /\ e.item = k
          /\ e.text = IF style.early THEN Pieces(k) ELSE <<>>
      BY <2>1, <2>8 DEF SaysCall
    <3>2. CallOf(h, k) = <<>>
      BY <1>2, <1>7, <2>8 DEF CallOf, S
    <3>3. Put(e.text)
      BY <1>4, <3>1, <3>2
    <3>4. Streamed(style) /\ ~style.finished => e.text = Saying(k, j)
      BY <2>7, <2>8, <3>1 DEF Saying
    <3>5. j + 1 # n \/ ~Streamed(style)
      BY <2>2, <2>7, <2>8
    <3> HIDE DEF Put
    <3> QED BY <2>6, <3>3, <3>4, <3>5
  <2>9. CASE style.arguments /\ j \in {1, 2}
    <3>1. /\ e.type = "arguments" /\ e.item = k
          /\ j = 1 => e.text = <<<<k, 1>>>>
          /\ j = 2 => e.text = <<<<k, 2>>>>
      BY <2>1, <2>9 DEF SaysCall
    <3>2. k \in DOMAIN h.calls /\ CallOf(h, k) = h.calls[k]
      BY <1>2, <2>4, <2>9 DEF CallOf
    <3>3. Put(h.calls[k] \o e.text)
      BY <1>4, <3>1, <3>2
    <3>4. ASSUME Streamed(style), ~style.finished
          PROVE  h.calls[k] \o e.text = Saying(k, j)
      <4>1. h.calls[k] = Saying(k, j - 1)
        BY <1>2, <3>2, <3>4
      <4>2. j - 1 \in {0, 1} /\ (j - 1) + 1 = j /\ (j - 1 = 0 => j = 1) /\ (j - 1 = 1 => j = 2)
        BY <2>9
      <4>3. Saying(k, j - 1) \o e.text = Saying(k, (j - 1) + 1)
        BY <1>1, <3>1, <4>2, SayingGrows
      <4> QED BY <4>1, <4>2, <4>3
    <3>5. ASSUME Streamed(style), j + 1 = n
          PROVE  h.calls[k] \o e.text = Pieces(k)
      <4>0. n = 3 + IF style.finished THEN 1 ELSE 0
        BY <2>2, <2>9
      <4>1. ~style.finished /\ j = 2
        <5>1. CASE style.finished
          <6>1. n = 3 + 1
            BY <4>0, <5>1
          <6> QED BY <2>9, <3>5, <6>1
        <5>2. CASE ~style.finished
          <6>1. n = 3 + 0
            BY <4>0, <5>2
          <6> QED BY <2>9, <3>5, <5>2, <6>1
        <5> QED BY <5>1, <5>2
      <4>2. h.calls[k] \o e.text = Saying(k, j)
        BY <3>4, <3>5, <4>1
      <4>3. Saying(k, 2) = Pieces(k)
        BY DEF Saying
      <4> QED BY <4>1, <4>2, <4>3
    <3> HIDE DEF Put
    <3> QED BY <2>6, <3>3, <3>4, <3>5
  <2>10. CASE j # 0 /\ ~(style.arguments /\ j \in {1, 2})
    <3>1. e.type = "call done" /\ e.item = k /\ e.text = Pieces(k) /\ style.finished
      BY <2>1, <2>10 DEF SaysCall
    <3>2. Put(Pieces(k))
      BY <1>4, <3>1
    <3> HIDE DEF Put
    <3> QED BY <2>6, <3>1, <3>2
  <2> QED BY <2>8, <2>9, <2>10
<1>9. CASE items[k] # "call"
  <2>1. e.type \notin {"call added", "arguments", "call done"}
    <3>1. CASE items[k] = "message"
      BY <3>1 DEF Says, SaysText
    <3>2. CASE items[k] = "reasoning"
      BY <3>2 DEF Says, SaysReasoning
    <3> QED BY <1>1, <1>9, <3>1, <3>2
  <2>2. k \notin OfKind(items, "call")
    BY <1>1, <1>9 DEF OfKind
  <2>3. k \notin S(j)
    BY <2>2
  <2> HIDE DEF S, n, g
  <2>4. g.calls = h.calls /\ S(j + 1) = S(j)
    BY <1>4, <1>5, <2>1, <2>2
  <2> QED BY <1>2, <2>3, <2>4
<1> QED BY <1>8, <1>9

-----------------------------------------------------------------------------
(* Between two items: what has been heard of the first i. *)

(* HeardText where no item is under way. *)
LEMMA TextBetween ==
  ASSUME MaxItems \in Nat, NEW items \in Outputs, NEW style, NEW h, NEW i \in 0 .. Len(items)
  PROVE  HeardText(h, items, style, i, 0) <=>
           h.content = IF ~style.text THEN <<>> ELSE Upto(items, "message", i)
<1>1. Upto(items, "message", i) \in Text
  BY UptoGrows
<1>2. Upto(items, "message", i) \o <<>> = Upto(items, "message", i)
  BY <1>1, JoiningTexts
<1>3. Saying(i + 1, 0) = <<>>
  BY DEF Saying
<1>4. (IF IsNext(items, i, "message") THEN Saying(i + 1, 0) ELSE <<>>) = <<>>
  BY <1>3
<1> QED BY <1>2, <1>4 DEF HeardText

(* HeardReasoning where no item is under way. *)
LEMMA ReasoningBetween ==
  ASSUME MaxItems \in Nat, NEW items \in Outputs, NEW style, NEW h, NEW i \in 0 .. Len(items)
  PROVE  HeardReasoning(h, items, style, i, 0) <=>
           /\ h.spoken = {x \in style.reasoning : x <= i}
           /\ Full(items, style) => FlattenSeq(h.told) = Upto(items, "reasoning", i)
           /\ Unspoken(style) => h.told = <<>>
<1>1. Upto(items, "reasoning", i) \in Text
  BY UptoGrows
<1>2. Upto(items, "reasoning", i) \o <<>> = Upto(items, "reasoning", i)
  BY <1>1, JoiningTexts
<1>3. Saying(i + 1, 0) = <<>>
  BY DEF Saying
<1>4. (IF ~IsNext(items, i, "reasoning") THEN <<>>
       ELSE IF i + 1 \in style.reasoning THEN Saying(i + 1, 0)
       ELSE IF 0 = 0 THEN <<>> ELSE Pieces(i + 1)) = <<>>
  BY <1>3
<1>5. \A x : Begun(i, 0, x) <=> x <= i
  BY DEF Begun
<1>6. {x \in style.reasoning : Begun(i, 0, x)} = {x \in style.reasoning : x <= i}
  BY <1>5
<1> QED BY <1>2, <1>4, <1>6 DEF HeardReasoning

(* HeardCalls where no item is under way. *)
LEMMA CallsBetween ==
  ASSUME MaxItems \in Nat, NEW items \in Outputs, NEW style, NEW h, NEW i \in 0 .. Len(items)
  PROVE  HeardCalls(h, items, style, i, 0) <=>
           /\ DOMAIN h.calls = {x \in OfKind(items, "call") : x <= i}
           /\ Streamed(style) => \A x \in DOMAIN h.calls : h.calls[x] = Pieces(x)
<1> DEFINE k == i + 1
<1>1. i \in Nat /\ ~(k <= i) /\ Follows(k, i)
  BY ItemsType DEF Follows
<1>2. \A x : Begun(i, 0, x) <=> x <= i
  BY DEF Begun
<1>3. {x \in OfKind(items, "call") : Begun(i, 0, x)} = {x \in OfKind(items, "call") : x <= i}
  BY <1>2
<1> HIDE DEF k
<1>4. HeardCalls(h, items, style, i, 0) <=>
           /\ DOMAIN h.calls = {x \in OfKind(items, "call") : x <= i}
           /\ Streamed(style) =>
                /\ \A x \in DOMAIN h.calls : x <= i => h.calls[x] = Pieces(x)
                /\ k \in DOMAIN h.calls =>
                     /\ ~style.finished => h.calls[k] = Saying(k, 0 - 1)
                     /\ 0 = Len(EventsOf(k, items[k], style)) => h.calls[k] = Pieces(k)
  BY <1>1, <1>3, CallsAt
<1>5. ASSUME DOMAIN h.calls = {x \in OfKind(items, "call") : x <= i}
      PROVE  k \notin DOMAIN h.calls /\ \A x \in DOMAIN h.calls : x <= i
  BY <1>1, <1>5
<1> QED BY <1>4, <1>5

(* All of an item has been heard, and the next one begins. *)
LEMMA ItemEnds ==
  ASSUME MaxItems \in Nat, NEW items \in Outputs, NEW style \in Styles,
         style.reasoning \subseteq OfKind(items, "reasoning"),
         NEW i \in 0 .. Len(items) - 1, NEW h \in Hearing, NEW k, Follows(k, i),
         NEW n, n = Len(EventsOf(k, items[k], style)),
         Heard(h, items, style, i, n)
  PROVE  Heard(h, items, style, k, 0)
<1> DEFINE u(kind) == Upto(items, kind, i)
           v(kind) == Upto(items, kind, k)
<1>1. /\ k \in Nat /\ items[k] \in {"message", "reasoning", "call"}
      /\ i < Len(items) /\ i \in Nat /\ k \in DOMAIN items /\ i \in 0 .. Len(items)
      /\ k \in 0 .. Len(items)
  <2>1. /\ i \in Nat /\ i + 1 \in Nat /\ i < Len(items) /\ i \in 0 .. Len(items)
        /\ i + 1 \in DOMAIN items
        /\ items[i + 1] \in {"message", "reasoning", "call"}
    BY NextItem
  <2>2. i + 1 \in 0 .. Len(items)
    BY ItemsType, <2>1
  <2>3. k = i + 1
    BY DEF Follows
  <2> QED BY <2>1, <2>2, <2>3
<1>2. \A kind : v(kind) = u(kind) \o IF items[k] = kind THEN Pieces(k) ELSE <<>>
  BY <1>1, UptoGrows DEF Follows
<1>3. \A kind : u(kind) \o <<>> = u(kind)
  <2> SUFFICES ASSUME NEW kind PROVE u(kind) \o <<>> = u(kind)
    OBVIOUS
  <2>1. u(kind) \in Text
    BY <1>1, UptoGrows
  <2> QED BY <2>1, JoiningTexts
<1>4. \A x : Begun(i, n, x) <=> x <= i \/ (x = k /\ n > 0)
  BY DEF Begun, Follows
<1>5. \A x \in Nat : x <= k <=> x <= i \/ x = k
  BY <1>1 DEF Follows
<1>6. Saying(k, 2) = Pieces(k) /\ Saying(k, 3) = Pieces(k)
  BY DEF Saying
<1>7. \A x \in DOMAIN items : x \in Nat
  BY ItemsType
<1> HIDE DEF u, v
<1>8. HeardText(h, items, style, k, 0)
  <2>1. h.content = IF ~style.text THEN <<>>
                    ELSE u("message") \o IF items[k] = "message" THEN Saying(k, n) ELSE <<>>
    BY <1>1, TextAt DEF Heard, u
  <2>2. SUFFICES h.content = IF ~style.text THEN <<>> ELSE v("message")
    BY <1>1, TextBetween DEF v
  <2>3. CASE style.text /\ items[k] = "message"
    <3>1. n = 2
      <4>1. EventsOf(k, items[k], style) = EventsOf(k, "message", style)
        BY <2>3
      <4>2. Len(EventsOf(k, "message", style)) = IF style.text THEN 2 ELSE 0
        BY <1>1, MessageEvents
      <4>3. n = IF style.text THEN 2 ELSE 0
        BY <4>1, <4>2
      <4> QED BY <2>3, <4>3
    <3>2. h.content = u("message") \o Saying(k, 2)
      BY <2>1, <2>3, <3>1
    <3>3. v("message") = u("message") \o Pieces(k)
      BY <1>2, <2>3
    <3> QED BY <1>6, <2>3, <3>2, <3>3
  <2>4. CASE style.text /\ items[k] # "message"
    <3>1. h.content = u("message") \o <<>>
      BY <2>1, <2>4
    <3>2. v("message") = u("message") \o <<>>
      BY <1>2, <2>4
    <3> QED BY <2>4, <3>1, <3>2
  <2>5. CASE ~style.text
    BY <2>1, <2>5
  <2> QED BY <2>3, <2>4, <2>5
<1>9. HeardReasoning(h, items, style, k, 0)
  <2> DEFINE T == IF items[k] # "reasoning" THEN <<>>
                  ELSE IF k \in style.reasoning THEN Saying(k, n)
                  ELSE IF n = 0 THEN <<>> ELSE Pieces(k)
  <2>1. /\ h.spoken = {x \in style.reasoning : Begun(i, n, x)}
        /\ Full(items, style) => FlattenSeq(h.told) = u("reasoning") \o T
        /\ Unspoken(style) => h.told = <<>>
    BY <1>1, ReasoningAt DEF Heard, u
  <2>2. SUFFICES /\ h.spoken = {x \in style.reasoning : x <= k}
                 /\ Full(items, style) => FlattenSeq(h.told) = v("reasoning")
    BY <1>1, <2>1, ReasoningBetween DEF v
  <2>3. ASSUME items[k] = "reasoning"
        PROVE  n = (IF k \in style.reasoning THEN 2 ELSE 0) + IF style.finished THEN 1 ELSE 0
    <3>1. EventsOf(k, items[k], style) = EventsOf(k, "reasoning", style)
      BY <2>3
    <3> QED BY <1>1, <3>1, ReasoningEvents
  <2>4. k \in style.reasoning => items[k] = "reasoning" /\ n \in {2, 3}
    <3>1. k \in style.reasoning => items[k] = "reasoning"
      BY DEF OfKind
    <3>2. ASSUME k \in style.reasoning PROVE n = 2 + IF style.finished THEN 1 ELSE 0
      BY <2>3, <3>1, <3>2
    <3>3. ASSUME k \in style.reasoning PROVE n \in {2, 3}
      <4>1. CASE style.finished
        BY <3>2, <3>3, <4>1
      <4>2. CASE ~style.finished
        BY <3>2, <3>3, <4>2
      <4> QED BY <4>1, <4>2
    <3> QED BY <3>1, <3>3
  <2>5. \A x \in style.reasoning : Begun(i, n, x) <=> x <= k
    <3> SUFFICES ASSUME NEW x \in style.reasoning PROVE Begun(i, n, x) <=> x <= k
      OBVIOUS
    <3>1. x \in Nat
      BY <1>7 DEF OfKind
    <3>2. ASSUME x = k PROVE n > 0
      <4>1. n \in {2, 3}
        BY <2>4, <3>2
      <4>2. \A m \in {2, 3} : m > 0
        OBVIOUS
      <4> QED BY <4>1, <4>2, Zenon
    <3> QED BY <1>4, <1>5, <3>1, <3>2
  <2>6. ASSUME Full(items, style), items[k] = "reasoning"
        PROVE  T = Pieces(k)
    <3>1. CASE k \in style.reasoning
      <4>1. T = Saying(k, n)
        BY <2>6, <3>1
      <4>2. n = 2 \/ n = 3
        BY <2>4, <3>1
      <4> HIDE DEF T
      <4>3. Saying(k, n) = Pieces(k)
        BY <1>6, <4>2
      <4> QED BY <4>1, <4>3
    <3>2. CASE k \notin style.reasoning
      <4>1. k \in OfKind(items, "reasoning")
        BY <1>1, <2>6 DEF OfKind
      <4>2. style.finished
        BY <2>6, <3>2, <4>1 DEF Full
      <4>3. n # 0
        BY <2>3, <2>6, <3>2, <4>2
      <4> QED BY <2>6, <3>2, <4>3
    <3> QED BY <3>1, <3>2
  <2>7. items[k] # "reasoning" => T = <<>>
    OBVIOUS
  <2>8. v("reasoning") = u("reasoning") \o IF items[k] = "reasoning" THEN Pieces(k) ELSE <<>>
    BY <1>2
  <2> HIDE DEF T
  <2>9. {x \in style.reasoning : Begun(i, n, x)} = {x \in style.reasoning : x <= k}
    BY <2>5
  <2> QED BY <2>1, <2>6, <2>7, <2>8, <2>9
<1>10. HeardCalls(h, items, style, k, 0)
  <2>1. /\ DOMAIN h.calls = {x \in OfKind(items, "call") : Begun(i, n, x)}
        /\ Streamed(style) =>
             /\ \A x \in DOMAIN h.calls : x <= i => h.calls[x] = Pieces(x)
             /\ k \in DOMAIN h.calls => h.calls[k] = Pieces(k)
    BY CallsAt DEF Heard
  <2>2. SUFFICES /\ DOMAIN h.calls = {x \in OfKind(items, "call") : x <= k}
                 /\ Streamed(style) => \A x \in DOMAIN h.calls : h.calls[x] = Pieces(x)
    BY <1>1, CallsBetween
  <2>3. k \in OfKind(items, "call") => n > 0
    <3>1. ASSUME items[k] = "call" PROVE n > 0
      <4>1. n = (IF style.arguments THEN 3 ELSE 1) + IF style.finished THEN 1 ELSE 0
        BY <1>1, <3>1, CallLength
      <4> QED BY <4>1
    <3> QED BY <3>1 DEF OfKind
  <2>4. ASSUME NEW x \in OfKind(items, "call")
        PROVE  x \in Nat /\ (Begun(i, n, x) <=> x <= k)
    <3>1. x \in Nat
      BY <1>7 DEF OfKind
    <3> QED BY <1>4, <1>5, <2>3, <3>1
  <2>5. \A x \in OfKind(items, "call") : x <= k => x <= i \/ x = k
    BY <1>5, <2>4
  <2>6. DOMAIN h.calls = {x \in OfKind(items, "call") : x <= k}
    BY <2>1, <2>4
  <2> QED BY <2>1, <2>5, <2>6
<1> QED BY <1>8, <1>9, <1>10 DEF Heard

-----------------------------------------------------------------------------
(* The whole stream. *)

(* A stream is a sequence of sequences of events. *)
LEMMA PartsType ==
  ASSUME MaxItems \in Nat, NEW items \in Outputs, NEW style \in Styles
  PROVE  /\ Parts(items, style) \in Seq(Seq(StreamEvent))
         /\ Len(Parts(items, style)) = Len(items) /\ Len(items) \in Nat
         /\ \A k \in 1 .. Len(items) :
              Parts(items, style)[k] = EventsOf(k, items[k], style)
<1> DEFINE n == Len(items)
           parts == Parts(items, style)
<1>1. n \in Nat /\ DOMAIN items = 1 .. n
  BY ItemsType
<1>2. ASSUME NEW k \in 1 .. n
      PROVE  EventsOf(k, items[k], style) \in Seq(StreamEvent)
  <2>1. k \in Nat /\ items[k] \in {"message", "reasoning", "call"}
    BY <1>1, ItemsType DEF Kinds
  <2>2. CASE items[k] = "message"
    <3>1. EventsOf(k, items[k], style) = EventsOf(k, "message", style)
      BY <2>2
    <3> QED BY <2>1, <3>1, MessageEvents
  <2>3. CASE items[k] = "reasoning"
    <3>1. EventsOf(k, items[k], style) = EventsOf(k, "reasoning", style)
      BY <2>3
    <3> QED BY <2>1, <3>1, ReasoningEvents
  <2>4. CASE items[k] = "call"
    <3>1. EventsOf(k, items[k], style) = EventsOf(k, "call", style)
      BY <2>4
    <3> QED BY <2>1, <3>1, CallEvents
  <2> QED BY <2>1, <2>2, <2>3, <2>4
<1>3. parts = [k \in 1 .. n |-> EventsOf(k, items[k], style)]
  BY <1>1 DEF Parts
<1>4. parts \in Seq(Seq(StreamEvent)) /\ Len(parts) = n
  <2> HIDE DEF parts
  <2>1. parts \in [1 .. n -> Seq(StreamEvent)]
    BY <1>2, <1>3
  <2> QED BY <1>1, <2>1
<1> HIDE DEF parts, n
<1> QED BY <1>1, <1>3, <1>4 DEF parts, n

(* The next event of an item keeps what has been heard of it. *)
LEMMA HearNext ==
  ASSUME MaxItems \in Nat, NEW items \in Outputs, NEW style \in Styles,
         style.reasoning \subseteq OfKind(items, "reasoning"),
         NEW i \in 0 .. Len(items) - 1, NEW h \in Hearing, NEW j \in Nat,
         NEW k, Follows(k, i), NEW E, E = EventsOf(k, items[k], style),
         j < Len(E), Heard(h, items, style, i, j)
  PROVE  Heard(Hear(h, E[j + 1]), items, style, i, j + 1)
<1> DEFINE e == E[j + 1]
<1>1. k \in Nat /\ items[k] \in {"message", "reasoning", "call"}
  BY NextItem DEF Follows
<1>2. Says(e, items[k], k, j, style)
  BY <1>1, NextEvent
<1> HIDE DEF e
<1>3. HeardText(h, items, style, i, j) /\ HeardReasoning(h, items, style, i, j)
      /\ HeardCalls(h, items, style, i, j)
  BY DEF Heard
<1>4. HeardText(Hear(h, e), items, style, i, j + 1)
  BY <1>2, <1>3, HearText
<1>5. HeardReasoning(Hear(h, e), items, style, i, j + 1)
  BY <1>2, <1>3, HearReasoning
<1>6. HeardCalls(Hear(h, e), items, style, i, j + 1)
  BY <1>2, <1>3, HearCalls
<1> QED BY <1>4, <1>5, <1>6 DEF Heard, e

(* Where p events leave the stream: at the j-th event of the item after i.
   The end of an item is the beginning of the next.                        *)
Within(items, style, i, j) ==
  /\ i = Len(items) => j = 0
  /\ i < Len(items) => j <= Len(EventsOf(i + 1, items[i + 1], style))

Before(items, style, i) == Join(Parts(items, style))[i]

At(items, style, p, i, j) ==
  Within(items, style, i, j) /\ p = Len(Before(items, style, i)) + j

HeardUpto(h, items, style, p) ==
  \A i \in 0 .. Len(items), j \in Nat :
    At(items, style, p, i, j) => Heard(h, items, style, i, j)

(* The stream begins before the first item and ends after the last. *)
LEMMA EventsBefore ==
  ASSUME MaxItems \in Nat, NEW items \in Outputs, NEW style \in Styles
  PROVE  /\ Before(items, style, 0) = <<>>
         /\ Len(Before(items, style, Len(items))) = Len(Events(items, style))
         /\ Events(items, style) \in Seq(StreamEvent)
         /\ \A i \in 0 .. Len(items) : Before(items, style, i) \in Seq(StreamEvent)
<1> DEFINE parts == Parts(items, style)
<1>1. /\ parts \in Seq(Seq(StreamEvent)) /\ Len(parts) = Len(items) /\ Len(items) \in Nat
  BY PartsType
<1>2. Events(items, style) = FlattenSeq(parts)
  BY DEF Events, Parts
<1> HIDE DEF parts
<1>3. /\ Joined(Join(parts), parts) /\ Join(parts) \in [0 .. Len(parts) -> Seq(StreamEvent)]
      /\ FlattenSeq(parts) = Join(parts)[Len(parts)]
  BY <1>1, JoinIsJoined, FlattenIsJoin
<1>4. Join(parts)[0] = <<>>
  BY <1>3 DEF Joined
<1>5. \A i : Before(items, style, i) = Join(parts)[i]
  BY DEF Before, parts
<1>6. Join(parts)[Len(items)] = Events(items, style)
  BY <1>1, <1>2, <1>3
<1>7. \A i \in 0 .. Len(items) : Join(parts)[i] \in Seq(StreamEvent)
  BY <1>1, <1>3
<1>8. Len(items) \in 0 .. Len(items)
  BY <1>1
<1>9. Events(items, style) \in Seq(StreamEvent)
  BY <1>6, <1>7, <1>8
<1> QED BY <1>4, <1>5, <1>6, <1>7, <1>9

(* The events of an item follow those of the items before it. *)
LEMMA EventsOfItem ==
  ASSUME MaxItems \in Nat, NEW items \in Outputs, NEW style \in Styles,
         NEW i \in 0 .. Len(items) - 1, NEW k, Follows(k, i),
         NEW E, E = EventsOf(k, items[k], style)
  PROVE  /\ Len(Before(items, style, k)) = Len(Before(items, style, i)) + Len(E)
         /\ Len(Before(items, style, k)) <= Len(Events(items, style))
         /\ \A m \in 1 .. Len(E) :
              Events(items, style)[Len(Before(items, style, i)) + m] = E[m]
<1> DEFINE parts == Parts(items, style)
           s == Join(parts)[i]
           t == Join(parts)[k]
<1>1. /\ k \in 1 .. Len(items) /\ k - 1 = i /\ k \in 0 .. Len(items) /\ i \in 0 .. Len(items)
  BY ItemsType DEF Follows
<1>2. /\ parts \in Seq(Seq(StreamEvent)) /\ Len(parts) = Len(items) /\ parts[k] = E
  BY <1>1, PartsType
<1>3. Events(items, style) = FlattenSeq(parts)
  BY DEF Events, Parts
<1> HIDE DEF parts
<1>4. /\ Joined(Join(parts), parts) /\ Join(parts) \in [0 .. Len(parts) -> Seq(StreamEvent)]
  BY <1>2, JoinIsJoined
<1>5. t = s \o E
  <2>1. Join(parts)[k] = Join(parts)[k - 1] \o parts[k]
    BY <1>1, <1>2, <1>4 DEF Joined
  <2>2. Join(parts)[k - 1] = s
    BY <1>1
  <2>3. parts[k] = E
    BY <1>2
  <2> QED BY <2>1, <2>2, <2>3, Zenon
<1>6. s \in Seq(StreamEvent) /\ E \in Seq(StreamEvent)
  <2>1. s \in Seq(StreamEvent)
    BY <1>1, <1>2, <1>4
  <2>2. parts[k] \in Seq(StreamEvent)
    <3>1. k \in 1 .. Len(parts)
      BY <1>1, <1>2
    <3> QED BY <1>2, <3>1
  <2> QED BY <1>2, <2>1, <2>2
<1>7. /\ Len(t) <= Len(FlattenSeq(parts))
      /\ \A p \in 1 .. Len(t) : FlattenSeq(parts)[p] = t[p]
  <2>1. parts \in Seq(Seq(StreamEvent)) /\ k \in 0 .. Len(parts)
    BY <1>1, <1>2
  <2>2. /\ Len(Join(parts)[k]) <= Len(FlattenSeq(parts))
        /\ \A p \in 1 .. Len(Join(parts)[k]) : FlattenSeq(parts)[p] = Join(parts)[k][p]
    BY <2>1, FlattenPosition, Zenon
  <2> QED BY <2>2
<1>8. s = Before(items, style, i) /\ t = Before(items, style, k)
  BY DEF Before, parts
<1> HIDE DEF s, t
<1>9. /\ Len(s \o E) = Len(s) + Len(E) /\ Len(s) \in Nat /\ Len(E) \in Nat
      /\ \A m \in 1 .. Len(E) : (s \o E)[Len(s) + m] = E[m]
  BY <1>6, Positions
<1>10. \A m \in 1 .. Len(E) : Len(s) + m \in 1 .. Len(t)
  BY <1>5, <1>9
<1>11. \A m \in 1 .. Len(E) : FlattenSeq(parts)[Len(s) + m] = E[m]
  <2> SUFFICES ASSUME NEW m \in 1 .. Len(E)
               PROVE  FlattenSeq(parts)[Len(s) + m] = E[m]
    OBVIOUS
  <2>1. FlattenSeq(parts)[Len(s) + m] = t[Len(s) + m]
    BY <1>7, <1>10
  <2>2. (s \o E)[Len(s) + m] = E[m]
    BY <1>9
  <2> QED BY <1>5, <2>1, <2>2
<1>12. Len(t) = Len(s) + Len(E)
  BY <1>5, <1>9
<1> QED BY <1>3, <1>7, <1>8, <1>11, <1>12

-----------------------------------------------------------------------------
(* From what is heard within the items to what is heard between them. *)

(* An item without events ends where it begins.  What holds within the items
   thus holds between them: else let i be the first item where it does not; what
   is heard at the end of the item before contradicts that (ItemEnds). *)
LEMMA Everywhere ==
  ASSUME MaxItems \in Nat, NEW items \in Outputs, NEW style \in Styles,
         style.reasoning \subseteq OfKind(items, "reasoning"),
         NEW h \in Hearing, NEW p \in Nat,
         p = 0 => Heard(h, items, style, 0, 0),
         \A i \in 0 .. Len(items), j \in Nat :
           j > 0 /\ At(items, style, p, i, j) => Heard(h, items, style, i, j)
  PROVE  HeardUpto(h, items, style, p)
<1> DEFINE n == Len(items)
           Good(i) == Heard(h, items, style, i, 0)
           Here(i) == At(items, style, p, i, 0)
           Bad == {i \in 0 .. n : Here(i) /\ ~Good(i)}
<1>1. n \in Nat /\ \A i \in 0 .. n : i \in Nat
  BY ItemsType
<1>2. Bad = {}
  <2> SUFFICES ASSUME Bad # {} PROVE FALSE
    OBVIOUS
  <2> HIDE DEF Good, Here, n
  <2>1. PICK k \in Bad : \A i \in Bad : k <= i
    <3>1. Bad \in SUBSET Nat
      BY <1>1
    <3> HIDE DEF Bad
    <3> QED BY <3>1, Least
  <2>2. k \in 0 .. n /\ Here(k) /\ ~Good(k)
    BY <2>1
  <2>3. \A i \in 0 .. n : i < k => ~Here(i) \/ Good(i)
    <3> SUFFICES ASSUME NEW i \in 0 .. n, i < k, Here(i), ~Good(i) PROVE FALSE
      OBVIOUS
    <3>1. i \in Bad
      OBVIOUS
    <3>2. k <= i
      BY <2>1, <3>1
    <3> HIDE DEF Bad
    <3> QED BY <1>1, <2>2, <3>2
  <2> HIDE DEF Bad
  <2>4. k # 0
    <3> SUFFICES ASSUME k = 0 PROVE FALSE
      OBVIOUS
    <3>1. p = Len(Before(items, style, 0)) + 0
      BY <2>2 DEF Here, At
    <3>2. Len(Before(items, style, 0)) = 0
      BY EventsBefore
    <3>3. p = 0
      BY <3>1, <3>2
    <3> QED BY <2>2, <3>3 DEF Good
  <2> DEFINE i == k - 1
             E == EventsOf(k, items[k], style)
             m == Len(E)
  <2>5. /\ i \in 0 .. n - 1 /\ i \in 0 .. n /\ i < n /\ i # n /\ i < k /\ i + 1 = k
        /\ Follows(k, i) /\ k \in Nat
    BY <1>1, <2>2, <2>4 DEF Follows
  <2>6. /\ Len(Before(items, style, k)) = Len(Before(items, style, i)) + m
        /\ m \in Nat /\ Len(Before(items, style, i)) \in Nat
    <3> HIDE DEF i
    <3>0. E = EventsOf(k, items[k], style)
      OBVIOUS
    <3>1. E \in Seq(StreamEvent)
      <4>1. k \in 1 .. Len(items)
        BY <1>1, <2>2, <2>4 DEF n
      <4> QED BY <4>1, PartsType
    <3>2. Before(items, style, i) \in Seq(StreamEvent)
      BY <2>5, EventsBefore DEF n
    <3> HIDE DEF E
    <3>3. Len(Before(items, style, k)) = Len(Before(items, style, i)) + Len(E)
      BY <2>5, <3>0, EventsOfItem DEF n
    <3> QED BY <3>1, <3>2, <3>3
  <2>7. At(items, style, p, i, m)
    <3>1. p = Len(Before(items, style, k)) + 0
      BY <2>2 DEF Here, At
    <3>2. Within(items, style, i, m)
      <4>1. m = Len(EventsOf(i + 1, items[i + 1], style))
        BY <2>5
      <4> HIDE DEF i, E, m
      <4> QED BY <2>5, <2>6, <4>1 DEF Within, n
    <3> HIDE DEF i, E, m
    <3>3. p = Len(Before(items, style, i)) + m
      BY <2>6, <3>1
    <3> QED BY <3>2, <3>3 DEF At
  <2>8. Heard(h, items, style, i, m)
    <3> HIDE DEF i, E, m
    <3>1. CASE m = 0
      <4>1. Here(i)
        BY <2>7, <3>1 DEF Here
      <4>2. Good(i)
        BY <2>3, <2>5, <4>1
      <4> QED BY <3>1, <4>2 DEF Good
    <3>2. CASE m > 0
      BY <2>5, <2>6, <2>7, <3>2 DEF n
    <3> QED BY <2>6, <3>1, <3>2
  <2>9. Heard(h, items, style, k, 0)
    <3>1. m = Len(EventsOf(k, items[k], style))
      OBVIOUS
    <3> HIDE DEF i, E, m
    <3> QED BY <2>5, <2>8, <3>1, ItemEnds DEF n
  <2> QED BY <2>2, <2>9 DEF Good
<1>3. ASSUME NEW i \in 0 .. Len(items), NEW j \in Nat, At(items, style, p, i, j)
      PROVE  Heard(h, items, style, i, j)
  <2>1. CASE j = 0
    <3>1. Here(i)
      BY <1>3, <2>1
    <3>2. Good(i)
      <4> HIDE DEF Good, Here
      <4> QED BY <1>2, <3>1
    <3> QED BY <2>1, <3>2
  <2>2. CASE j > 0
    BY <1>3, <2>2
  <2> QED BY <2>1, <2>2
<1> QED BY <1>3 DEF HeardUpto

(* The next event of the stream. *)
LEMMA StreamStep ==
  ASSUME MaxItems \in Nat, NEW items \in Outputs, NEW style \in Styles,
         style.reasoning \subseteq OfKind(items, "reasoning"),
         NEW h \in Hearing, NEW p \in Nat, p < Len(Events(items, style)),
         HeardUpto(h, items, style, p)
  PROVE  /\ Hear(h, Events(items, style)[p + 1]) \in Hearing
         /\ HeardUpto(Hear(h, Events(items, style)[p + 1]), items, style, p + 1)
<1> DEFINE n == Len(items)
           e == Events(items, style)[p + 1]
           g == Hear(h, e)
<1>1. e \in StreamEvent
  <2>1. Events(items, style) \in Seq(StreamEvent)
    BY EventsBefore
  <2> QED BY <2>1
<1>2. g \in Hearing
  <2> HIDE DEF e
  <2> QED BY <1>1, HearChanges
<1>3. ASSUME NEW i \in 0 .. n, NEW j \in Nat, j > 0, At(items, style, p + 1, i, j)
      PROVE  Heard(g, items, style, i, j)
  <2> DEFINE k == i + 1
             E == EventsOf(k, items[k], style)
             q == j - 1
             b == Len(Before(items, style, i))
  <2>1. Within(items, style, i, j) /\ p + 1 = b + j
    BY <1>3 DEF At
  <2>2. /\ i < n /\ i \in 0 .. n - 1 /\ Follows(k, i) /\ q \in Nat /\ q + 1 = j
        /\ i # n
    <3>1. i # n
      BY <1>3, <2>1 DEF Within
    <3>2. n \in Nat /\ i \in Nat
      BY ItemsType
    <3> QED BY <1>3, <3>1, <3>2 DEF Follows
  <2>3. j <= Len(E)
    BY <2>1, <2>2 DEF Within
  <2>4. Before(items, style, i) \in Seq(StreamEvent) /\ b \in Nat
    <3>1. Before(items, style, i) \in Seq(StreamEvent)
      BY EventsBefore
    <3> QED BY <3>1
  <2>5. E = EventsOf(k, items[k], style) /\ E \in Seq(StreamEvent)
    <3>1. k \in 1 .. Len(items)
      BY <2>2
    <3>2. Parts(items, style)[k] = E /\ Parts(items, style) \in Seq(Seq(StreamEvent))
          /\ k \in 1 .. Len(Parts(items, style))
      BY <3>1, PartsType
    <3> HIDE DEF k, E
    <3>3. Parts(items, style)[k] \in Seq(StreamEvent)
      BY <3>2
    <3> QED BY <3>2, <3>3 DEF E
  <2>6. j \in 1 .. Len(E) /\ q < Len(E)
    <3> HIDE DEF E
    <3>1. Len(E) \in Nat
      BY <2>5
    <3> QED BY <1>3, <2>3, <3>1
  <2>7. At(items, style, p, i, q)
    <3>1. Within(items, style, i, q)
      <4>1. q <= Len(E)
        <5> HIDE DEF E
        <5>1. Len(E) \in Nat
          BY <2>5
        <5> QED BY <2>3, <2>6, <5>1
      <4> HIDE DEF q
      <4> QED BY <2>2, <4>1 DEF Within
    <3>2. p = b + q
      <4> HIDE DEF b
      <4> QED BY <2>1, <2>4
    <3> HIDE DEF q
    <3> QED BY <3>1, <3>2 DEF At
  <2>8. Heard(h, items, style, i, q)
    <3> HIDE DEF q
    <3> QED BY <2>2, <2>7 DEF HeardUpto
  <2>9. e = E[q + 1]
    <3>1. Events(items, style)[b + j] = E[j]
      <4> HIDE DEF E, k, q
      <4>1. \A m \in 1 .. Len(E) :
              Events(items, style)[Len(Before(items, style, i)) + m] = E[m]
        BY <2>2, <2>5, EventsOfItem
      <4> QED BY <2>6, <4>1
    <3> HIDE DEF b, E
    <3> QED BY <2>1, <2>2, <3>1
  <2> HIDE DEF E, k, q, b, e
  <2>10. Heard(Hear(h, E[q + 1]), items, style, i, q + 1)
    BY <2>2, <2>5, <2>6, <2>8, HearNext
  <2> QED BY <2>2, <2>9, <2>10
<1>4. p + 1 \in Nat /\ p + 1 # 0
  OBVIOUS
<1>5. HeardUpto(g, items, style, p + 1)
  <2> DEFINE r == p + 1
  <2>1. \A i \in 0 .. Len(items), j \in Nat :
           j > 0 /\ At(items, style, r, i, j) => Heard(g, items, style, i, j)
    BY <1>3
  <2> HIDE DEF g, r
  <2>2. r \in Nat /\ r # 0
    BY <1>4 DEF r
  <2>3. HeardUpto(g, items, style, r)
    BY <1>2, <2>1, <2>2, Everywhere
  <2> QED BY <2>3 DEF r
<1> QED BY <1>2, <1>5

(* Nothing has been heard before the first event. *)
LEMMA StreamStarts ==
  ASSUME MaxItems \in Nat, NEW items \in Outputs, NEW style \in Styles,
         style.reasoning \subseteq OfKind(items, "reasoning")
  PROVE  Silence \in Hearing /\ HeardUpto(Silence, items, style, 0)
<1>1. Len(items) \in Nat /\ 0 \in 0 .. Len(items)
  BY ItemsType
<1>2. \A x \in DOMAIN items : x \in Nat /\ ~(x <= 0)
  BY ItemsType
<1>3. /\ Silence.content = <<>> /\ Silence.told = <<>> /\ Silence.spoken = {}
      /\ Silence.calls = <<>> /\ Silence.any = FALSE
  BY DEF Silence
<1>4. DOMAIN Silence.calls = {}
  BY <1>3
<1>5. Silence \in Hearing
  <2>1. <<>> \in [{} -> Text]
    OBVIOUS
  <2>2. <<>> \in Partial(Text)
    BY <2>1, PartialFunction
  <2>3. <<>> \in Text /\ <<>> \in Seq(Text)
    BY DEF Text
  <2> QED BY <2>2, <2>3 DEF Silence, Hearing
<1>6. HeardText(Silence, items, style, 0, 0)
  BY <1>1, <1>3, TextBetween, UptoGrows
<1>7. HeardReasoning(Silence, items, style, 0, 0)
  <2>1. {x \in style.reasoning : x <= 0} = {}
    BY <1>2 DEF OfKind
  <2>2. FlattenSeq(<<>>) = <<>>
    BY DEF FlattenSeq
  <2>3. Upto(items, "reasoning", 0) = <<>>
    BY UptoGrows
  <2> QED BY <1>1, <1>3, <2>1, <2>2, <2>3, ReasoningBetween
<1>8. HeardCalls(Silence, items, style, 0, 0)
  <2>1. {x \in OfKind(items, "call") : x <= 0} = {}
    BY <1>2 DEF OfKind
  <2> QED BY <1>1, <1>4, <2>1, CallsBetween
<1>9. Heard(Silence, items, style, 0, 0)
  BY <1>6, <1>7, <1>8 DEF Heard
<1>10. ASSUME NEW i \in 0 .. Len(items), NEW j \in Nat, j > 0, At(items, style, 0, i, j)
       PROVE  FALSE
  <2>1. Before(items, style, i) \in Seq(StreamEvent)
    BY EventsBefore
  <2>2. 0 = Len(Before(items, style, i)) + j
    BY <1>10 DEF At
  <2>3. Len(Before(items, style, i)) \in Nat
    BY <2>1
  <2> QED BY <1>10, <2>2, <2>3
<1> HIDE DEF Silence
<1>11. HeardUpto(Silence, items, style, 0)
  BY <1>5, <1>9, <1>10, Everywhere
<1> QED BY <1>5, <1>11

(* All of it has been heard after the last. *)
LEMMA StreamEnds ==
  ASSUME MaxItems \in Nat, NEW items \in Outputs, NEW style \in Styles, NEW h,
         HeardUpto(h, items, style, Len(Events(items, style)))
  PROVE  Heard(h, items, style, Len(items), 0)
<1> DEFINE n == Len(items)
<1>1. n \in Nat /\ n \in 0 .. n /\ ~(n < n)
  BY ItemsType
<1>2. Within(items, style, n, 0)
  BY <1>1 DEF Within
<1>3. /\ Len(Before(items, style, n)) = Len(Events(items, style))
      /\ Events(items, style) \in Seq(StreamEvent)
  BY EventsBefore
<1>4. At(items, style, Len(Events(items, style)), n, 0)
  <2>1. Len(Events(items, style)) \in Nat
    BY <1>3
  <2> QED BY <1>2, <1>3, <2>1 DEF At
<1> QED BY <1>1, <1>4 DEF HeardUpto

-----------------------------------------------------------------------------
(* The answer. *)

(* That anything came at all is noted aside. *)
LEMMA AnyIsAside ==
  ASSUME NEW h \in Hearing, NEW items, NEW style, NEW p, HeardUpto(h, items, style, p)
  PROVE  /\ [h EXCEPT !.any = TRUE] \in Hearing
         /\ HeardUpto([h EXCEPT !.any = TRUE], items, style, p)
<1> DEFINE g == [h EXCEPT !.any = TRUE]
<1>1. /\ g \in Hearing /\ g.content = h.content /\ g.told = h.told /\ g.spoken = h.spoken
      /\ g.calls = h.calls
  BY DEF Hearing
<1> HIDE DEF g
<1>2. ASSUME NEW i \in 0 .. Len(items), NEW j \in Nat, Heard(h, items, style, i, j)
      PROVE  Heard(g, items, style, i, j)
  <2>1. HeardText(g, items, style, i, j)
    BY <1>1, <1>2 DEF Heard, HeardText
  <2>2. HeardReasoning(g, items, style, i, j)
    BY <1>1, <1>2 DEF Heard, HeardReasoning
  <2>3. HeardCalls(g, items, style, i, j)
    BY <1>1, <1>2 DEF Heard, HeardCalls
  <2> QED BY <2>1, <2>2, <2>3 DEF Heard
<1>3. HeardUpto(g, items, style, p)
  BY <1>2 DEF HeardUpto
<1> QED BY <1>1, <1>3 DEF g

IsTheOutput(h, items) ==
  /\ h.content = TextOf(items, "message")
  /\ h.calls = CallsOf(items)
  /\ FlattenSeq(h.told) = TextOf(items, "reasoning")

(* What the last event merges. *)
LEMMA MergedParts ==
  ASSUME NEW h \in Hearing, NEW r \in Text, r = TextOf(reply.items, "reasoning")
  PROVE  /\ Merged(h).content = IF h.content = <<>> THEN TextOf(reply.items, "message") ELSE h.content
         /\ Merged(h).told = IF h.told = <<>> /\ r # <<>> THEN Append(h.told, r) ELSE h.told
         /\ Merged(h).calls = IF CallsOf(reply.items) # <<>> THEN CallsOf(reply.items) ELSE h.calls
<1> DEFINE t == IF h.told = <<>> /\ r # <<>> THEN Tell(h, r) ELSE h
<1>1. /\ t \in Hearing /\ t.content = h.content /\ t.calls = h.calls
      /\ t.told = IF h.told = <<>> /\ r # <<>> THEN Append(h.told, r) ELSE h.told
  <2>1. h.told \in Seq(Text)
    BY DEF Hearing
  <2>2. Append(h.told, r) \in Seq(Text)
    BY <2>1, Appending
  <2> QED BY <2>2 DEF Tell, Hearing
<1>2. Merged(h) =
        [t EXCEPT !.content = IF t.content = <<>> THEN TextOf(reply.items, "message") ELSE t.content,
                  !.calls = IF CallsOf(reply.items) # <<>> THEN CallsOf(reply.items) ELSE t.calls,
                  !.any = t.any \/ reply.items # <<>>]
  BY DEF Merged
<1> HIDE DEF t
<1>3. /\ Merged(h).content = IF t.content = <<>> THEN TextOf(reply.items, "message") ELSE t.content
      /\ Merged(h).told = t.told
      /\ Merged(h).calls = IF CallsOf(reply.items) # <<>> THEN CallsOf(reply.items) ELSE t.calls
  BY <1>1, <1>2 DEF Hearing
<1> QED BY <1>1, <1>3

(* What a gateway did not stream, its last event tells. *)
LEMMA MergedIsTheOutput ==
  ASSUME MaxItems \in Nat, NEW items \in Outputs, items = reply.items, NEW style \in Styles,
         NEW protocol, Tells(protocol, items, style),
         NEW h \in Hearing, Heard(h, items, style, Len(items), 0)
  PROVE  IsTheOutput(IF style.whole THEN Merged(h) ELSE h, items)
<1> DEFINE n == Len(items)
           g == IF style.whole THEN Merged(h) ELSE h
           r == TextOf(items, "reasoning")
           s == TextOf(items, "message")
           c == CallsOf(items)
           K == OfKind(items, "call")
<1>1. /\ n \in Nat /\ n \in 0 .. n /\ DOMAIN items = 1 .. n
      /\ r = Upto(items, "reasoning", n) /\ s = Upto(items, "message", n)
      /\ r \in Text
  <2>1. n \in Nat /\ n \in 0 .. n /\ DOMAIN items = 1 .. n
    BY ItemsType
  <2> QED BY <2>1, UptoGrows
<1>2. h.content = IF ~style.text THEN <<>> ELSE s
  BY <1>1, TextBetween DEF Heard
<1>3. /\ Full(items, style) => FlattenSeq(h.told) = r
      /\ Unspoken(style) => h.told = <<>>
  BY <1>1, ReasoningBetween DEF Heard
<1>4. /\ DOMAIN h.calls = K
      /\ Streamed(style) => \A x \in K : h.calls[x] = Pieces(x)
  <2>1. /\ DOMAIN h.calls = {x \in K : x <= n}
        /\ Streamed(style) => \A x \in DOMAIN h.calls : h.calls[x] = Pieces(x)
    BY <1>1, CallsBetween DEF Heard
  <2>2. {x \in K : x <= n} = K
    BY <1>1 DEF OfKind
  <2> HIDE DEF K, n
  <2> QED BY <2>1, <2>2
<1>5. h.calls = [x \in K |-> h.calls[x]]
  <2>1. h.calls \in Partial(Text)
    BY DEF Hearing
  <2>2. PICK D \in SUBSET Nat : h.calls \in [D -> Text]
    BY <2>1, PartialFunction
  <2> HIDE DEF K
  <2> QED BY <1>4, <2>2
<1>6. c = [x \in K |-> Pieces(x)]
  BY DEF CallsOf
<1>7. /\ style.whole \in BOOLEAN /\ style.text \in BOOLEAN /\ style.finished \in BOOLEAN
      /\ style.arguments \in BOOLEAN /\ style.early \in BOOLEAN
  BY DEF Styles
<1>8. /\ ~style.text => style.whole
      /\ Full(items, style) \/ (Unspoken(style) /\ style.whole)
      /\ Streamed(style) \/ style.whole
  <2>1. CASE protocol = "chat"
    BY <1>7, <2>1 DEF Tells, Full, Streamed
  <2>2. CASE protocol # "chat"
    <3>1. /\ style.whole \/ (style.text /\ style.finished)
          /\ style.finished \/ style.reasoning \in {{}, OfKind(items, "reasoning")}
      BY <2>2 DEF Tells
    <3> QED BY <1>7, <3>1 DEF Full, Unspoken, Streamed
  <2> QED BY <2>1, <2>2
<1>9. h.told \in Seq(Text)
  BY DEF Hearing
<1>10. CASE style.whole
  <2>0. g = Merged(h)
    BY <1>10
  <2>1. /\ g.content = IF h.content = <<>> THEN s ELSE h.content
        /\ g.told = IF h.told = <<>> /\ r # <<>> THEN Append(h.told, r) ELSE h.told
        /\ g.calls = IF c # <<>> THEN c ELSE h.calls
    BY <1>1, <2>0, MergedParts
  <2> HIDE DEF g, r, s, c, K, n
  <2>2. g.content = s
    BY <1>2, <2>1
  <2>3. FlattenSeq(g.told) = r
    <3>0. FlattenSeq(<<>>) = <<>>
      BY DEF FlattenSeq
    <3>1. CASE Full(items, style)
      BY <1>3, <2>1, <3>0, <3>1
    <3>2. CASE Unspoken(style)
      <4>1. h.told = <<>>
        BY <1>3, <3>2
      <4>2. FlattenSeq(Append(h.told, r)) = FlattenSeq(h.told) \o r
        BY <1>1, <1>9, FlattenAppend DEF Text
      <4>3. <<>> \o r = r
        BY <1>1, JoiningTexts
      <4> QED BY <2>1, <3>0, <4>1, <4>2, <4>3
    <3> QED BY <1>8, <3>1, <3>2
  <2>4. g.calls = c
    <3>1. CASE c = <<>>
      <4>1. K = {}
        BY <1>6, <3>1
      <4>2. h.calls = c
        BY <1>5, <1>6, <4>1
      <4> QED BY <2>1, <3>1, <4>2
    <3>2. CASE c # <<>>
      BY <2>1, <3>2
    <3> QED BY <3>1, <3>2
  <2> QED BY <2>2, <2>3, <2>4 DEF IsTheOutput, g, r, s, c
<1>11. CASE ~style.whole
  <2>0. g = h
    BY <1>11
  <2> HIDE DEF g, r, s, c, K, n
  <2>1. h.content = s
    BY <1>2, <1>8, <1>11
  <2>2. FlattenSeq(h.told) = r
    BY <1>3, <1>8, <1>11
  <2>3. h.calls = c
    <3>1. \A x \in K : h.calls[x] = Pieces(x)
      BY <1>4, <1>8, <1>11
    <3> QED BY <1>5, <1>6, <3>1
  <2>4. IsTheOutput(h, items)
    BY <2>1, <2>2, <2>3 DEF IsTheOutput, r, s, c
  <2> QED BY <2>0, <2>4 DEF g
<1> QED BY <1>10, <1>11

(* What has been heard where the request is, and how it was answered. *)
Replies == [items : Outputs, style : Styles, next : Nat]

AnswerInv ==
  /\ request.at = "stream" =>
       /\ reply \in Replies /\ Tells(request.protocol, reply.items, reply.style)
       /\ reply.next >= 1 /\ reply.next <= Len(Sent) + 1
       /\ heard \in Hearing /\ HeardUpto(heard, reply.items, reply.style, reply.next - 1)
  /\ request.at = "check" => IsTheOutput(heard, reply.items)
  /\ AnswerIsTheOutput

(* Each step of a request keeps what has been heard. *)
LEMMA AnswerNextInv ==
  ASSUME MaxItems \in Nat, ClientInv, AnswerInv, [ClientNext]_clientVars
  PROVE  AnswerInv'
<1>0. request \in Requesting
  BY DEF ClientInv
(* A request that is not answered has nothing to answer for. *)
<1>1. ASSUME request'.at \in {"start", "send", "failed"} PROVE AnswerInv'
  BY <1>1 DEF AnswerInv, AnswerIsTheOutput
<1>2. ASSUME NEW failure, NEW error, FailWith(failure, error) PROVE AnswerInv'
  <2>1. request'.at = "failed"
    BY <1>0, <1>2 DEF FailWith, Requesting
  <2> QED BY <1>1, <2>1
<1>3. ASSUME NEW yes \in BOOLEAN, Configured(yes) PROVE AnswerInv'
  <2>1. CASE yes
    <3>1. request'.at = "send"
      BY <1>0, <1>3, <2>1 DEF Configured, MoveTo, Requesting
    <3> QED BY <1>1, <3>1
  <2>2. CASE ~yes
    BY <1>2, <1>3, <2>2 DEF Configured
  <2> QED BY <2>1, <2>2
<1>4. ASSUME NEW error \in Errors, Refuse(error) PROVE AnswerInv'
  <2>1. CASE Category(error) \in Retryable /\ request.attempts + 1 < MaxAttempts
    <3>1. request' = [request EXCEPT !.attempts = request.attempts + 1] /\ request.at = "send"
      BY <1>4, <2>1 DEF Refuse
    <3>2. request'.at = "send"
      BY <1>0, <3>1 DEF Requesting
    <3> QED BY <1>1, <3>2
  <2>2. CASE ~(Category(error) \in Retryable /\ request.attempts + 1 < MaxAttempts)
    BY <1>2, <1>4, <2>2 DEF Refuse
  <2> QED BY <2>1, <2>2
<1>5. ASSUME NEW error \in Errors, Break(error) PROVE AnswerInv'
  BY <1>2, <1>5 DEF Break
<1>6. ASSUME NEW items \in Outputs, NEW style \in Styles, Open(items, style)
      PROVE  AnswerInv'
  <2>1. /\ Tells(request.protocol, items, style)
        /\ reply' = [items |-> items, style |-> style, next |-> 1]
        /\ heard' = Silence /\ request' = [request EXCEPT !.at = "stream"]
    BY <1>6 DEF Open, MoveTo
  <2>2. request'.at = "stream" /\ request'.protocol = request.protocol
    BY <1>0, <2>1 DEF Requesting
  <2>3. reply' \in Replies /\ reply'.items = items /\ reply'.style = style /\ reply'.next = 1
    BY <2>1 DEF Replies
  <2>4. style.reasoning \subseteq OfKind(items, "reasoning")
    BY <2>1 DEF Tells
  <2>5. Silence \in Hearing /\ HeardUpto(Silence, items, style, 0)
    BY <2>4, StreamStarts
  <2>6. 1 <= Len(Sent') + 1
    <3>1. Sent' = Events(items, style)
      BY <2>3 DEF Sent
    <3>2. Events(items, style) \in Seq(StreamEvent)
      BY EventsBefore
    <3> QED BY <3>1, <3>2
  <2>7. HeardUpto(heard', reply'.items, reply'.style, reply'.next - 1)
    BY <2>1, <2>3, <2>5
  <2> QED BY <2>1, <2>2, <2>3, <2>5, <2>6, <2>7 DEF AnswerInv, AnswerIsTheOutput
<1>7. CASE Receive
  <2> DEFINE items == reply.items
             style == reply.style
             p == reply.next - 1
             g == Hear(heard, Sent[reply.next])
  <2>1. /\ request.at = "stream" /\ reply.next <= Len(Sent) /\ UNCHANGED <<request, outcome>>
        /\ heard' = [g EXCEPT !.any = TRUE]
        /\ reply' = [reply EXCEPT !.next = reply.next + 1]
    BY <1>7 DEF Receive
  <2>2. /\ reply \in Replies /\ Tells(request.protocol, items, style) /\ reply.next >= 1
        /\ heard \in Hearing /\ HeardUpto(heard, items, style, p)
    BY <2>1 DEF AnswerInv
  <2>3. /\ items \in Outputs /\ style \in Styles /\ reply.next \in Nat
        /\ style.reasoning \subseteq OfKind(items, "reasoning")
    BY <2>2 DEF Replies, Tells
  <2>4. Sent = Events(items, style) /\ Len(Sent) \in Nat
    <3>1. Sent = Events(items, style)
      BY DEF Sent
    <3>2. Events(items, style) \in Seq(StreamEvent)
      BY <2>3, EventsBefore
    <3> QED BY <3>1, <3>2
  <2>5. p \in Nat /\ p < Len(Events(items, style)) /\ p + 1 = reply.next
    BY <2>1, <2>2, <2>3, <2>4
  <2>6. g \in Hearing /\ HeardUpto(g, items, style, reply.next)
    <3>1. g = Hear(heard, Events(items, style)[p + 1])
      BY <2>4, <2>5
    <3> HIDE DEF g, p, items, style
    <3> QED BY <2>2, <2>3, <2>5, <3>1, StreamStep
  <2> HIDE DEF g
  <2>7. heard' \in Hearing /\ HeardUpto(heard', items, style, reply.next)
    BY <2>1, <2>6, AnyIsAside
  <2>8. /\ reply' \in Replies /\ reply'.items = items /\ reply'.style = style
        /\ reply'.next = reply.next + 1
    BY <2>1, <2>2, <2>3 DEF Replies
  <2>9. Sent' = Sent
    BY <2>8 DEF Sent
  <2>10. (reply.next + 1) - 1 = reply.next /\ reply.next + 1 >= 1 /\ reply.next + 1 <= Len(Sent) + 1
    BY <2>1, <2>3, <2>4
  <2>11. /\ request' = request /\ request'.at = "stream"
         /\ HeardUpto(heard', reply'.items, reply'.style, reply'.next - 1)
    BY <2>1, <2>7, <2>8, <2>10
  <2> HIDE DEF items, style, p
  <2> QED BY <2>2, <2>7, <2>8, <2>9, <2>10, <2>11 DEF AnswerInv, AnswerIsTheOutput, items, style
<1>8. CASE End
  <2> DEFINE items == reply.items
             style == reply.style
  <2>1. /\ request.at = "stream" /\ reply.next > Len(Sent) /\ UNCHANGED <<reply, outcome>>
        /\ heard' = IF reply.style.whole THEN Merged(heard) ELSE heard
        /\ request' = [request EXCEPT !.at = "check"]
    BY <1>8 DEF End, MoveTo
  <2>2. /\ reply \in Replies /\ Tells(request.protocol, items, style)
        /\ reply.next <= Len(Sent) + 1
        /\ heard \in Hearing /\ HeardUpto(heard, items, style, reply.next - 1)
    BY <2>1 DEF AnswerInv
  <2>3. items \in Outputs /\ style \in Styles /\ reply.next \in Nat
    BY <2>2 DEF Replies
  <2>4. Sent = Events(items, style) /\ Len(Sent) \in Nat
    <3>1. Sent = Events(items, style)
      BY DEF Sent
    <3>2. Events(items, style) \in Seq(StreamEvent)
      BY <2>3, EventsBefore
    <3> QED BY <3>1, <3>2
  <2>5. reply.next - 1 = Len(Events(items, style))
    BY <2>1, <2>2, <2>3, <2>4
  <2>6. HeardUpto(heard, items, style, Len(Events(items, style)))
    BY <2>2, <2>5
  <2>7. items = reply.items
    OBVIOUS
  <2> HIDE DEF items
  <2>8. Heard(heard, items, style, Len(items), 0)
    <3> HIDE DEF style
    <3> QED BY <2>3, <2>6, StreamEnds
  <2>9. IsTheOutput(IF style.whole THEN Merged(heard) ELSE heard, items)
    <3> HIDE DEF style
    <3> QED BY <2>2, <2>3, <2>7, <2>8, MergedIsTheOutput
  <2>10. request'.at = "check" /\ reply' = reply /\ IsTheOutput(heard', reply'.items)
    BY <1>0, <2>1, <2>7, <2>9 DEF Requesting
  <2> QED BY <2>10 DEF AnswerInv, AnswerIsTheOutput
<1>9. CASE Accept
  <2>1. /\ request.at = "check" /\ outcome' = Collected /\ UNCHANGED <<reply, heard>>
        /\ request' = [request EXCEPT !.at = "answered"]
    BY <1>9 DEF Accept, MoveTo
  <2>2. IsTheOutput(heard, reply.items)
    BY <2>1 DEF AnswerInv
  <2>3. request'.at = "answered"
    BY <1>0, <2>1 DEF Requesting
  <2>4. AnswerIsTheOutput'
    BY <2>1, <2>2 DEF AnswerIsTheOutput, IsTheOutput, Collected
  <2> QED BY <2>3, <2>4 DEF AnswerInv
<1>10. CASE Reject
  BY <1>2, <1>10 DEF Reject
<1>11. CASE Repair
  <2>1. request'.at = "send"
    BY <1>0, <1>11 DEF Repair, Requesting
  <2> QED BY <1>1, <2>1
<1>12. CASE UNCHANGED clientVars
  BY <1>12 DEF clientVars, AnswerInv, AnswerIsTheOutput, Sent
<1> QED BY <1>3, <1>4, <1>5, <1>6, <1>7, <1>8, <1>9, <1>10, <1>11, <1>12 DEF ClientNext

(* Whichever of the events of its protocol a gateway sends, and however many
   items the output has, the answer is the output: all of the text and of the
   calls, and the reasoning told once and in order. *)
THEOREM SpecAnswerIsTheOutput ==
  ASSUME MaxItems \in Nat, MaxRepairs \in Nat
  PROVE  ClientSpec => []AnswerIsTheOutput
<1>1. ClientInit => AnswerInv
  BY DEF ClientInit, AnswerInv, AnswerIsTheOutput
<1>2. ClientInv /\ AnswerInv /\ [ClientNext]_clientVars => AnswerInv'
  BY AnswerNextInv
<1>3. AnswerInv => AnswerIsTheOutput
  BY DEF AnswerInv
<1> QED BY <1>1, <1>2, <1>3, ClientSpecInv, PTL DEF ClientSpec
=============================================================================
