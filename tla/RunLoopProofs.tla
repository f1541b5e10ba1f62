--------------------------- MODULE RunLoopProofs ----------------------------
(***************************************************************************)
(* TLAPS proofs about RunLoop, for every set of workers, visit cap, model  *)
(* list, cost and number of restarts: IndInv and what follows from it, the *)
(* refinement of HubRun, and LogInv, what the log tells.                   *)
(***************************************************************************)
EXTENDS RunLoop, WellFoundedInduction, SequenceTheorems, FiniteSetTheorems, TLAPS

\* The reducer keeps the shape of a checkpoint and leaves the active session
\* to the lifecycle reducer (reduce.ts, accept).
LEMMA ReduceShape ==
    ASSUME NEW c \in Checkpoints, NEW ev \in Events
    PROVE  /\ Reduce(c, ev) \in Checkpoints
           /\ Reduce(c, ev).active = c.active
<1> USE RoleAssumption, PolicyAssumption
<1>1. CASE ~Accepts(c, ev)
  BY <1>1 DEF Reduce
<1>2. CASE Accepts(c, ev) /\ c.role = Orchestrator /\ ev.type = "end"
  BY <1>2 DEF Reduce, Advance, AfterOrchestrator, Checkpoints, States, Roles
<1>3. CASE Accepts(c, ev) /\ c.role = Orchestrator /\ ev.type # "end"
  <2>1. ev.target \in Workers
    BY <1>3 DEF Accepts, Verdict, VerdictFromOrchestrator
  <2>2. Reduce(c, ev) = [role |-> ev.target,
                         visits |-> [c.visits EXCEPT ![ev.target] = c.visits[ev.target] + 1],
                         endReq |-> None, active |-> c.active]
    BY <1>3, <2>1 DEF Reduce, Advance, AfterOrchestrator, Checkpoints
  <2>3. [c.visits EXCEPT ![ev.target] = c.visits[ev.target] + 1] \in [Workers -> Nat]
    BY <2>1 DEF Checkpoints
  <2>. QED BY <2>1, <2>2, <2>3 DEF Checkpoints, States, Roles
<1>4. CASE Accepts(c, ev) /\ c.role # Orchestrator
  <2>1. c.role \in Workers
    BY <1>4 DEF Accepts, Verdict, Checkpoints, States, Roles
  <2>2. Reduce(c, ev) = [c EXCEPT !.role = Orchestrator,
                                  !.endReq = IF ev.requestEnd THEN c.role ELSE @]
    BY <1>4 DEF Reduce, Advance, AfterWorker
  <2>. QED BY <2>1, <2>2 DEF Checkpoints, States, Roles
<1>. QED BY <1>1, <1>2, <1>3, <1>4

-----------------------------------------------------------------------------
\* The events and checkpoints the loop builds have the types of events and
\* checkpoints.
LEMMA EventShapes ==
    /\ RoleEvents \subseteq Events
    /\ End("role") \in RoleEvents /\ End("run_cost_cap") \in Events /\ Unavailable \in RoleEvents
<1>1. RoleEvents \subseteq Events /\ End("run_cost_cap") \in Events /\ End("role") \in RoleEvents
  BY DEF Events, RoleEvents
<1>2. Unavailable \in RoleEvents
  BY DEF RoleEvents, Unavailable, Handoff, Roles
<1>. QED BY <1>1, <1>2

LEMMA EventFields ==
    ASSUME NEW ev \in Events
    PROVE  /\ ev.authority \in {"role", "run_cost_cap"} /\ ev.requestEnd \in BOOLEAN
           /\ ev.type \in {"handoff", "end"}
<1>1. CASE ev = End("role")
  BY <1>1 DEF End
<1>2. CASE ev = End("run_cost_cap")
  BY <1>2 DEF End
<1>3. CASE ev \in [type : {"handoff"}, target : Roles \cup {None}, requestEnd : BOOLEAN,
                   authority : {"role"}]
  BY <1>3
<1>. QED BY <1>1, <1>2, <1>3 DEF Events, RoleEvents

LEMMA CheckpointShapes ==
    /\ InitialCheckpoint \in Checkpoints
    /\ \A c \in Checkpoints : SessionTerminal(c) \in Checkpoints
    /\ \A c \in Checkpoints, n \in Nat : SessionStarted(c, n) \in Checkpoints
<1>1. InitialCheckpoint \in Checkpoints
  BY DEF InitialCheckpoint, Checkpoints, States, Roles, NoSession
<1>2. ASSUME NEW c \in Checkpoints, NEW n \in Nat
      PROVE  SessionTerminal(c) \in Checkpoints /\ SessionStarted(c, n) \in Checkpoints
  BY DEF SessionTerminal, SessionStarted, NoSession, Checkpoints
<1>. QED BY <1>1, <1>2

LEMMA InitialType == Init => TypeOK
<1>. SUFFICES ASSUME Init PROVE TypeOK
  OBVIOUS
<1>1. attempt \in [model : Nat, retry : Nat] /\ visitIx \in [Roles -> Nat]
  BY DEF Init, FirstAttempt, FirstIndexes
<1>2. snap \in Checkpoints /\ cp \in Checkpoints /\ event \in Events
  BY EventShapes, CheckpointShapes DEF Init
<1>3. sessions \in Seq(SessionRecords) /\ accepts \in Seq(AcceptRecords)
  BY DEF Init
<1>. QED
  BY <1>1, <1>2, <1>3 DEF Init, TypeOK, Outcomes, ExitReasons, Steps, NoSession

-----------------------------------------------------------------------------
\* Every non-empty set of naturals has a least element: the form in which
\* the proofs below reason by induction.
LEMMA LeastElement ==
    ASSUME NEW T \in SUBSET Nat, T # {}
    PROVE  \E m \in T : \A n \in T : m <= n
<1>. DEFINE Less == {p \in Nat \X Nat : p[1] < p[2]}
<1>1. IsWellFoundedOn(Less, Nat)
  <2>1. Less = OpToRel(<, Nat)
    BY DEF OpToRel
  <2>. QED BY <2>1, NatLessThanWellFounded
<1>2. PICK m \in T : \A n \in T : ~(<<n, m>> \in Less)
  <2>. HIDE DEF Less
  <2>. QED BY <1>1, WFMin
<1>3. ASSUME NEW n \in T PROVE m <= n
  <2>1. ~(<<n, m>> \in Less)
    BY <1>2
  <2>. HIDE DEF Less
  <2>2. n \in Nat /\ m \in Nat
    OBVIOUS
  <2>. QED BY <2>1, <2>2 DEF Less
<1>. QED BY <1>3

\* The records of a session log and their fields.
LEMMA SessionFields ==
    ASSUME NEW log \in Seq(SessionRecords), NEW i \in DOMAIN log
    PROVE  /\ log[i] \in SessionRecords
           /\ log[i].role \in Roles
           /\ log[i].visit \in Nat /\ log[i].ends \in Nat /\ log[i].fails \in Nat
<1>1. log[i] \in SessionRecords
  OBVIOUS
<1>2. ASSUME NEW rec \in SessionRecords
      PROVE  /\ rec.role \in Roles
             /\ rec.visit \in Nat /\ rec.ends \in Nat /\ rec.fails \in Nat
  BY DEF SessionRecords
<1>. QED BY <1>1, <1>2

\* Finitely many naturals have an upper bound; the visit indexes of a log have one.
LEMMA FinitelyManyAreBounded ==
    ASSUME NEW k \in Nat, NEW f \in [1..k -> Nat]
    PROVE  \E b \in Nat : \A i \in 1..k : f[i] <= b
<1>. DEFINE Bounds(n, b) == \A i \in 1..n : f[i] <= b
            Unbounded == {n \in 0..k : \A b \in Nat : ~Bounds(n, b)}
<1>1. ASSUME Unbounded # {}
      PROVE  FALSE
  <2>1. PICK n \in Unbounded : \A m \in Unbounded : n <= m
    <3>1. Unbounded \in SUBSET Nat
      OBVIOUS
    <3>. HIDE DEF Unbounded
    <3>. QED BY <1>1, <3>1, LeastElement
  <2>2. n \in 0..k /\ \A b \in Nat : ~Bounds(n, b)
    BY <2>1
  <2>3. n # 0
    <3>1. Bounds(0, 0) /\ 0 \in Nat
      OBVIOUS
    <3>. HIDE DEF Bounds, Unbounded
    <3>. QED BY <3>1, <2>2
  <2>4. n - 1 \in 0..k /\ n - 1 \notin Unbounded
    <3>1. n - 1 \in Unbounded => n <= n - 1
      <4>. HIDE DEF Unbounded
      <4>. QED BY <2>1
    <3>. HIDE DEF Unbounded, Bounds
    <3>. QED BY <3>1, <2>2, <2>3
  <2>5. PICK b \in Nat : Bounds(n - 1, b)
    <3>. HIDE DEF Bounds
    <3>. QED BY <2>4
  <2>6. f[n] \in Nat
    BY <2>2, <2>3
  <2>7. Bounds(n, b + f[n])
    <3>1. ASSUME NEW i \in 1..n PROVE f[i] <= b + f[n]
      <4>1. CASE i = n
        BY <4>1, <2>6
      <4>2. CASE i # n
        <5>1. i \in 1..(n - 1) /\ i \in 1..k
          BY <4>2, <2>2
        <5>2. f[i] \in Nat /\ f[i] <= b
          BY <5>1, <2>5
        <5>. QED BY <5>2, <2>6
      <4>. QED BY <4>1, <4>2
    <3>. QED BY <3>1
  <2>8. b + f[n] \in Nat
    BY <2>6
  <2>. HIDE DEF Bounds, Unbounded
  <2>. QED BY <2>2, <2>7, <2>8
<1>2. PICK b \in Nat : Bounds(k, b)
  <2>1. k \in 0..k
    OBVIOUS
  <2>. HIDE DEF Bounds
  <2>. QED BY <1>1, <2>1
<1>. QED BY <1>2

LEMMA VisitsAreBounded ==
    ASSUME NEW log \in Seq(SessionRecords)
    PROVE  \E b \in Nat : \A i \in DOMAIN log : log[i].visit <= b
<1>. DEFINE f == [i \in 1..Len(log) |-> log[i].visit]
<1>1. Len(log) \in Nat /\ DOMAIN log = 1..Len(log)
  OBVIOUS
<1>2. f \in [1..Len(log) -> Nat]
  BY SessionFields
<1>3. \A i \in DOMAIN log : f[i] = log[i].visit
  OBVIOUS
<1>4. PICK b \in Nat : \A i \in 1..Len(log) : f[i] <= b
  <2>. HIDE DEF f
  <2>. QED BY <1>1, <1>2, FinitelyManyAreBounded
<1>5. \A i \in DOMAIN log : log[i].visit <= b
  BY <1>1, <1>4
<1>. QED BY <1>5

\* nextVisitIndexes: the index a resumed run gives a role is above every
\* index a session_started record of the role carries.
LEMMA NextVisitIndexIsFresh ==
    ASSUME TypeOK, NEW r \in Roles
    PROVE  /\ NextVisitIndex(r) \in Nat
           /\ \A s \in Sessions : sessions[s].role = r => sessions[s].visit < NextVisitIndex(r)
<1>. DEFINE used == {0} \cup {sessions[s].visit : s \in {s \in DOMAIN sessions : sessions[s].role = r}}
            Above == {n \in Nat : \A v \in used : v <= n}
<1>1. used \subseteq Nat /\ 0 \in used
  BY SessionFields DEF TypeOK
<1>2. Above # {}
  <2>1. PICK b \in Nat : \A i \in DOMAIN sessions : sessions[i].visit <= b
    BY VisitsAreBounded DEF TypeOK
  <2>2. b \in Above
    BY <2>1
  <2>. QED BY <2>2
<1>3. PICK top \in Above : \A n \in Above : top <= n
  <2>1. Above \in SUBSET Nat
    OBVIOUS
  <2>. HIDE DEF Above
  <2>. QED BY <1>2, <2>1, LeastElement
<1>4. top \in used
  <2>. HIDE DEF used
  <2>1. SUFFICES ASSUME top \notin used PROVE FALSE
    OBVIOUS
  <2>2. top - 1 \in Nat /\ \A v \in used : v <= top - 1
    BY <1>1, <2>1
  <2>. QED BY <1>3, <2>2
<1>5. \E t \in used : \A v \in used : v <= t
  BY <1>3, <1>4
<1>6. NextVisitIndex(r) = 1 + (CHOOSE t \in used : \A v \in used : v <= t)
  BY DEF NextVisitIndex
<1>7. PICK t \in used : NextVisitIndex(r) = 1 + t /\ \A v \in used : v <= t
  <2>. HIDE DEF used
  <2>. QED BY <1>5, <1>6
<1>8. NextVisitIndex(r) \in Nat
  BY <1>1, <1>7
<1>9. ASSUME NEW s \in Sessions, sessions[s].role = r
      PROVE  sessions[s].visit < NextVisitIndex(r)
  <2>1. sessions[s].visit \in used
    BY <1>9 DEF Sessions
  <2>2. sessions[s].visit \in Nat /\ t \in Nat /\ sessions[s].visit <= t
    <3>. HIDE DEF used
    <3>. QED BY <2>1, <1>1, <1>7
  <2>. QED BY <2>2, <1>7
<1>. QED BY <1>8, <1>9

-----------------------------------------------------------------------------
(* Every step keeps IndInv.  One lemma per action or family of actions.    *)

LEMMA ForcedEndStep == IndInv /\ ForcedEnd => IndInv'
<1>. SUFFICES ASSUME IndInv, ForcedEnd PROVE IndInv'
  OBVIOUS
<1>. USE DEF IndInv, ForcedEnd, AtOuter
<1>1. TypeOK'
  BY EventShapes DEF TypeOK, durable, turn, visit, life, Steps, Down, Outcomes, SessionFailures, ExitReasons
<1>2. SameControl' /\ RoleInControl' /\ PendingCommit' /\ PendingCapClose' /\ DeferralHolds'
  BY BoundAssumption DEF SameControl, RoleInControl, PendingCommit, PendingCapClose, DeferralHolds, Capped, TypeOK,
         Checkpoints, States, InVisit, durable, turn, visit, life, Down, LiveSession, Live, Between, Steps, Roles
<1>3. LiveSession' /\ TerminatesOnce'
  BY DEF LiveSession, TerminatesOnce, Sessions, Open, Live, Between, Steps, Down, TypeOK,
         durable, turn, visit, life
<1>. QED BY <1>1, <1>2, <1>3

LEMMA BeginVisitStep == IndInv /\ BeginVisit => IndInv'
<1>. SUFFICES ASSUME IndInv, BeginVisit PROVE IndInv'
  OBVIOUS
<1>. USE DEF IndInv, BeginVisit, AtOuter, FirstAttempt
<1>1. TypeOK'
  BY EventShapes DEF TypeOK, durable, turn, visit, life, Steps, Down, Outcomes, SessionFailures, ExitReasons
<1>2. SameControl' /\ RoleInControl' /\ PendingCommit' /\ PendingCapClose' /\ DeferralHolds'
  BY BoundAssumption DEF SameControl, RoleInControl, PendingCommit, PendingCapClose, DeferralHolds, Capped, TypeOK,
         Checkpoints, States, InVisit, durable, turn, visit, life, Down, LiveSession, Live, Between, Steps, Roles
<1>3. LiveSession' /\ TerminatesOnce'
  BY DEF LiveSession, TerminatesOnce, Sessions, Open, Live, Between, Steps, Down, TypeOK,
         durable, turn, visit, life
<1>. QED BY <1>1, <1>2, <1>3

LEMMA SpawnStep == IndInv /\ Spawn => IndInv'
<1>. SUFFICES ASSUME IndInv, Spawn PROVE IndInv'
  OBVIOUS
<1>. USE DEF IndInv, Spawn
<1>1. TypeOK'
  BY EventShapes DEF TypeOK, durable, turn, visit, life, Steps, Down, Outcomes, SessionFailures, ExitReasons
<1>2. SameControl' /\ RoleInControl' /\ PendingCommit' /\ PendingCapClose' /\ DeferralHolds'
  BY BoundAssumption DEF SameControl, RoleInControl, PendingCommit, PendingCapClose, DeferralHolds, Capped, TypeOK,
         Checkpoints, States, InVisit, durable, turn, visit, life, Down, LiveSession, Live, Between, Steps, Roles
<1>3. LiveSession' /\ TerminatesOnce'
  BY DEF LiveSession, TerminatesOnce, Sessions, Open, Live, Between, Steps, Down, TypeOK,
         durable, turn, visit, life
<1>. QED BY <1>1, <1>2, <1>3

LEMMA NoMoreModelsStep == IndInv /\ NoMoreModels => IndInv'
<1>. SUFFICES ASSUME IndInv, NoMoreModels PROVE IndInv'
  OBVIOUS
<1>. USE DEF IndInv, NoMoreModels
<1>1. TypeOK'
  BY EventShapes DEF TypeOK, durable, turn, visit, life, Steps, Down, Outcomes, SessionFailures, ExitReasons
<1>2. SameControl' /\ RoleInControl' /\ PendingCommit' /\ PendingCapClose' /\ DeferralHolds'
  BY BoundAssumption DEF SameControl, RoleInControl, PendingCommit, PendingCapClose, DeferralHolds, Capped, TypeOK,
         Checkpoints, States, InVisit, durable, turn, visit, life, Down, LiveSession, Live, Between, Steps, Roles
<1>3. LiveSession' /\ TerminatesOnce'
  BY DEF LiveSession, TerminatesOnce, Sessions, Open, Live, Between, Steps, Down, TypeOK,
         durable, turn, visit, life
<1>. QED BY <1>1, <1>2, <1>3

LEMMA StartSnapshotStep == IndInv /\ StartSnapshot => IndInv'
<1>. SUFFICES ASSUME IndInv, StartSnapshot PROVE IndInv'
  OBVIOUS
<1>. USE DEF IndInv, StartSnapshot
<1>1. TypeOK'
  BY EventShapes DEF TypeOK, durable, turn, visit, life, Steps, Down, Outcomes, SessionFailures, ExitReasons
<1>2. SameControl' /\ RoleInControl' /\ PendingCommit' /\ PendingCapClose' /\ DeferralHolds'
  BY BoundAssumption DEF SameControl, RoleInControl, PendingCommit, PendingCapClose, DeferralHolds, Capped, TypeOK,
         Checkpoints, States, InVisit, durable, turn, visit, life, Down, LiveSession, Live, Between, Steps, Roles
<1>3. LiveSession' /\ TerminatesOnce'
  BY DEF LiveSession, TerminatesOnce, Sessions, Open, Live, Between, Steps, Down, TypeOK,
         durable, turn, visit, life
<1>. QED BY <1>1, <1>2, <1>3

LEMMA FailSnapshotStep == IndInv /\ FailSnapshot => IndInv'
<1>. SUFFICES ASSUME IndInv, FailSnapshot PROVE IndInv'
  OBVIOUS
<1>. USE DEF IndInv, FailSnapshot, TerminalSnapshot
<1>1. TypeOK'
  BY EventShapes DEF TypeOK, durable, turn, visit, life, Steps, Down, Outcomes, SessionFailures, ExitReasons
<1>2. SameControl' /\ RoleInControl' /\ PendingCommit' /\ PendingCapClose' /\ DeferralHolds'
  BY BoundAssumption DEF SameControl, RoleInControl, PendingCommit, PendingCapClose, DeferralHolds, Capped, TypeOK,
         Checkpoints, States, InVisit, durable, turn, visit, life, Down, LiveSession, Live, Between, Steps, Roles
<1>3. LiveSession' /\ TerminatesOnce'
  BY DEF LiveSession, TerminatesOnce, Sessions, Open, Live, Between, Steps, Down, TypeOK,
         durable, turn, visit, life
<1>. QED BY <1>1, <1>2, <1>3

LEMMA EndSnapshotStep == IndInv /\ EndSnapshot => IndInv'
<1>. SUFFICES ASSUME IndInv, EndSnapshot PROVE IndInv'
  OBVIOUS
<1>. USE DEF IndInv, EndSnapshot, TerminalSnapshot
<1>1. TypeOK'
  BY EventShapes DEF TypeOK, durable, turn, visit, life, Steps, Down, Outcomes, SessionFailures, ExitReasons
<1>2. SameControl' /\ RoleInControl' /\ PendingCommit' /\ PendingCapClose' /\ DeferralHolds'
  BY BoundAssumption DEF SameControl, RoleInControl, PendingCommit, PendingCapClose, DeferralHolds, Capped, TypeOK,
         Checkpoints, States, InVisit, durable, turn, visit, life, Down, LiveSession, Live, Between, Steps, Roles
<1>3. LiveSession' /\ TerminatesOnce'
  BY DEF LiveSession, TerminatesOnce, Sessions, Open, Live, Between, Steps, Down, TypeOK,
         durable, turn, visit, life
<1>. QED BY <1>1, <1>2, <1>3

LEMMA CapEndSnapshotStep == IndInv /\ CapEndSnapshot => IndInv'
<1>. SUFFICES ASSUME IndInv, CapEndSnapshot PROVE IndInv'
  OBVIOUS
<1>. USE DEF IndInv, CapEndSnapshot, TerminalSnapshot
<1>1. TypeOK'
  BY EventShapes DEF TypeOK, durable, turn, visit, life, Steps, Down, Outcomes, SessionFailures, ExitReasons
<1>2. SameControl' /\ RoleInControl' /\ PendingCommit' /\ PendingCapClose' /\ DeferralHolds'
  BY BoundAssumption DEF SameControl, RoleInControl, PendingCommit, PendingCapClose, DeferralHolds, Capped, TypeOK,
         Checkpoints, States, InVisit, durable, turn, visit, life, Down, LiveSession, Live, Between, Steps, Roles
<1>3. LiveSession' /\ TerminatesOnce'
  BY DEF LiveSession, TerminatesOnce, Sessions, Open, Live, Between, Steps, Down, TypeOK,
         durable, turn, visit, life
<1>. QED BY <1>1, <1>2, <1>3

LEMMA ModelRetryStep == IndInv /\ ModelRetry => IndInv'
<1>. SUFFICES ASSUME IndInv, ModelRetry PROVE IndInv'
  OBVIOUS
<1>. USE DEF IndInv, ModelRetry, NextAttempt, ForgetTurn, NoSession
<1>1. TypeOK'
  BY EventShapes DEF TypeOK, durable, turn, visit, life, Steps, Down, Outcomes, SessionFailures, ExitReasons
<1>2. SameControl' /\ RoleInControl' /\ PendingCommit' /\ PendingCapClose' /\ DeferralHolds'
  BY BoundAssumption DEF SameControl, RoleInControl, PendingCommit, PendingCapClose, DeferralHolds, Capped, TypeOK,
         Checkpoints, States, InVisit, durable, turn, visit, life, Down, LiveSession, Live, Between, Steps, Roles
<1>3. LiveSession' /\ TerminatesOnce'
  BY DEF LiveSession, TerminatesOnce, Sessions, Open, Live, Between, Steps, Down, TypeOK,
         durable, turn, visit, life
<1>. QED BY <1>1, <1>2, <1>3

LEMMA ModelFallbackStep == IndInv /\ ModelFallback => IndInv'
<1>. SUFFICES ASSUME IndInv, ModelFallback PROVE IndInv'
  OBVIOUS
<1>. USE DEF IndInv, ModelFallback, NextAttempt, ForgetTurn, NoSession
<1>1. TypeOK'
  BY EventShapes DEF TypeOK, durable, turn, visit, life, Steps, Down, Outcomes, SessionFailures, ExitReasons
<1>2. SameControl' /\ RoleInControl' /\ PendingCommit' /\ PendingCapClose' /\ DeferralHolds'
  BY BoundAssumption DEF SameControl, RoleInControl, PendingCommit, PendingCapClose, DeferralHolds, Capped, TypeOK,
         Checkpoints, States, InVisit, durable, turn, visit, life, Down, LiveSession, Live, Between, Steps, Roles
<1>3. LiveSession' /\ TerminatesOnce'
  BY DEF LiveSession, TerminatesOnce, Sessions, Open, Live, Between, Steps, Down, TypeOK,
         durable, turn, visit, life
<1>. QED BY <1>1, <1>2, <1>3

LEMMA ResumeStep == IndInv /\ Resume => IndInv'
<1>. SUFFICES ASSUME IndInv, Resume PROVE IndInv'
  OBVIOUS
<1>. USE DEF IndInv, Resume
<1>1. TypeOK'
  BY EventShapes DEF TypeOK, durable, turn, visit, life, Steps, Down, Outcomes, SessionFailures, ExitReasons
<1>2. SameControl' /\ RoleInControl' /\ PendingCommit' /\ PendingCapClose' /\ DeferralHolds'
  BY BoundAssumption DEF SameControl, RoleInControl, PendingCommit, PendingCapClose, DeferralHolds, Capped, TypeOK,
         Checkpoints, States, InVisit, durable, turn, visit, life, Down, LiveSession, Live, Between, Steps, Roles
<1>3. LiveSession' /\ TerminatesOnce'
  BY DEF LiveSession, TerminatesOnce, Sessions, Open, Live, Between, Steps, Down, TypeOK,
         durable, turn, visit, life
<1>. QED BY <1>1, <1>2, <1>3

\* A terminal changes the terminals of one session, and its cost.
LEMMA TerminatedShape ==
    ASSUME NEW r \in SessionRecords, NEW c \in Nat, NEW kind \in {"session_ended", "session_failed"}
    PROVE  /\ Terminated(r, kind, c) \in SessionRecords
           /\ Terminated(r, kind, c).role = r.role
           /\ Terminated(r, kind, c).ends = IF kind = "session_ended" THEN r.ends + 1 ELSE r.ends
           /\ Terminated(r, kind, c).fails = IF kind = "session_failed" THEN r.fails + 1 ELSE r.fails
<1>1. ASSUME NEW e \in Nat, NEW f \in Nat
      PROVE  LET u == [r EXCEPT !.ends = e, !.fails = f, !.cost = c]
             IN  u \in SessionRecords /\ u.ends = e /\ u.fails = f /\ u.role = r.role
  BY DEF SessionRecords
<1>2. r.ends \in Nat /\ r.ends + 1 \in Nat /\ r.fails \in Nat /\ r.fails + 1 \in Nat
  BY DEF SessionRecords
<1>3. CASE kind = "session_ended"
  <2>1. Terminated(r, kind, c) = [r EXCEPT !.ends = r.ends + 1, !.fails = r.fails, !.cost = c]
    BY <1>3 DEF Terminated
  <2>2. LET u == [r EXCEPT !.ends = r.ends + 1, !.fails = r.fails, !.cost = c]
        IN  u \in SessionRecords /\ u.ends = r.ends + 1 /\ u.fails = r.fails /\ u.role = r.role
    BY <1>1, <1>2, Zenon
  <2>3. /\ Terminated(r, kind, c) \in SessionRecords /\ Terminated(r, kind, c).role = r.role
        /\ Terminated(r, kind, c).ends = r.ends + 1 /\ Terminated(r, kind, c).fails = r.fails
    BY <2>1, <2>2, Zenon
  <2>. QED BY <1>3, <2>3
<1>4. CASE kind = "session_failed"
  <2>1. Terminated(r, kind, c) = [r EXCEPT !.ends = r.ends, !.fails = r.fails + 1, !.cost = c]
    BY <1>4 DEF Terminated
  <2>2. LET u == [r EXCEPT !.ends = r.ends, !.fails = r.fails + 1, !.cost = c]
        IN  u \in SessionRecords /\ u.ends = r.ends /\ u.fails = r.fails + 1 /\ u.role = r.role
    BY <1>1, <1>2, Zenon
  <2>3. /\ Terminated(r, kind, c) \in SessionRecords /\ Terminated(r, kind, c).role = r.role
        /\ Terminated(r, kind, c).ends = r.ends /\ Terminated(r, kind, c).fails = r.fails + 1
    BY <2>1, <2>2, Zenon
  <2>. QED BY <1>4, <2>3
<1>. QED BY <1>3, <1>4

LEMMA TerminalKeepsLog ==
    ASSUME TypeOK, NEW s \in Sessions, NEW kind \in {"session_ended", "session_failed"}, NEW c \in Nat,
           sessions' = [sessions EXCEPT ![s] = Terminated(sessions[s], kind, c)]
    PROVE  /\ sessions' \in Seq(SessionRecords) /\ Len(sessions') = Len(sessions)
           /\ Sessions' = Sessions
           /\ sessions'[s].ends = IF kind = "session_ended" THEN sessions[s].ends + 1 ELSE sessions[s].ends
           /\ sessions'[s].fails = IF kind = "session_failed" THEN sessions[s].fails + 1 ELSE sessions[s].fails
           /\ \A t \in Sessions : sessions'[t].role = sessions[t].role
           /\ \A t \in Sessions \ {s} : sessions'[t] = sessions[t]
<1>1. sessions \in Seq(SessionRecords) /\ s \in 1..Len(sessions) /\ sessions[s] \in SessionRecords
  BY DEF TypeOK, Sessions
<1>2. PICK rec \in SessionRecords :
        /\ rec = Terminated(sessions[s], kind, c) /\ rec.role = sessions[s].role
        /\ rec.ends = IF kind = "session_ended" THEN sessions[s].ends + 1 ELSE sessions[s].ends
        /\ rec.fails = IF kind = "session_failed" THEN sessions[s].fails + 1 ELSE sessions[s].fails
  BY <1>1, TerminatedShape
<1>3. /\ [sessions EXCEPT ![s] = rec] \in Seq(SessionRecords)
      /\ Len([sessions EXCEPT ![s] = rec]) = Len(sessions)
  BY <1>1, ExceptSeq
<1>4. sessions' = [sessions EXCEPT ![s] = rec]
  BY <1>2
<1>5. sessions' \in Seq(SessionRecords) /\ Len(sessions') = Len(sessions) /\ Sessions' = Sessions
  BY <1>1, <1>3, <1>4 DEF Sessions
<1>6. sessions'[s] = rec /\ \A t \in Sessions \ {s} : sessions'[t] = sessions[t]
  BY <1>1, <1>4 DEF Sessions
<1>. QED BY <1>2, <1>5, <1>6

\* The record of a transition.
LEMMA AcceptRecordShape ==
    ASSUME cp \in Checkpoints, cp.role \in Roles, NEW by \in Nat, NEW ev \in Events
    PROVE  AcceptRecordOf(by, ev) \in AcceptRecords
<1>1. Reduce(cp, ev).role \in States
  BY ReduceShape DEF Checkpoints
<1>. QED BY <1>1, EventFields DEF AcceptRecordOf, AcceptRecords

\* reduceFromWorker: whatever a worker's accepted event, control is back at the hub.
LEMMA WorkersHandBack ==
    ASSUME NEW c \in Checkpoints, NEW ev \in Events, Accepts(c, ev), c.role \in Workers
    PROVE  Reduce(c, ev).role = Orchestrator
<1>1. c.role # Orchestrator
  BY RoleAssumption
<1>. QED BY <1>1 DEF Reduce, Advance, AfterWorker, Checkpoints

LEMMA CommitShape ==
    ASSUME TypeOK, CommitLast
    PROVE  accepts' \in Seq(AcceptRecords) /\ Len(accepts') = Len(accepts)
<1>1. accepts \in Seq(AcceptRecords)
  BY DEF TypeOK
<1>2. CASE Len(accepts) \in DOMAIN accepts
  <2>. DEFINE rec == [accepts[Len(accepts)] EXCEPT !.committed = TRUE]
  <2>1. accepts' = [accepts EXCEPT ![Len(accepts)] = rec]
    BY <1>1 DEF CommitLast
  <2>2. accepts[Len(accepts)] \in AcceptRecords
    BY <1>1, <1>2
  <2>3. rec \in AcceptRecords
    BY <2>2 DEF AcceptRecords
  <2>. HIDE DEF rec
  <2>. QED BY <1>1, <1>2, <2>1, <2>3
<1>3. CASE Len(accepts) \notin DOMAIN accepts
  <2>1. accepts' = [i \in DOMAIN accepts |-> accepts[i]]
    BY <1>3 DEF CommitLast
  <2>2. accepts' = accepts
    BY <1>1, <2>1
  <2>. QED BY <1>1, <2>2
<1>. QED BY <1>2, <1>3

LEMMA UnavailableRecordStep == IndInv /\ UnavailableRecord => IndInv'
<1>. SUFFICES ASSUME IndInv, UnavailableRecord PROVE IndInv'
  OBVIOUS
<1>. USE DEF IndInv, UnavailableRecord
<1>1. TypeOK'
  <2>1. AcceptRecordOf(NoSession, Unavailable) \in AcceptRecords
    <3>1. cp \in Checkpoints /\ cp.role \in Roles /\ NoSession \in Nat /\ Unavailable \in Events
      BY EventShapes DEF TypeOK, RoleInControl, PendingCapClose, InVisit, NoSession, Roles
    <3>. QED BY <3>1, AcceptRecordShape
  <2>2. accepts' \in Seq(AcceptRecords)
    BY <2>1 DEF TypeOK
  <2>. QED BY <2>2 DEF TypeOK, visit, turn, life, Steps
<1>2. SameControl' /\ RoleInControl' /\ PendingCommit' /\ PendingCapClose' /\ DeferralHolds'
  BY BoundAssumption DEF SameControl, RoleInControl, PendingCommit, PendingCapClose, DeferralHolds, Capped, TypeOK,
         Checkpoints, States, InVisit, durable, turn, visit, life, Down, LiveSession, Live, Between, Steps, Roles
<1>3. LiveSession' /\ TerminatesOnce'
  BY DEF LiveSession, TerminatesOnce, Sessions, Open, Live, Between, Steps, Down, TypeOK,
         durable, turn, visit, life
<1>. QED BY <1>1, <1>2, <1>3

LEMMA AcceptRecordStep == IndInv /\ AcceptRecord => IndInv'
<1>. SUFFICES ASSUME IndInv, AcceptRecord PROVE IndInv'
  OBVIOUS
<1>. USE DEF IndInv, AcceptRecord
<1>1. TypeOK'
  <2>1. AcceptRecordOf(sid, event) \in AcceptRecords
    <3>1. cp \in Checkpoints /\ cp.role \in Roles /\ sid \in Nat /\ event \in Events
      BY EventShapes DEF TypeOK, RoleInControl, PendingCapClose, InVisit, NoSession, Roles
    <3>. QED BY <3>1, AcceptRecordShape
  <2>2. accepts' \in Seq(AcceptRecords)
    BY <2>1 DEF TypeOK
  <2>. QED BY <2>2 DEF TypeOK, visit, turn, life, Steps
<1>2. SameControl' /\ RoleInControl' /\ PendingCommit' /\ PendingCapClose' /\ DeferralHolds'
  BY BoundAssumption DEF SameControl, RoleInControl, PendingCommit, PendingCapClose, DeferralHolds, Capped, TypeOK,
         Checkpoints, States, InVisit, durable, turn, visit, life, Down, LiveSession, Live, Between, Steps, Roles
<1>3. LiveSession' /\ TerminatesOnce'
  BY DEF LiveSession, TerminatesOnce, Sessions, Open, Live, Between, Steps, Down, TypeOK,
         durable, turn, visit, life
<1>. QED BY <1>1, <1>2, <1>3

LEMMA CapRecordStep == IndInv /\ CapRecord => IndInv'
<1>. SUFFICES ASSUME IndInv, CapRecord PROVE IndInv'
  OBVIOUS
<1>. USE DEF IndInv, CapRecord
<1>1. TypeOK'
  <2>1. AcceptRecordOf(NoSession, End("run_cost_cap")) \in AcceptRecords
    <3>1. cp \in Checkpoints /\ cp.role \in Roles /\ NoSession \in Nat /\ End("run_cost_cap") \in Events
      BY EventShapes DEF TypeOK, RoleInControl, PendingCapClose, InVisit, NoSession, Roles
    <3>. QED BY <3>1, AcceptRecordShape
  <2>2. accepts' \in Seq(AcceptRecords)
    BY <2>1 DEF TypeOK
  <2>. QED BY <2>2 DEF TypeOK, visit, turn, life, Steps
<1>2. SameControl' /\ RoleInControl' /\ PendingCommit' /\ PendingCapClose' /\ DeferralHolds'
  BY BoundAssumption DEF SameControl, RoleInControl, PendingCommit, PendingCapClose, DeferralHolds, Capped, TypeOK,
         Checkpoints, States, InVisit, durable, turn, visit, life, Down, LiveSession, Live, Between, Steps, Roles
<1>3. LiveSession' /\ TerminatesOnce'
  BY DEF LiveSession, TerminatesOnce, Sessions, Open, Live, Between, Steps, Down, TypeOK,
         durable, turn, visit, life
<1>. QED BY <1>1, <1>2, <1>3

LEMMA UnavailableSnapshotStep == IndInv /\ UnavailableSnapshot => IndInv'
<1>. SUFFICES ASSUME IndInv, UnavailableSnapshot PROVE IndInv'
  OBVIOUS
<1>. USE DEF IndInv, UnavailableSnapshot
<1>0. Unavailable \in Events /\ Reduce(cp, Unavailable) \in Checkpoints /\ Reduce(cp, Unavailable).active = cp.active
  BY EventShapes, ReduceShape DEF TypeOK
<1>1. TypeOK'
  BY <1>0, CommitShape DEF TypeOK, visit, turn, life, Steps, Outcomes, RoleInControl, InVisit
<1>2. SameControl' /\ RoleInControl' /\ PendingCommit' /\ PendingCapClose' /\ DeferralHolds'
  BY <1>0, BoundAssumption DEF SameControl, RoleInControl, PendingCommit, PendingCapClose, DeferralHolds, Capped, TypeOK,
         Checkpoints, States, InVisit, durable, turn, visit, life, Down, LiveSession, Live, Between, Steps, Roles
<1>3. LiveSession' /\ TerminatesOnce'
  BY <1>0 DEF LiveSession, TerminatesOnce, Sessions, Open, Live, Between, Steps, Down, TypeOK,
         durable, turn, visit, life
<1>. QED BY <1>1, <1>2, <1>3

LEMMA AcceptSnapshotStep == IndInv /\ AcceptSnapshot => IndInv'
<1>. SUFFICES ASSUME IndInv, AcceptSnapshot PROVE IndInv'
  OBVIOUS
<1>. USE DEF IndInv, AcceptSnapshot
<1>0. event \in Events /\ Reduce(cp, event) \in Checkpoints /\ Reduce(cp, event).active = cp.active
  BY EventShapes, ReduceShape DEF TypeOK
<1>1. TypeOK'
  BY <1>0, CommitShape DEF TypeOK, visit, turn, life, Steps, Outcomes, RoleInControl, InVisit
<1>2. cp.role \in Workers => cp'.role = Orchestrator
  BY <1>0, WorkersHandBack DEF TypeOK, PendingCommit
<1>3. SameControl' /\ RoleInControl' /\ PendingCommit' /\ PendingCapClose' /\ DeferralHolds'
  BY <1>0, <1>2, BoundAssumption DEF SameControl, RoleInControl, PendingCommit, PendingCapClose, DeferralHolds, Capped, TypeOK,
         Checkpoints, States, InVisit, durable, turn, visit, life, Down, LiveSession, Live, Between, Steps, Roles
<1>4. LiveSession' /\ TerminatesOnce'
  BY <1>0 DEF LiveSession, TerminatesOnce, Sessions, Open, Live, Between, Steps, Down, TypeOK,
         durable, turn, visit, life
<1>. QED BY <1>1, <1>3, <1>4

LEMMA CapSnapshotStep == IndInv /\ CapSnapshot => IndInv'
<1>. SUFFICES ASSUME IndInv, CapSnapshot PROVE IndInv'
  OBVIOUS
<1>. USE DEF IndInv, CapSnapshot
<1>0. End("run_cost_cap") \in Events /\ Reduce(cp, End("run_cost_cap")) \in Checkpoints /\ Reduce(cp, End("run_cost_cap")).active = cp.active
  BY EventShapes, ReduceShape DEF TypeOK
<1>1. TypeOK'
  BY <1>0, CommitShape DEF TypeOK, visit, turn, life, Steps, Outcomes, RoleInControl, InVisit
<1>2. SameControl' /\ RoleInControl' /\ PendingCommit' /\ PendingCapClose' /\ DeferralHolds'
  BY <1>0, BoundAssumption DEF SameControl, RoleInControl, PendingCommit, PendingCapClose, DeferralHolds, Capped, TypeOK,
         Checkpoints, States, InVisit, durable, turn, visit, life, Down, LiveSession, Live, Between, Steps, Roles
<1>3. LiveSession' /\ TerminatesOnce'
  BY <1>0 DEF LiveSession, TerminatesOnce, Sessions, Open, Live, Between, Steps, Down, TypeOK,
         durable, turn, visit, life
<1>. QED BY <1>1, <1>2, <1>3

LEMMA FailRecordStep == IndInv /\ FailRecord => IndInv'
<1>. SUFFICES ASSUME IndInv, FailRecord PROVE IndInv'
  OBVIOUS
<1>. USE DEF IndInv, FailRecord, TerminalRecord
<1>0. sid \in Sessions /\ cp.active = sid /\ sessions[sid].ends = 0 /\ sessions[sid].fails = 0
  <2>1. sid \in Sessions /\ cp.active = sid /\ sessions[sid].ends + sessions[sid].fails = 0
    BY DEF LiveSession, Live, Open
  <2>2. sessions[sid].ends \in Nat /\ sessions[sid].fails \in Nat
    BY <2>1, SessionFields DEF TypeOK, Sessions
  <2>. QED BY <2>1, <2>2
<1>a. /\ sessions' \in Seq(SessionRecords) /\ Len(sessions') = Len(sessions) /\ Sessions' = Sessions
      /\ sessions'[sid].ends = 0 /\ sessions'[sid].fails = 1
      /\ \A t \in Sessions : sessions'[t].role = sessions[t].role
      /\ \A t \in Sessions \ {sid} : sessions'[t] = sessions[t]
  <2>1. sessions' = [sessions EXCEPT ![sid] = Terminated(sessions[sid], "session_failed", usage)]
    OBVIOUS
  <2>2. usage \in Nat /\ "session_failed" \in {"session_ended", "session_failed"} /\ TypeOK
    BY DEF TypeOK
  <2>3. /\ sessions' \in Seq(SessionRecords) /\ Len(sessions') = Len(sessions)
        /\ Sessions' = Sessions
        /\ sessions'[sid].ends = IF "session_failed" = "session_ended" THEN sessions[sid].ends + 1
                                                                   ELSE sessions[sid].ends
        /\ sessions'[sid].fails = IF "session_failed" = "session_failed" THEN sessions[sid].fails + 1
                                                                     ELSE sessions[sid].fails
        /\ \A t \in Sessions : sessions'[t].role = sessions[t].role
        /\ \A t \in Sessions \ {sid} : sessions'[t] = sessions[t]
    BY <1>0, <2>1, <2>2, TerminalKeepsLog, Zenon
  <2>. QED BY <1>0, <2>3
<1>b. cp' = [cp EXCEPT !.active = 0] /\ cp' \in Checkpoints /\ spent' \in Nat /\ spent' = spent + usage
  BY CheckpointShapes DEF TypeOK, SessionTerminal, NoSession
<1>1. TypeOK'
  BY <1>a, <1>b DEF TypeOK, visit, turn, life, Steps
<1>2. SameControl' /\ RoleInControl' /\ PendingCommit' /\ PendingCapClose' /\ DeferralHolds'
  BY <1>a, <1>b, BoundAssumption
  DEF SameControl, RoleInControl, PendingCommit, PendingCapClose, DeferralHolds, Capped, TypeOK,
      Checkpoints, States, InVisit, durable, turn, visit, life, Down, LiveSession, Live, Between, Steps, Roles
<1>3. LiveSession'
  BY <1>0, <1>a, <1>b DEF LiveSession, Open, Live, Between, Steps, Down, TypeOK, Checkpoints, NoSession,
         durable, turn, visit, life
<1>4. TerminatesOnce'
  BY <1>0, <1>a, <1>b, SessionFields DEF TerminatesOnce, TypeOK, Sessions
<1>. QED BY <1>1, <1>2, <1>3, <1>4

LEMMA EndRecordStep == IndInv /\ EndRecord => IndInv'
<1>. SUFFICES ASSUME IndInv, EndRecord PROVE IndInv'
  OBVIOUS
<1>. USE DEF IndInv, EndRecord, TerminalRecord
<1>0. sid \in Sessions /\ cp.active = sid /\ sessions[sid].ends = 0 /\ sessions[sid].fails = 0
  <2>1. sid \in Sessions /\ cp.active = sid /\ sessions[sid].ends + sessions[sid].fails = 0
    BY DEF LiveSession, Live, Open
  <2>2. sessions[sid].ends \in Nat /\ sessions[sid].fails \in Nat
    BY <2>1, SessionFields DEF TypeOK, Sessions
  <2>. QED BY <2>1, <2>2
<1>a. /\ sessions' \in Seq(SessionRecords) /\ Len(sessions') = Len(sessions) /\ Sessions' = Sessions
      /\ sessions'[sid].ends = 1 /\ sessions'[sid].fails = 0
      /\ \A t \in Sessions : sessions'[t].role = sessions[t].role
      /\ \A t \in Sessions \ {sid} : sessions'[t] = sessions[t]
  <2>1. sessions' = [sessions EXCEPT ![sid] = Terminated(sessions[sid], "session_ended", usage)]
    OBVIOUS
  <2>2. usage \in Nat /\ "session_ended" \in {"session_ended", "session_failed"} /\ TypeOK
    BY DEF TypeOK
  <2>3. /\ sessions' \in Seq(SessionRecords) /\ Len(sessions') = Len(sessions)
        /\ Sessions' = Sessions
        /\ sessions'[sid].ends = IF "session_ended" = "session_ended" THEN sessions[sid].ends + 1
                                                                   ELSE sessions[sid].ends
        /\ sessions'[sid].fails = IF "session_ended" = "session_failed" THEN sessions[sid].fails + 1
                                                                     ELSE sessions[sid].fails
        /\ \A t \in Sessions : sessions'[t].role = sessions[t].role
        /\ \A t \in Sessions \ {sid} : sessions'[t] = sessions[t]
    BY <1>0, <2>1, <2>2, TerminalKeepsLog, Zenon
  <2>. QED BY <1>0, <2>3
<1>b. cp' = [cp EXCEPT !.active = 0] /\ cp' \in Checkpoints /\ spent' \in Nat /\ spent' = spent + usage
  BY CheckpointShapes DEF TypeOK, SessionTerminal, NoSession
<1>1. TypeOK'
  BY <1>a, <1>b DEF TypeOK, visit, turn, life, Steps
<1>2. SameControl' /\ RoleInControl' /\ PendingCommit' /\ PendingCapClose' /\ DeferralHolds'
  BY <1>a, <1>b, BoundAssumption
  DEF SameControl, RoleInControl, PendingCommit, PendingCapClose, DeferralHolds, Capped, TypeOK,
      Checkpoints, States, InVisit, durable, turn, visit, life, Down, LiveSession, Live, Between, Steps, Roles
<1>3. LiveSession'
  BY <1>0, <1>a, <1>b DEF LiveSession, Open, Live, Between, Steps, Down, TypeOK, Checkpoints, NoSession,
         durable, turn, visit, life
<1>4. TerminatesOnce'
  BY <1>0, <1>a, <1>b, SessionFields DEF TerminatesOnce, TypeOK, Sessions
<1>. QED BY <1>1, <1>2, <1>3, <1>4

LEMMA CapEndRecordStep == IndInv /\ CapEndRecord => IndInv'
<1>. SUFFICES ASSUME IndInv, CapEndRecord PROVE IndInv'
  OBVIOUS
<1>. USE DEF IndInv, CapEndRecord, TerminalRecord
<1>0. sid \in Sessions /\ cp.active = sid /\ sessions[sid].ends = 0 /\ sessions[sid].fails = 0
  <2>1. sid \in Sessions /\ cp.active = sid /\ sessions[sid].ends + sessions[sid].fails = 0
    BY DEF LiveSession, Live, Open
  <2>2. sessions[sid].ends \in Nat /\ sessions[sid].fails \in Nat
    BY <2>1, SessionFields DEF TypeOK, Sessions
  <2>. QED BY <2>1, <2>2
<1>a. /\ sessions' \in Seq(SessionRecords) /\ Len(sessions') = Len(sessions) /\ Sessions' = Sessions
      /\ sessions'[sid].ends = 1 /\ sessions'[sid].fails = 0
      /\ \A t \in Sessions : sessions'[t].role = sessions[t].role
      /\ \A t \in Sessions \ {sid} : sessions'[t] = sessions[t]
  <2>1. sessions' = [sessions EXCEPT ![sid] = Terminated(sessions[sid], "session_ended", usage)]
    OBVIOUS
  <2>2. usage \in Nat /\ "session_ended" \in {"session_ended", "session_failed"} /\ TypeOK
    BY DEF TypeOK
  <2>3. /\ sessions' \in Seq(SessionRecords) /\ Len(sessions') = Len(sessions)
        /\ Sessions' = Sessions
        /\ sessions'[sid].ends = IF "session_ended" = "session_ended" THEN sessions[sid].ends + 1
                                                                   ELSE sessions[sid].ends
        /\ sessions'[sid].fails = IF "session_ended" = "session_failed" THEN sessions[sid].fails + 1
                                                                     ELSE sessions[sid].fails
        /\ \A t \in Sessions : sessions'[t].role = sessions[t].role
        /\ \A t \in Sessions \ {sid} : sessions'[t] = sessions[t]
    BY <1>0, <2>1, <2>2, TerminalKeepsLog, Zenon
  <2>. QED BY <1>0, <2>3
<1>b. cp' = [cp EXCEPT !.active = 0] /\ cp' \in Checkpoints /\ spent' \in Nat /\ spent' = spent + usage
  BY CheckpointShapes DEF TypeOK, SessionTerminal, NoSession
<1>1. TypeOK'
  BY <1>a, <1>b DEF TypeOK, visit, turn, life, Steps
<1>2. SameControl' /\ RoleInControl' /\ PendingCommit' /\ PendingCapClose' /\ DeferralHolds'
  BY <1>a, <1>b, BoundAssumption
  DEF SameControl, RoleInControl, PendingCommit, PendingCapClose, DeferralHolds, Capped, TypeOK,
      Checkpoints, States, InVisit, durable, turn, visit, life, Down, LiveSession, Live, Between, Steps, Roles
<1>3. LiveSession'
  BY <1>0, <1>a, <1>b DEF LiveSession, Open, Live, Between, Steps, Down, TypeOK, Checkpoints, NoSession,
         durable, turn, visit, life
<1>4. TerminatesOnce'
  BY <1>0, <1>a, <1>b, SessionFields DEF TerminatesOnce, TypeOK, Sessions
<1>. QED BY <1>1, <1>2, <1>3, <1>4

LEMMA StartRecordStep == IndInv /\ StartRecord => IndInv'
<1>. SUFFICES ASSUME IndInv, StartRecord PROVE IndInv'
  OBVIOUS
<1>. USE DEF IndInv, StartRecord
<1> DEFINE rec == [role |-> cp.role, visit |-> visitIx[cp.role], ends |-> 0, fails |-> 0, cost |-> 0,
                   life |-> restarts, after |-> Len(accepts)]
<1>0. sessions' = Append(sessions, rec) /\ sid' = Len(sessions) + 1 /\ cp' = [cp EXCEPT !.active = sid']
  BY DEF SessionStarted
<1>a. rec \in SessionRecords /\ rec.role = cp.role /\ rec.ends = 0 /\ rec.fails = 0
  <2>1. cp.role \in Roles /\ visitIx[cp.role] \in Nat /\ restarts \in Nat /\ Len(accepts) \in Nat
    BY DEF TypeOK, RoleInControl, InVisit
  <2>. QED BY <2>1 DEF SessionRecords
<1> HIDE DEF rec
<1>b. /\ sessions' \in Seq(SessionRecords) /\ Sessions' = Sessions \cup {sid'} /\ sid' \in Nat
      /\ sid' \notin Sessions /\ sessions'[sid'] = rec
      /\ \A t \in Sessions : sessions'[t] = sessions[t]
  BY <1>0, <1>a DEF TypeOK, Sessions
<1>1. TypeOK'
  <2>1. cp' \in Checkpoints
    BY <1>b, CheckpointShapes DEF TypeOK
  <2>. QED BY <1>b, <2>1 DEF TypeOK, visit, turn, life, Steps
<1>2. SameControl' /\ RoleInControl' /\ PendingCommit' /\ PendingCapClose' /\ DeferralHolds'
  BY <1>0, BoundAssumption
  DEF SameControl, RoleInControl, PendingCommit, PendingCapClose, DeferralHolds, Capped, TypeOK,
      Checkpoints, States, InVisit, durable, turn, visit, life, Down, LiveSession, Live, Between, Steps, Roles
<1>3. LiveSession'
  BY <1>0, <1>a, <1>b DEF LiveSession, Open, Live, Between, Steps, Down, TypeOK, Checkpoints, NoSession,
         durable, turn, visit, life
<1>4. TerminatesOnce'
  BY <1>0, <1>a, <1>b, SessionFields DEF TerminatesOnce, TypeOK, Sessions
<1>. QED BY <1>1, <1>2, <1>3, <1>4

LEMMA NextVisitStep == IndInv /\ NextVisit => IndInv'
<1>. SUFFICES ASSUME IndInv, NextVisit PROVE IndInv'
  OBVIOUS
<1>. USE DEF IndInv, NextVisit, ForgetTurn, NoSession
<1>1. TypeOK'
  <2>1. visitIx' \in [Roles -> Nat]
    <3>. DEFINE r == sessions[sid].role
    <3>1. visitIx \in [Roles -> Nat] /\ visitIx' = [visitIx EXCEPT ![r] = @ + 1]
      BY DEF TypeOK
    <3>. HIDE DEF r
    <3>2. CASE r \in Roles
      BY <3>1, <3>2
    <3>3. CASE r \notin Roles
      <4>1. visitIx' = [x \in Roles |-> visitIx[x]]
        BY <3>1, <3>3
      <4>. QED BY <3>1, <4>1
    <3>. QED BY <3>2, <3>3
  <2>. QED BY <2>1, EventShapes DEF TypeOK, durable, turn, life, Steps, Outcomes
<1>2. SameControl' /\ RoleInControl' /\ PendingCommit' /\ PendingCapClose' /\ DeferralHolds'
  BY BoundAssumption
  DEF SameControl, RoleInControl, PendingCommit, PendingCapClose, DeferralHolds, Capped, TypeOK,
      Checkpoints, States, InVisit, durable, turn, visit, life, Down, LiveSession, Live, Between, Steps, Roles
<1>3. LiveSession' /\ TerminatesOnce'
  BY DEF LiveSession, TerminatesOnce, Sessions, Open, Live, Between, Steps, Down, TypeOK,
         durable, turn, visit, life
<1>. QED BY <1>1, <1>2, <1>3

LEMMA UserAbortStep ==
    ASSUME IndInv, NEW u \in 0..MaxUsage, UserAbort(u)
    PROVE  IndInv'
<1>. USE DEF IndInv, UserAbort, Prompted
<1>0. u \in Nat /\ usage \in Nat /\ spent \in Nat
  BY BoundAssumption DEF TypeOK
<1>1. TypeOK'
  BY <1>0, EventShapes DEF TypeOK, durable, life, Steps, Outcomes, SessionFailures
<1>2. SameControl' /\ RoleInControl' /\ PendingCommit' /\ PendingCapClose'
  BY <1>0, BoundAssumption DEF SameControl, RoleInControl, PendingCommit, PendingCapClose, Capped, AtHubCap, TypeOK,
      InVisit, durable, life, SessionFailures
<1>3. DeferralHolds'
  BY <1>0, BoundAssumption, EventFields DEF DeferralHolds, Deferred, Capped, RoleInControl, InVisit, TypeOK, durable, life, Roles
<1>4. LiveSession' /\ TerminatesOnce'
  BY DEF LiveSession, TerminatesOnce, Sessions, Open, Live, Between, Steps, Down, TypeOK, durable, life
<1>. QED BY <1>1, <1>2, <1>3, <1>4

LEMMA NoEmissionRecoveryStep ==
    ASSUME IndInv, NEW u \in 0..MaxUsage, NoEmissionRecovery(u)
    PROVE  IndInv'
<1>. USE DEF IndInv, NoEmissionRecovery, Prompted
<1>0. u \in Nat /\ usage \in Nat /\ spent \in Nat
  BY BoundAssumption DEF TypeOK
<1>1. TypeOK'
  BY <1>0, EventShapes DEF TypeOK, durable, life, Steps, Outcomes, SessionFailures
<1>2. SameControl' /\ RoleInControl' /\ PendingCommit' /\ PendingCapClose'
  BY <1>0, BoundAssumption DEF SameControl, RoleInControl, PendingCommit, PendingCapClose, Capped, AtHubCap, TypeOK,
      InVisit, durable, life, SessionFailures
<1>3. DeferralHolds'
  BY <1>0, BoundAssumption, EventFields DEF DeferralHolds, Deferred, Capped, RoleInControl, InVisit, TypeOK, durable, life, Roles
<1>4. LiveSession' /\ TerminatesOnce'
  BY DEF LiveSession, TerminatesOnce, Sessions, Open, Live, Between, Steps, Down, TypeOK, durable, life
<1>. QED BY <1>1, <1>2, <1>3, <1>4

LEMMA BreachStep ==
    ASSUME IndInv, NEW u \in 0..MaxUsage, NEW reason \in SessionFailures, Breach(reason, u)
    PROVE  IndInv'
<1>. USE DEF IndInv, Breach, Prompted
<1>0. u \in Nat /\ usage \in Nat /\ spent \in Nat
  BY BoundAssumption DEF TypeOK
<1>1. TypeOK'
  BY <1>0, EventShapes DEF TypeOK, durable, life, Steps, Outcomes, SessionFailures
<1>2. SameControl' /\ RoleInControl' /\ PendingCommit' /\ PendingCapClose'
  BY <1>0, BoundAssumption DEF SameControl, RoleInControl, PendingCommit, PendingCapClose, Capped, AtHubCap, TypeOK,
      InVisit, durable, life, SessionFailures
<1>3. DeferralHolds'
  BY <1>0, BoundAssumption, EventFields DEF DeferralHolds, Deferred, Capped, RoleInControl, InVisit, TypeOK, durable, life, Roles
<1>4. LiveSession' /\ TerminatesOnce'
  BY DEF LiveSession, TerminatesOnce, Sessions, Open, Live, Between, Steps, Down, TypeOK, durable, life
<1>. QED BY <1>1, <1>2, <1>3, <1>4

LEMMA CapCloseStep ==
    ASSUME IndInv, NEW u \in 0..MaxUsage, CapClose(u)
    PROVE  IndInv'
<1>. USE DEF IndInv, CapClose, Prompted
<1>0. u \in Nat /\ usage \in Nat /\ spent \in Nat
  BY BoundAssumption DEF TypeOK
<1>1. TypeOK'
  BY <1>0, EventShapes DEF TypeOK, durable, life, Steps, Outcomes, SessionFailures
<1>2. SameControl' /\ RoleInControl' /\ PendingCommit' /\ PendingCapClose'
  BY <1>0, BoundAssumption DEF SameControl, RoleInControl, PendingCommit, PendingCapClose, Capped, AtHubCap, TypeOK,
      InVisit, durable, life, SessionFailures
<1>3. DeferralHolds'
  BY <1>0, BoundAssumption, RoleAssumption, EventFields DEF DeferralHolds, Deferred, Capped, RoleInControl, InVisit, TypeOK, durable, life, Roles
<1>4. LiveSession' /\ TerminatesOnce'
  BY DEF LiveSession, TerminatesOnce, Sessions, Open, Live, Between, Steps, Down, TypeOK, durable, life
<1>. QED BY <1>1, <1>2, <1>3, <1>4

LEMMA SupersededStep ==
    ASSUME IndInv, NEW u \in 0..MaxUsage, NEW ev \in RoleEvents, NEW reason \in SessionFailures, Superseded(reason, ev, u)
    PROVE  IndInv'
<1>. USE DEF IndInv, Superseded, Prompted
<1>0. u \in Nat /\ usage \in Nat /\ spent \in Nat
  BY BoundAssumption DEF TypeOK
<1>1. TypeOK'
  BY <1>0, EventShapes DEF TypeOK, durable, life, Steps, Outcomes, SessionFailures
<1>2. SameControl' /\ RoleInControl' /\ PendingCommit' /\ PendingCapClose'
  BY <1>0, BoundAssumption DEF SameControl, RoleInControl, PendingCommit, PendingCapClose, Capped, AtHubCap, TypeOK,
      InVisit, durable, life, SessionFailures
<1>3. DeferralHolds'
  BY <1>0, BoundAssumption, EventFields DEF DeferralHolds, Deferred, Capped, RoleInControl, InVisit, TypeOK, durable, life, Roles
<1>4. LiveSession' /\ TerminatesOnce'
  BY DEF LiveSession, TerminatesOnce, Sessions, Open, Live, Between, Steps, Down, TypeOK, durable, life
<1>. QED BY <1>1, <1>2, <1>3, <1>4

LEMMA RepromptStep ==
    ASSUME IndInv, NEW u \in 0..MaxUsage, NEW ev \in RoleEvents, Reprompt(ev, u)
    PROVE  IndInv'
<1>. USE DEF IndInv, Reprompt, Prompted
<1>0. u \in Nat /\ usage \in Nat /\ spent \in Nat
  BY BoundAssumption DEF TypeOK
<1>1. TypeOK'
  BY <1>0, EventShapes DEF TypeOK, durable, life, Steps, Outcomes, SessionFailures
<1>2. SameControl' /\ RoleInControl' /\ PendingCommit' /\ PendingCapClose'
  BY <1>0, BoundAssumption DEF SameControl, RoleInControl, PendingCommit, PendingCapClose, Capped, AtHubCap, TypeOK,
      InVisit, durable, life, SessionFailures
<1>3. DeferralHolds'
  BY <1>0, BoundAssumption, EventFields DEF DeferralHolds, Deferred, Capped, RoleInControl, InVisit, TypeOK, durable, life, Roles
<1>4. LiveSession' /\ TerminatesOnce'
  BY DEF LiveSession, TerminatesOnce, Sessions, Open, Live, Between, Steps, Down, TypeOK, durable, life
<1>. QED BY <1>1, <1>2, <1>3, <1>4

LEMMA EndGuardFailsStep ==
    ASSUME IndInv, NEW u \in 0..MaxUsage, EndGuardFails(u)
    PROVE  IndInv'
<1>. USE DEF IndInv, EndGuardFails, Prompted
<1>0. u \in Nat /\ usage \in Nat /\ spent \in Nat
  BY BoundAssumption DEF TypeOK
<1>1. TypeOK'
  BY <1>0, EventShapes DEF TypeOK, durable, life, Steps, Outcomes, SessionFailures
<1>2. SameControl' /\ RoleInControl' /\ PendingCommit' /\ PendingCapClose'
  BY <1>0, BoundAssumption DEF SameControl, RoleInControl, PendingCommit, PendingCapClose, Capped, AtHubCap, TypeOK,
      InVisit, durable, life, SessionFailures
<1>3. DeferralHolds'
  BY <1>0, BoundAssumption, EventFields DEF DeferralHolds, Deferred, Capped, RoleInControl, InVisit, TypeOK, durable, life, Roles
<1>4. LiveSession' /\ TerminatesOnce'
  BY DEF LiveSession, TerminatesOnce, Sessions, Open, Live, Between, Steps, Down, TypeOK, durable, life
<1>. QED BY <1>1, <1>2, <1>3, <1>4

LEMMA AcceptStep ==
    ASSUME IndInv, NEW u \in 0..MaxUsage, NEW ev \in RoleEvents, Accept(ev, u)
    PROVE  IndInv'
<1>. USE DEF IndInv, Accept, Prompted
<1>0. u \in Nat /\ usage \in Nat /\ spent \in Nat
  BY BoundAssumption DEF TypeOK
<1>1. TypeOK'
  BY <1>0, EventShapes DEF TypeOK, durable, life, Steps, Outcomes, SessionFailures
<1>2. SameControl' /\ RoleInControl' /\ PendingCommit' /\ PendingCapClose'
  BY <1>0, BoundAssumption DEF SameControl, RoleInControl, PendingCommit, PendingCapClose, Capped, AtHubCap, TypeOK,
      InVisit, durable, life, SessionFailures
<1>3. DeferralHolds'
  BY <1>0, BoundAssumption, EventFields DEF DeferralHolds, Deferred, Capped, RoleInControl, InVisit, TypeOK, durable, life, Roles
<1>4. LiveSession' /\ TerminatesOnce'
  BY DEF LiveSession, TerminatesOnce, Sessions, Open, Live, Between, Steps, Down, TypeOK, durable, life
<1>. QED BY <1>1, <1>2, <1>3, <1>4

LEMMA TurnStep == IndInv /\ Turn => IndInv'
<1>. SUFFICES ASSUME IndInv, Turn PROVE IndInv'
  OBVIOUS
<1>1. PICK u \in 0..MaxUsage :
        \/ UserAbort(u) \/ NoEmissionRecovery(u) \/ CapClose(u) \/ EndGuardFails(u)
        \/ \E reason \in SessionFailures : Breach(reason, u)
        \/ \E ev \in RoleEvents :
            \/ Reprompt(ev, u) \/ Reject(ev, u) \/ Accept(ev, u)
            \/ \E reason \in SessionFailures : Superseded(reason, ev, u)
  BY DEF Turn
<1>2. CASE UserAbort(u) \/ NoEmissionRecovery(u) \/ CapClose(u) \/ EndGuardFails(u)
  BY <1>2, UserAbortStep, NoEmissionRecoveryStep, CapCloseStep, EndGuardFailsStep
<1>3. CASE \E reason \in SessionFailures : Breach(reason, u)
  BY <1>3, BreachStep
<1>4. CASE \E ev \in RoleEvents : Reprompt(ev, u) \/ Reject(ev, u)
  BY <1>4, RepromptStep DEF Reject
<1>5. CASE \E ev \in RoleEvents : Accept(ev, u)
  BY <1>5, AcceptStep
<1>6. CASE \E ev \in RoleEvents : \E reason \in SessionFailures : Superseded(reason, ev, u)
  BY <1>6, SupersededStep
<1>. QED BY <1>1, <1>2, <1>3, <1>4, <1>5, <1>6

\* The process goes down: its memory is reset, and the log keeps what it had.
LEMMA DownStep ==
    ASSUME IndInv, pc' \in Down, exit' \in ExitReasons, Forget
    PROVE  IndInv'
<1>. USE DEF IndInv, Forget, ForgetTurn
<1>1. TypeOK'
  BY EventShapes DEF TypeOK, durable, Outcomes, NoSession, FirstAttempt, FirstIndexes
<1>2. SameControl' /\ LiveSession'
  BY DEF SameControl, LiveSession, Sessions, durable, Down, Live, Between, Steps
<1>3. RoleInControl' /\ PendingCommit' /\ PendingCapClose' /\ DeferralHolds'
  BY DEF RoleInControl, PendingCommit, PendingCapClose, DeferralHolds, Down, InVisit
<1>4. TerminatesOnce'
  BY DEF TerminatesOnce, Sessions, durable
<1>. QED BY <1>1, <1>2, <1>3, <1>4

LEMMA LeaveStep ==
    IndInv /\ (LoopDone \/ SpawnFails \/ NoMoreModelsAtHub \/ FinalizeFails \/ RunEnds \/ Crash)
    => IndInv'
BY DownStep DEF LoopDone, SpawnFails, NoMoreModelsAtHub, FinalizeFails, RunEnds, Crash, Leave,
                Down, ExitReasons

\* Resuming: reconcileCrash ends the session a crash left behind.
LEMMA EnterLoopShape == TypeOK /\ EnterLoop => visitIx' \in [Roles -> Nat]
BY NextVisitIndexIsFresh DEF EnterLoop, NextVisitIndexes

LEMMA ReconcileSettledStep == IndInv /\ ReconcileSettled => IndInv'
<1>. SUFFICES ASSUME IndInv, ReconcileSettled PROVE IndInv'
  OBVIOUS
<1>0. visitIx' \in [Roles -> Nat]
  BY EnterLoopShape DEF IndInv, ReconcileSettled
<1>. USE DEF IndInv, ReconcileSettled, EnterLoop, NoSession
<1>1. TypeOK'
  BY <1>0 DEF TypeOK, durable, turn, life, Steps
<1>2. SameControl' /\ RoleInControl' /\ PendingCommit' /\ PendingCapClose' /\ DeferralHolds'
  BY DEF SameControl, RoleInControl, PendingCommit, PendingCapClose, DeferralHolds, InVisit, durable,
         turn, life
<1>3. LiveSession' /\ TerminatesOnce'
  BY DEF LiveSession, TerminatesOnce, Sessions, Open, Live, Between, Steps, Down, durable, turn, life
<1>. QED BY <1>1, <1>2, <1>3

LEMMA ReconcileSnapshotStep == IndInv /\ ReconcileSnapshot => IndInv'
<1>. SUFFICES ASSUME IndInv, ReconcileSnapshot PROVE IndInv'
  OBVIOUS
<1>0. visitIx' \in [Roles -> Nat]
  BY EnterLoopShape DEF IndInv, ReconcileSnapshot
<1>. USE DEF IndInv, ReconcileSnapshot, EnterLoop, NoSession
<1>1. TypeOK'
  BY <1>0 DEF TypeOK, durable, turn, life, Steps
<1>2. SameControl' /\ RoleInControl' /\ PendingCommit' /\ PendingCapClose' /\ DeferralHolds'
  BY DEF SameControl, RoleInControl, PendingCommit, PendingCapClose, DeferralHolds, InVisit, durable,
         turn, life
<1>3. LiveSession' /\ TerminatesOnce'
  BY DEF LiveSession, TerminatesOnce, Sessions, Open, Live, Between, Steps, Down, durable, turn, life
<1>. QED BY <1>1, <1>2, <1>3

LEMMA ReconcileTerminatedStep == IndInv /\ ReconcileTerminated => IndInv'
<1>. SUFFICES ASSUME IndInv, ReconcileTerminated PROVE IndInv'
  OBVIOUS
<1>. USE DEF IndInv, ReconcileTerminated, NoSession
<1>0. cp' = [cp EXCEPT !.active = 0] /\ cp' \in Checkpoints
  BY CheckpointShapes DEF TypeOK, SessionTerminal
<1>1. TypeOK'
  BY <1>0 DEF TypeOK, durable, turn, visit, life, Steps
<1>2. SameControl' /\ RoleInControl' /\ PendingCommit' /\ PendingCapClose' /\ DeferralHolds'
  BY <1>0 DEF SameControl, RoleInControl, PendingCommit, PendingCapClose, DeferralHolds, InVisit, durable,
         turn, visit, life, TypeOK, Checkpoints
<1>3. LiveSession' /\ TerminatesOnce'
  BY <1>0 DEF LiveSession, TerminatesOnce, Sessions, Open, Live, Between, Steps, Down, durable, turn, visit, life,
         TypeOK, Checkpoints
<1>. QED BY <1>1, <1>2, <1>3

LEMMA ReconcileCrashedStep == IndInv /\ ReconcileCrashed => IndInv'
<1>. SUFFICES ASSUME IndInv, ReconcileCrashed PROVE IndInv'
  OBVIOUS
<1>. USE DEF IndInv, ReconcileCrashed, NoSession
<1>0. cp' = [cp EXCEPT !.active = 0] /\ cp' \in Checkpoints
  BY CheckpointShapes DEF TypeOK, SessionTerminal
<1>1. PICK s \in Sessions : s = cp.active
  BY DEF LiveSession
<1>2. sessions' = [sessions EXCEPT ![s] = Terminated(sessions[s], "session_failed", 0)]
  BY <1>1
<1>3. 0 \in Nat /\ "session_failed" \in {"session_ended", "session_failed"} /\ TypeOK
  OBVIOUS
<1>4. /\ sessions' \in Seq(SessionRecords) /\ Len(sessions') = Len(sessions)
      /\ Sessions' = Sessions
      /\ sessions'[s].ends = IF "session_failed" = "session_ended" THEN sessions[s].ends + 1
                                                                 ELSE sessions[s].ends
      /\ sessions'[s].fails = IF "session_failed" = "session_failed" THEN sessions[s].fails + 1
                                                                   ELSE sessions[s].fails
      /\ \A t \in Sessions : sessions'[t].role = sessions[t].role
      /\ \A t \in Sessions \ {s} : sessions'[t] = sessions[t]
  BY <1>2, <1>3, TerminalKeepsLog, Zenon
<1>5. sessions[s].ends = 0 /\ sessions[s].fails = 0
  <2>1. sessions[s].ends \in Nat /\ sessions[s].fails \in Nat
    BY SessionFields DEF TypeOK, Sessions
  <2>2. ~(sessions[s].ends + sessions[s].fails > 0)
    BY <1>1 DEF HasTerminal
  <2>. QED BY <2>1, <2>2
<1>6. TypeOK'
  BY <1>0, <1>4 DEF TypeOK, turn, visit, life, Steps
<1>7. SameControl' /\ RoleInControl' /\ PendingCommit' /\ PendingCapClose' /\ DeferralHolds'
  BY <1>0 DEF SameControl, RoleInControl, PendingCommit, PendingCapClose, DeferralHolds, InVisit,
         turn, visit, life, TypeOK, Checkpoints
<1>8. LiveSession'
  BY <1>0, <1>4 DEF LiveSession, Live, Between, Steps, Down, TypeOK, Checkpoints
<1>9. TerminatesOnce'
  BY <1>4, <1>5 DEF TerminatesOnce
<1>. QED BY <1>6, <1>7, <1>8, <1>9

-----------------------------------------------------------------------------
(* The theorems.                                                           *)

LEMMA InitialInvariant == Init => IndInv
<1>. SUFFICES ASSUME Init PROVE IndInv
  OBVIOUS
<1>1. TypeOK
  BY InitialType
<1>2. SameControl /\ RoleInControl /\ PendingCommit /\ PendingCapClose /\ DeferralHolds
  BY DEF Init, SameControl, RoleInControl, PendingCommit, PendingCapClose, DeferralHolds, InVisit
<1>3. LiveSession /\ TerminatesOnce
  BY DEF Init, InitialCheckpoint, LiveSession, TerminatesOnce, Sessions, Live, Between, Down
<1>. QED BY <1>1, <1>2, <1>3 DEF IndInv

LEMMA StutterStep == IndInv /\ UNCHANGED vars => IndInv'
BY DEF vars, durable, visit, turn, life, IndInv, TypeOK, SameControl, LiveSession, RoleInControl,
       PendingCommit, PendingCapClose, DeferralHolds, TerminatesOnce, Sessions, Open, Capped

LEMMA InvariantStep == IndInv /\ [Next]_vars => IndInv'
<1>. SUFFICES ASSUME IndInv, [Next]_vars PROVE IndInv'
  OBVIOUS
<1>1. CASE UNCHANGED vars \/ Abandoned
  BY <1>1, StutterStep DEF Abandoned
<1>2. CASE LoopDone \/ SpawnFails \/ NoMoreModelsAtHub \/ FinalizeFails \/ RunEnds \/ Crash
  BY <1>2, LeaveStep
<1>3. CASE ForcedEnd \/ BeginVisit \/ Spawn \/ NoMoreModels \/ NextVisit \/ ModelRetry \/ ModelFallback
  BY <1>3, ForcedEndStep, BeginVisitStep, SpawnStep, NoMoreModelsStep, NextVisitStep, ModelRetryStep,
     ModelFallbackStep
<1>4. CASE UnavailableRecord \/ UnavailableSnapshot \/ StartRecord \/ StartSnapshot
  BY <1>4, UnavailableRecordStep, UnavailableSnapshotStep, StartRecordStep, StartSnapshotStep
<1>5. CASE Turn
  BY <1>5, TurnStep
<1>6. CASE FailRecord \/ FailSnapshot \/ AcceptRecord \/ AcceptSnapshot \/ EndRecord \/ EndSnapshot
  BY <1>6, FailRecordStep, FailSnapshotStep, AcceptRecordStep, AcceptSnapshotStep, EndRecordStep,
     EndSnapshotStep
<1>7. CASE CapEndRecord \/ CapEndSnapshot \/ CapRecord \/ CapSnapshot
  BY <1>7, CapEndRecordStep, CapEndSnapshotStep, CapRecordStep, CapSnapshotStep
<1>8. CASE Resume \/ ReconcileSettled \/ ReconcileTerminated \/ ReconcileCrashed \/ ReconcileSnapshot
  BY <1>8, ResumeStep, ReconcileSettledStep, ReconcileTerminatedStep, ReconcileCrashedStep,
     ReconcileSnapshotStep
<1>. QED
  BY <1>1, <1>2, <1>3, <1>4, <1>5, <1>6, <1>7, <1>8 DEF Next, LoopStep

\* The inductive invariant holds of every run, whatever crashes and restarts
\* it goes through.
THEOREM Invariant == Spec => []IndInv
<1>1. Init => IndInv
  BY InitialInvariant
<1>2. IndInv /\ [Next]_vars => IndInv'
  BY InvariantStep
<1>. QED BY <1>1, <1>2, PTL DEF Spec

\* Every state of every run is well typed.
THEOREM TypeCorrect == Spec => []TypeOK
<1>1. IndInv => TypeOK
  BY DEF IndInv
<1>. QED BY <1>1, Invariant, PTL

\* No session is ever given two terminals, by the loop or by the
\* reconciliation of a crash: session_ended and session_failed exclude each
\* other and neither is recorded twice.
THEOREM OneTerminal == Spec => []TerminatesOnce
<1>1. IndInv => TerminatesOnce
  BY DEF IndInv
<1>. QED BY <1>1, Invariant, PTL

\* The reducers are only ever called where they are defined: none of the
\* errors they throw on a logic bug of the host is reachable.
THEOREM NoReducerThrows == Spec => []ReducersNeverThrow
<1>1. IndInv => ReducersNeverThrow
  <2>. SUFFICES ASSUME IndInv PROVE ReducersNeverThrow
    OBVIOUS
  <2>1. pc = "unavailRec" => Accepts(cp, Unavailable)
    BY RoleAssumption DEF IndInv, RoleInControl, Accepts, Verdict, VerdictFromWorker, Unavailable, Handoff
  <2>2. pc = "capRec" => Accepts(cp, End("run_cost_cap"))
    BY RoleAssumption DEF IndInv, PendingCapClose, Accepts, Verdict, VerdictFromOrchestrator, End
  <2>3. pc \in {"failRec", "endRec", "capEndRec"} => MayTerminate(cp, sid)
    BY DEF IndInv, TypeOK, LiveSession, Live, Sessions, MayTerminate, NoSession
  <2>. QED
    BY <2>1, <2>2, <2>3 DEF ReducersNeverThrow, IndInv, LiveSession, Live, Between, Steps, DeferralHolds,
       PendingCommit, MayStart
<1>. QED BY <1>1, Invariant, PTL

\* What a rejection reports as available is what the reducer accepts, in
\* every checkpoint of every run.
THEOREM TargetsAgree == Spec => []ReportedTargetsAreLegal
<1>1. TypeOK => ReportedTargetsAreLegal
  <2>. SUFFICES ASSUME TypeOK PROVE ReportedTargetsAreLegal
    OBVIOUS
  <2>. USE RoleAssumption, PolicyAssumption
       DEF ReportedTargetsAreLegal, AvailableTargets, DeclaredTargets, Accepts, Verdict, Handoff, End
  <2>1. CASE cp.role = Done
    BY <2>1
  <2>2. CASE cp.role \in Workers
    BY <2>2 DEF VerdictFromWorker, Roles
  <2>3. CASE cp.role = Orchestrator
    <3>1. \A w \in Workers : cp.visits[w] \in Nat /\ MaxVisits[w] \in Nat
      BY DEF TypeOK, Checkpoints
    <3>2. /\ AvailableTargets(cp).handoff = {w \in Workers : cp.visits[w] < MaxVisits[w]}
          /\ AvailableTargets(cp).end <=> ~Gated \/ cp.endReq # None
      BY <2>3, Zenon
    <3>3. \A r \in Roles : r \in AvailableTargets(cp).handoff <=> Accepts(cp, Handoff(r, FALSE))
      <4>1. ASSUME NEW r \in Roles
            PROVE  Accepts(cp, Handoff(r, FALSE)) <=> r \in Workers /\ ~(cp.visits[r] >= MaxVisits[r])
        BY <2>3 DEF VerdictFromOrchestrator
      <4>2. {w \in Workers : cp.visits[w] < MaxVisits[w]}
            = {w \in Workers : ~(cp.visits[w] >= MaxVisits[w])}
        BY <3>1
      <4>. HIDE DEF AvailableTargets, Accepts, Handoff
      <4>. QED BY <3>2, <4>1, <4>2, Zenon
    <3>4. AvailableTargets(cp).end <=> Accepts(cp, End("role"))
      <4>1. Accepts(cp, End("role")) <=> ~(Gated /\ cp.endReq = None)
        BY <2>3 DEF VerdictFromOrchestrator
      <4>. HIDE DEF AvailableTargets, Accepts
      <4>. QED BY <3>2, <4>1
    <3>. QED BY <3>3, <3>4
  <2>. QED BY <2>1, <2>2, <2>3 DEF TypeOK, Checkpoints, States, Roles
<1>. QED BY <1>1, TypeCorrect, PTL

\* Only the session_started record makes the session log longer.
LEMMA OnlyStartsGrow ==
    ASSUME IndInv, Next, ~StartRecord
    PROVE  Len(sessions') = Len(sessions)
<1>1. sessions \in Seq(SessionRecords) /\ sessions' \in Seq(SessionRecords)
  BY InvariantStep DEF IndInv, TypeOK
<1>2. CASE FailRecord \/ EndRecord \/ CapEndRecord \/ ReconcileCrashed
  <2>1. DOMAIN sessions' = DOMAIN sessions
    BY <1>2 DEF FailRecord, EndRecord, CapEndRecord, TerminalRecord, ReconcileCrashed
  <2>. QED BY <1>1, <2>1
<1>3. CASE UNCHANGED sessions
  BY <1>3
<1>4. CASE Turn
  BY <1>4 DEF Turn, UserAbort, NoEmissionRecovery, Breach, CapClose, Superseded, Reprompt, Reject,
     EndGuardFails, Accept, Prompted, durable
<1>5. CASE LoopDone \/ SpawnFails \/ NoMoreModelsAtHub \/ FinalizeFails \/ RunEnds \/ Crash
  BY <1>5 DEF LoopDone, SpawnFails, NoMoreModelsAtHub, FinalizeFails, RunEnds, Crash, Leave, Forget, durable
<1>6. CASE ForcedEnd \/ BeginVisit \/ Spawn \/ NoMoreModels \/ NextVisit \/ ModelRetry \/ ModelFallback
           \/ Resume \/ ReconcileSettled \/ ReconcileTerminated \/ Abandoned
  BY <1>6 DEF ForcedEnd, BeginVisit, AtOuter, Spawn, NoMoreModels, NextVisit, ModelRetry, ModelFallback,
     NextAttempt, Resume, ReconcileSettled, ReconcileTerminated, Abandoned, vars, durable
<1>7. CASE UnavailableRecord \/ UnavailableSnapshot \/ StartSnapshot \/ FailSnapshot \/ AcceptRecord
           \/ AcceptSnapshot \/ EndSnapshot \/ CapEndSnapshot \/ CapRecord \/ CapSnapshot
           \/ ReconcileSnapshot
  BY <1>7 DEF UnavailableRecord, UnavailableSnapshot, StartSnapshot, FailSnapshot, AcceptRecord,
     AcceptSnapshot, EndSnapshot, CapEndSnapshot, TerminalSnapshot, CapRecord, CapSnapshot, ReconcileSnapshot
<1>. QED BY <1>2, <1>3, <1>4, <1>5, <1>6, <1>7 DEF Next, LoopStep

\* Between the deferral of a forced end and the end itself the process
\* starts no session.
THEOREM DeferralStartsNothing == Spec => DeferredEndStartsNothing
<1>1. IndInv /\ [Next]_vars => [forced => Len(sessions') = Len(sessions)]_vars
  <2>. SUFFICES ASSUME IndInv, Next, forced PROVE Len(sessions') = Len(sessions)
    OBVIOUS
  <2>1. ~StartRecord
    BY DEF IndInv, DeferralHolds, StartRecord
  <2>. QED BY <2>1, OnlyStartsGrow
<1>. QED BY <1>1, Invariant, PTL DEF Spec, DeferredEndStartsNothing

\* Only a transition_accepted record makes the transition log longer.
LEMMA OnlyRecordsAccept ==
    ASSUME IndInv, Next, ~UnavailableRecord, ~AcceptRecord, ~CapRecord
    PROVE  Len(accepts') = Len(accepts)
<1>1. CASE UnavailableSnapshot \/ AcceptSnapshot \/ CapSnapshot
  BY <1>1, CommitShape DEF UnavailableSnapshot, AcceptSnapshot, CapSnapshot, IndInv
<1>2. CASE Turn
  BY <1>2 DEF Turn, UserAbort, NoEmissionRecovery, Breach, CapClose, Superseded, Reprompt, Reject,
     EndGuardFails, Accept, Prompted, durable
<1>3. CASE LoopDone \/ SpawnFails \/ NoMoreModelsAtHub \/ FinalizeFails \/ RunEnds \/ Crash
  BY <1>3 DEF LoopDone, SpawnFails, NoMoreModelsAtHub, FinalizeFails, RunEnds, Crash, Leave, Forget, durable
<1>4. CASE ForcedEnd \/ BeginVisit \/ Spawn \/ NoMoreModels \/ NextVisit \/ ModelRetry \/ ModelFallback
           \/ Resume \/ ReconcileSettled \/ ReconcileTerminated \/ Abandoned
  BY <1>4 DEF ForcedEnd, BeginVisit, AtOuter, Spawn, NoMoreModels, NextVisit, ModelRetry, ModelFallback,
     NextAttempt, Resume, ReconcileSettled, ReconcileTerminated, Abandoned, vars, durable
<1>5. CASE StartRecord \/ StartSnapshot \/ FailRecord \/ FailSnapshot \/ EndRecord \/ EndSnapshot
           \/ CapEndRecord \/ CapEndSnapshot \/ ReconcileCrashed \/ ReconcileSnapshot
  BY <1>5 DEF StartRecord, StartSnapshot, FailRecord, FailSnapshot, EndRecord, EndSnapshot, CapEndRecord,
     CapEndSnapshot, TerminalRecord, TerminalSnapshot, ReconcileCrashed, ReconcileSnapshot
<1>. QED BY <1>1, <1>2, <1>3, <1>4, <1>5 DEF Next, LoopStep

\* A run whose checkpoint is at done stays as it is, whoever resumes it.
THEOREM DoneStaysDone == Spec => DoneIsFinal
<1>1. IndInv /\ [Next]_vars
      => [snap.role = Done => /\ Len(sessions') = Len(sessions)
                              /\ Len(accepts') = Len(accepts)]_vars
  <2>. SUFFICES ASSUME IndInv, Next, snap.role = Done
                PROVE  Len(sessions') = Len(sessions) /\ Len(accepts') = Len(accepts)
    OBVIOUS
  <2>1. cp.role = Done /\ Done \notin Roles /\ Orchestrator # Done
    BY RoleAssumption DEF IndInv, SameControl, Roles
  <2>2. ~StartRecord /\ ~UnavailableRecord /\ ~AcceptRecord /\ ~CapRecord
    BY <2>1 DEF IndInv, RoleInControl, InVisit, PendingCapClose, StartRecord, UnavailableRecord, AcceptRecord,
       CapRecord
  <2>. QED BY <2>2, OnlyStartsGrow, OnlyRecordsAccept
<1>. QED BY <1>1, Invariant, PTL DEF Spec, DoneIsFinal

-----------------------------------------------------------------------------
(* The run implements HubRun.                                              *)

\* A committed event of the hub or of a worker is a step of the abstract run.
LEMMA CommitIsAbstract ==
    ASSUME IndInv, AcceptSnapshot
    PROVE  Abstract!Next
<1>. DEFINE after == Reduce(cp, event)
<1>1. /\ snap' = after /\ spent' = spent
      /\ snap.role = cp.role /\ snap.visits = cp.visits /\ snap.endReq = cp.endReq
      /\ cp \in Checkpoints /\ cp.role \in Roles /\ event \in Events
      /\ Accepts(cp, event)
  BY DEF AcceptSnapshot, IndInv, SameControl, PendingCommit, RoleInControl, InVisit, TypeOK
<1>2. CASE cp.role \in Workers
  <2>1. /\ cp.role # Orchestrator
        /\ event.requestEnd => Gated /\ cp.role \in EndRequestRoles
    BY <1>1, <1>2, RoleAssumption DEF Accepts, Verdict, VerdictFromWorker
  <2>2. after = [cp EXCEPT !.role = Orchestrator,
                           !.endReq = IF event.requestEnd THEN cp.role ELSE cp.endReq]
    BY <1>1, <2>1 DEF Reduce, Advance, AfterWorker
  <2>3. /\ after.role = Orchestrator /\ after.visits = cp.visits
        /\ after.endReq = IF event.requestEnd THEN cp.role ELSE cp.endReq
    BY <1>1, <2>2 DEF Checkpoints
  <2>. HIDE DEF after
  <2>4. Abstract!Return
    BY <1>1, <1>2, <2>1, <2>3 DEF Abstract!Return
  <2>. QED BY <2>4 DEF Abstract!Next
<1>3. CASE cp.role = Orchestrator /\ event.type # "end"
  <2>1. event.target \in Workers /\ cp.visits[event.target] < MaxVisits[event.target]
    BY <1>1, <1>3, RoleAssumption, PolicyAssumption
    DEF Accepts, Verdict, VerdictFromOrchestrator, Checkpoints
  <2>2. after = [role |-> event.target,
                 visits |-> [cp.visits EXCEPT ![event.target] = cp.visits[event.target] + 1],
                 endReq |-> None, active |-> cp.active]
    BY <1>1, <1>3 DEF Reduce, Advance, AfterOrchestrator, Checkpoints
  <2>3. spent < RunCap
    BY <1>3, BoundAssumption DEF IndInv, TypeOK, PendingCommit, Capped, AcceptSnapshot
  <2>. HIDE DEF after
  <2>4. Abstract!Dispatch(event.target)
    BY <1>1, <1>3, <2>1, <2>2, <2>3 DEF Abstract!Dispatch
  <2>. QED BY <2>1, <2>4 DEF Abstract!Next
<1>4. CASE cp.role = Orchestrator /\ event.type = "end"
  <2>1. ~Gated \/ cp.endReq # None
    <3>1. event.authority = "role"
      BY DEF IndInv, PendingCommit, AcceptSnapshot, RoleEvents, End
    <3>. QED BY <1>1, <1>4, <3>1, RoleAssumption DEF Accepts, Verdict, VerdictFromOrchestrator
  <2>2. after.role = Done /\ after.endReq = None /\ after.visits = cp.visits
    BY <1>1, <1>4 DEF Reduce, Advance, AfterOrchestrator, Checkpoints
  <2>. HIDE DEF after
  <2>3. Abstract!Finish
    BY <1>1, <1>4, <2>1, <2>2 DEF Abstract!Finish
  <2>. QED BY <2>3 DEF Abstract!Next
<1>. QED BY <1>1, <1>2, <1>3, <1>4 DEF Roles

\* So is the hand-back of a role whose models are exhausted, and the end the
\* run cost cap forces.
LEMMA HostEventIsAbstract ==
    ASSUME IndInv, UnavailableSnapshot \/ CapSnapshot
    PROVE  Abstract!Next
<1>1. /\ spent' = spent /\ cp \in Checkpoints
      /\ snap.role = cp.role /\ snap.visits = cp.visits /\ snap.endReq = cp.endReq
  BY DEF UnavailableSnapshot, CapSnapshot, IndInv, SameControl, TypeOK
<1>2. CASE UnavailableSnapshot
  <2>1. cp.role \in Workers /\ cp.role # Orchestrator /\ Accepts(cp, Unavailable)
    BY <1>2, RoleAssumption DEF UnavailableSnapshot, IndInv, RoleInControl, Accepts, Verdict,
       VerdictFromWorker, Unavailable, Handoff
  <2>2. snap' = [cp EXCEPT !.role = Orchestrator, !.endReq = cp.endReq]
    BY <1>2, <2>1 DEF UnavailableSnapshot, Reduce, Advance, AfterWorker, Unavailable, Handoff
  <2>3. snap'.role = Orchestrator /\ snap'.visits = cp.visits /\ snap'.endReq = cp.endReq
    BY <1>1, <2>2 DEF Checkpoints
  <2>4. Abstract!Return
    BY <1>1, <2>1, <2>3 DEF Abstract!Return
  <2>. QED BY <2>4 DEF Abstract!Next
<1>3. CASE CapSnapshot
  <2>1. cp.role = Orchestrator /\ spent >= RunCap /\ Accepts(cp, End("run_cost_cap"))
    BY <1>3, RoleAssumption DEF CapSnapshot, IndInv, PendingCapClose, Accepts, Verdict,
       VerdictFromOrchestrator, End
  <2>2. snap' = [cp EXCEPT !.role = Done, !.endReq = None]
    BY <1>3, <2>1 DEF CapSnapshot, Reduce, Advance, AfterOrchestrator, End
  <2>3. snap'.role = Done /\ snap'.visits = cp.visits /\ snap'.endReq = None
    BY <1>1, <2>2 DEF Checkpoints
  <2>4. Abstract!Finish
    BY <1>1, <2>1, <2>3 DEF Abstract!Finish
  <2>. QED BY <2>4 DEF Abstract!Next
<1>. QED BY <1>2, <1>3

LEMMA StepIsAbstract == IndInv /\ [Next]_vars => [Abstract!Next]_(Abstract!vars)
<1>. SUFFICES ASSUME IndInv, [Next]_vars PROVE [Abstract!Next]_(Abstract!vars)
  OBVIOUS
<1>1. CASE UNCHANGED <<snap, spent>>
  BY <1>1 DEF Abstract!vars
<1>2. CASE UNCHANGED vars
  BY <1>2 DEF vars, durable, Abstract!vars
<1>3. CASE StartSnapshot \/ FailSnapshot \/ EndSnapshot \/ CapEndSnapshot \/ ReconcileSnapshot
  BY <1>3 DEF StartSnapshot, FailSnapshot, EndSnapshot, CapEndSnapshot, TerminalSnapshot,
     ReconcileSnapshot, IndInv, SameControl, Abstract!vars
<1>4. CASE FailRecord \/ EndRecord \/ CapEndRecord
  <2>1. snap' = snap /\ spent' = spent + usage /\ spent \in Nat /\ usage \in Nat
    BY <1>4 DEF FailRecord, EndRecord, CapEndRecord, TerminalRecord, IndInv, TypeOK
  <2>2. CASE usage = 0
    BY <2>1, <2>2 DEF Abstract!vars
  <2>3. CASE usage # 0
    <3>1. spent' \in Nat /\ spent' > spent
      BY <2>1, <2>3
    <3>. QED BY <2>1, <3>1 DEF Abstract!Next, Abstract!Spend
  <2>. QED BY <2>2, <2>3
<1>5. CASE AcceptSnapshot
  BY <1>5, CommitIsAbstract
<1>6. CASE UnavailableSnapshot \/ CapSnapshot
  BY <1>6, HostEventIsAbstract
<1>7. CASE Turn
  BY <1>1, <1>7 DEF Turn, UserAbort, NoEmissionRecovery, Breach, CapClose, Superseded, Reprompt, Reject,
     EndGuardFails, Accept, Prompted, durable
<1>8. CASE LoopDone \/ SpawnFails \/ NoMoreModelsAtHub \/ FinalizeFails \/ RunEnds \/ Crash
  BY <1>1, <1>8 DEF LoopDone, SpawnFails, NoMoreModelsAtHub, FinalizeFails, RunEnds, Crash, Leave, Forget,
     durable
<1>9. CASE ForcedEnd \/ BeginVisit \/ Spawn \/ NoMoreModels \/ NextVisit \/ ModelRetry \/ ModelFallback
           \/ Resume \/ ReconcileSettled \/ ReconcileTerminated \/ Abandoned
  BY <1>1, <1>9 DEF ForcedEnd, BeginVisit, AtOuter, Spawn, NoMoreModels, NextVisit, ModelRetry,
     ModelFallback, NextAttempt, Resume, ReconcileSettled, ReconcileTerminated, Abandoned, vars, durable
<1>10. CASE UnavailableRecord \/ StartRecord \/ AcceptRecord \/ CapRecord \/ ReconcileCrashed
  BY <1>1, <1>10 DEF UnavailableRecord, StartRecord, AcceptRecord, CapRecord, ReconcileCrashed
<1>. QED
  BY <1>2, <1>3, <1>4, <1>5, <1>6, <1>7, <1>8, <1>9, <1>10 DEF Next, LoopStep

\* The checkpoints a run commits implement HubRun: whatever crashes, model
\* failures and restarts happen, a worker is entered at most max_visits
\* times, nobody is dispatched past the run cap, and the run ends once, with
\* the authority to.
THEOREM Refinement == Spec => Promise
<1>1. Init => Abstract!Init
  BY DEF Init, InitialCheckpoint, Abstract!Init
<1>2. IndInv /\ [Next]_vars => [Abstract!Next]_(Abstract!vars)
  BY StepIsAbstract
<1>. QED BY <1>1, <1>2, Invariant, PTL DEF Spec, Promise, Abstract!Spec

-----------------------------------------------------------------------------
(* What the log tells: the invariant of LogTellsTheRun and                 *)
(* AttemptsAreBounded.  It speaks of states of which IndInv holds.         *)

Committing == {"acceptSnap", "unavailSnap", "capSnap"}

\* The session the process has in hand is over once its terminal is written,
\* and no other open session is named by the durable checkpoint.
SessionInHand ==
    /\ pc \in {"outer", "spawn", "start", "unavailRec", "unavailSnap", "reconcile",
               "reconcileSnap"} \cup Down => sid = NoSession
    /\ pc \in {"failSnap", "endSnap", "capEndSnap"} => sid \in Sessions
    /\ pc \in {"capRec", "capSnap", "settled"} => sid \in Sessions \cup {NoSession}
    /\ pc \in {"failSnap", "endSnap", "capEndSnap", "capRec", "capSnap", "settled"}
         => sid = NoSession \/ ~Open(sid)
    /\ pc = "settled" /\ why \in {"advance", "model_error"} => sid \in Sessions
    /\ pc = "failSnap" \/ (pc = "settled" /\ why = "model_error") =>
         sessions[sid].role = cp.role
    /\ pc \notin Down \cup {"reconcile"} =>
         snap.active \in {NoSession, sid} \/ ~Open(snap.active)

\* A session hands over once: no record names it before its acceptance, one
\* does after it, and that one is committed before the session ends.
HandOversFit ==
    /\ \A i \in DOMAIN accepts : accepts[i].by \in Sessions \cup {NoSession}
    /\ \A i, j \in DOMAIN accepts :
         accepts[i].by = accepts[j].by /\ accepts[i].by # NoSession => i = j
    /\ pc \in {"startSnap", "prompt", "failRec", "acceptRec"} =>
         \A i \in DOMAIN accepts : accepts[i].by # sid
    /\ pc = "acceptSnap" => accepts[Len(accepts)].by = sid
    /\ pc = "endRec" => \E i \in AcceptsBy(sid) : accepts[i].committed = TRUE

\* The event whose record the next snapshot commits.
Pending ==
    IF pc = "acceptSnap" THEN event
    ELSE IF pc = "unavailSnap" THEN Unavailable ELSE End("run_cost_cap")

Committed(w) == {i \in DispatchesTo(w) : accepts[i].committed = TRUE}
Uncommitted == {i \in DOMAIN accepts : accepts[i].committed = FALSE}

\* A process leaves one record that is not committed, at most, and what such
\* records took of a worker's visits they took beside the counter.
CountsFit ==
    /\ pc \in Committing =>
         /\ accepts # <<>>
         /\ accepts[Len(accepts)].to = Reduce(cp, Pending).role
         /\ accepts[Len(accepts)].committed = FALSE
    /\ Cardinality(Uncommitted)
         <= restarts + (IF pc \in Committing \cup {"crashed"} THEN 1 ELSE 0)
    /\ \A w \in Workers :
         /\ snap.visits[w] = Cardinality(Committed(w))
         /\ snap.visits[w] + Cardinality(DispatchesTo(w) \cap Uncommitted)
              <= MaxVisits[w] + restarts

\* The process is in its loop and may start another session.
InLoop ==
    /\ pc \in InVisit \cup {"outer", "endRec", "endSnap", "settled"}
    /\ pc = "settled" => why \in {"advance", "model_error"}

\* The role whose visit it is, after it has handed over as well.
Visiting == IF pc \in {"endRec", "endSnap", "settled"} THEN sessions[sid].role ELSE cp.role

\* A session may still be started in this visit.
Retrying ==
    \/ pc \in {"spawn", "start", "startSnap", "prompt", "failRec", "failSnap"}
    \/ pc = "settled" /\ why = "model_error"

\* No visit index of the log is above the one in memory; the sessions that
\* carry that one are the attempts of the visit under way.
IndexesFit ==
    InLoop => \A s \in Sessions :
        /\ sessions[s].visit <= visitIx[sessions[s].role]
        /\ sessions[s].visit = visitIx[sessions[s].role] =>
             /\ pc # "outer" /\ sessions[s].role = Visiting
             /\ Retrying => sessions[s].life = restarts /\ sessions[s].after = Len(accepts)

Lost == {s \in Sessions : Open(s) /\ s # sid /\ s # snap.active}
LossesFit == Cardinality(Lost) <= restarts + (IF pc = "crashed" THEN 1 ELSE 0)

\* The sessions of a visit, and how many attempts come before this one.
Tried(r, v) == {t \in Sessions : sessions[t].role = r /\ sessions[t].visit = v}
Rank == (attempt.model - 1) * (Retries + 1) + attempt.retry

\* The sessions of the visit under way are counted by its attempts.
AttemptsFit ==
    Retrying =>
        /\ attempt.model \in 1..(Models + 1) /\ attempt.retry <= Retries
        /\ pc # "spawn" => attempt.model <= Models
        /\ Cardinality(Tried(cp.role, visitIx[cp.role]))
             <= Rank + (IF pc \in {"spawn", "start"} THEN 0 ELSE 1)

LogInv ==
    /\ SessionInHand /\ HandOversFit /\ EndedSessionsHandedOver /\ CountsFit
    /\ IndexesFit /\ VisitIndexesAreFresh /\ LossesFit
    /\ AttemptsFit /\ AttemptsAreBounded

-----------------------------------------------------------------------------
(* What a step does to the log.                                            *)

LEMMA TurnMoves ==
    ASSUME IndInv, Turn
    PROVE  /\ pc = "prompt" /\ pc' \in {"prompt", "failRec", "capEndRec", "acceptRec"}
           /\ UNCHANGED <<durable, cp, visitIx, attempt, sid, restarts>>
<1>1. PICK u \in 0..MaxUsage : \E next \in {"prompt", "failRec", "capEndRec", "acceptRec"} :
        Prompted(next, u)
  BY DEF Turn, UserAbort, NoEmissionRecovery, Breach, CapClose, Superseded, Reprompt, Reject,
         EndGuardFails, Accept
<1>. QED BY <1>1 DEF Prompted, life, durable

LEMMA LeaveMoves ==
    ASSUME LoopDone \/ SpawnFails \/ NoMoreModelsAtHub \/ FinalizeFails \/ RunEnds \/ Crash
    PROVE  /\ UNCHANGED <<durable, restarts>> /\ sid' = NoSession
           /\ \/ pc' = "crashed" /\ pc \notin Down
              \/ pc' = "exited" /\ pc \in {"outer", "spawn", "settled"}
BY DEF LoopDone, SpawnFails, NoMoreModelsAtHub, FinalizeFails, RunEnds, Crash, Leave, Forget,
       ForgetTurn, durable

\* A terminal keeps what the record of the start says.
LEMMA TerminatedKeeps ==
    ASSUME NEW r \in SessionRecords, NEW c \in Nat, NEW kind \in {"session_ended", "session_failed"}
    PROVE  /\ Terminated(r, kind, c).role = r.role /\ Terminated(r, kind, c).visit = r.visit
           /\ Terminated(r, kind, c).life = r.life /\ Terminated(r, kind, c).after = r.after
           /\ Terminated(r, kind, c).ends \in Nat /\ Terminated(r, kind, c).fails \in Nat
           /\ Terminated(r, kind, c).ends + Terminated(r, kind, c).fails = r.ends + r.fails + 1
           /\ Terminated(r, kind, c).ends > 0 => r.ends > 0 \/ kind = "session_ended"
<1>1. \A e, f \in Nat :
        LET u == [r EXCEPT !.ends = e, !.fails = f, !.cost = c]
        IN  /\ u.role = r.role /\ u.visit = r.visit /\ u.life = r.life /\ u.after = r.after
            /\ u.ends = e /\ u.fails = f
  BY DEF SessionRecords
<1>2. r.ends \in Nat /\ r.fails \in Nat
  BY DEF SessionRecords
<1>3. CASE kind = "session_ended"
  <2>1. Terminated(r, kind, c) = [r EXCEPT !.ends = r.ends + 1, !.fails = r.fails, !.cost = c]
    BY <1>3 DEF Terminated
  <2>2. r.ends + 1 \in Nat BY <1>2
  <2>. DEFINE u == [r EXCEPT !.ends = r.ends + 1, !.fails = r.fails, !.cost = c]
  <2>3. /\ u.role = r.role /\ u.visit = r.visit /\ u.life = r.life /\ u.after = r.after
        /\ u.ends = r.ends + 1 /\ u.fails = r.fails
    BY <1>1, <1>2, <2>2, Zenon
  <2>. HIDE DEF u
  <2>4. Terminated(r, kind, c) = u BY <2>1 DEF u
  <2>. QED BY <2>3, <2>4, <1>2, <1>3
<1>4. CASE kind = "session_failed"
  <2>1. Terminated(r, kind, c) = [r EXCEPT !.ends = r.ends, !.fails = r.fails + 1, !.cost = c]
    BY <1>4 DEF Terminated
  <2>2. r.fails + 1 \in Nat BY <1>2
  <2>. DEFINE u == [r EXCEPT !.ends = r.ends, !.fails = r.fails + 1, !.cost = c]
  <2>3. /\ u.role = r.role /\ u.visit = r.visit /\ u.life = r.life /\ u.after = r.after
        /\ u.ends = r.ends /\ u.fails = r.fails + 1
    BY <1>1, <1>2, <2>2, Zenon
  <2>. HIDE DEF u
  <2>4. Terminated(r, kind, c) = u BY <2>1 DEF u
  <2>. QED BY <2>3, <2>4, <1>2, <1>4
<1>. QED BY <1>3, <1>4

\* The two ways in which a terminal is written.
Terminates(s, kind) ==
    /\ s \in Sessions
    /\ \E c \in Nat : sessions' = [sessions EXCEPT ![s] = Terminated(sessions[s], kind, c)]

LEMMA TerminalWrites ==
    ASSUME IndInv
    PROVE  /\ FailRecord => Terminates(sid, "session_failed")
           /\ EndRecord \/ CapEndRecord => Terminates(sid, "session_ended")
           /\ ReconcileCrashed => Terminates(cp.active, "session_failed")
<1>1. usage \in Nat /\ 0 \in Nat BY DEF IndInv, TypeOK
<1>2. FailRecord \/ EndRecord \/ CapEndRecord => sid \in Sessions
  BY DEF IndInv, LiveSession, Live, FailRecord, EndRecord, CapEndRecord, TerminalRecord
<1>3. ReconcileCrashed => cp.active \in Sessions
  BY DEF IndInv, LiveSession, ReconcileCrashed
<1>. QED BY <1>1, <1>2, <1>3 DEF FailRecord, EndRecord, CapEndRecord, TerminalRecord,
            ReconcileCrashed, Terminates

LEMMA TerminatesShape ==
    ASSUME IndInv, NEW s, NEW kind \in {"session_ended", "session_failed"}, Terminates(s, kind)
    PROVE  /\ s \in Sessions /\ Sessions' = Sessions
           /\ \A t \in Sessions :
                /\ sessions'[t].role = sessions[t].role /\ sessions'[t].visit = sessions[t].visit
                /\ sessions'[t].life = sessions[t].life /\ sessions'[t].after = sessions[t].after
                /\ t # s => sessions'[t] = sessions[t]
                /\ Open(t)' <=> t # s /\ Open(t)
                /\ sessions'[t].ends > 0 => sessions[t].ends > 0 \/ (t = s /\ kind = "session_ended")
<1>1. PICK c \in Nat : sessions' = [sessions EXCEPT ![s] = Terminated(sessions[s], kind, c)]
  BY DEF Terminates
<1>2. s \in Sessions /\ TypeOK BY DEF Terminates, IndInv
<1>3. /\ Sessions' = Sessions /\ \A t \in Sessions \ {s} : sessions'[t] = sessions[t]
  BY <1>1, <1>2, TerminalKeepsLog, Zenon
<1>4. sessions'[s] = Terminated(sessions[s], kind, c)
  BY <1>1, <1>2 DEF Sessions
<1>5. sessions[s] \in SessionRecords /\ \A t \in Sessions : sessions[t].ends \in Nat /\ sessions[t].fails \in Nat
  BY <1>2, SessionFields DEF TypeOK, Sessions
<1>6. /\ sessions'[s].role = sessions[s].role /\ sessions'[s].visit = sessions[s].visit
      /\ sessions'[s].life = sessions[s].life /\ sessions'[s].after = sessions[s].after
      /\ sessions'[s].ends \in Nat /\ sessions'[s].fails \in Nat
      /\ sessions'[s].ends + sessions'[s].fails = sessions[s].ends + sessions[s].fails + 1
      /\ sessions'[s].ends > 0 => sessions[s].ends > 0 \/ kind = "session_ended"
  BY <1>4, <1>5, TerminatedKeeps
<1>7. ~Open(s)' BY <1>5, <1>2, <1>6 DEF Open
<1>8. \A t \in Sessions : t # s => (Open(t)' <=> Open(t))
  BY <1>3 DEF Open
<1>. QED BY <1>2, <1>3, <1>6, <1>7, <1>8

LEMMA StartShape ==
    ASSUME IndInv, StartRecord
    PROVE  /\ sid' = Len(sessions) + 1 /\ sid' \notin Sessions /\ sid' # NoSession
           /\ Sessions' = Sessions \cup {sid'}
           /\ \A t \in Sessions : sessions'[t] = sessions[t]
           /\ sessions'[sid'].role = cp.role /\ sessions'[sid'].visit = visitIx[cp.role]
           /\ sessions'[sid'].life = restarts /\ sessions'[sid'].after = Len(accepts)
           /\ sessions'[sid'].ends = 0 /\ sessions'[sid'].fails = 0
           /\ cp' = [cp EXCEPT !.active = sid'] /\ cp'.role = cp.role
<1> DEFINE rec == [role |-> cp.role, visit |-> visitIx[cp.role], ends |-> 0, fails |-> 0, cost |-> 0,
                   life |-> restarts, after |-> Len(accepts)]
<1>1. sessions' = Append(sessions, rec) /\ sid' = Len(sessions) + 1 /\ cp' = [cp EXCEPT !.active = sid']
  BY DEF StartRecord, SessionStarted
<1>2. /\ rec.role = cp.role /\ rec.ends = 0 /\ rec.fails = 0 /\ rec.visit = visitIx[cp.role]
      /\ rec.life = restarts /\ rec.after = Len(accepts)
  OBVIOUS
<1>3. cp'.role = cp.role BY <1>1 DEF IndInv, TypeOK, Checkpoints
<1>4. sessions \in Seq(SessionRecords) BY DEF IndInv, TypeOK
<1> HIDE DEF rec
<1>5. /\ Sessions' = Sessions \cup {sid'} /\ sid' # 0
      /\ sid' \notin Sessions /\ sessions'[sid'] = rec
      /\ \A t \in Sessions : sessions'[t] = sessions[t]
  BY <1>1, <1>4 DEF Sessions
<1>. QED BY <1>1, <1>2, <1>3, <1>5 DEF NoSession

\* The log of sessions only grows, and keeps what a session started with.
LEMMA SessionsOnlyGrow ==
    ASSUME IndInv, Next
    PROVE  /\ Sessions \subseteq Sessions'
           /\ ~StartRecord => Sessions' = Sessions
           /\ \A t \in Sessions :
                /\ sessions'[t].role = sessions[t].role /\ sessions'[t].visit = sessions[t].visit
                /\ sessions'[t].life = sessions[t].life /\ sessions'[t].after = sessions[t].after
                /\ Open(t)' => Open(t)
<1>1. CASE FailRecord \/ EndRecord \/ CapEndRecord
  BY <1>1, TerminalWrites, TerminatesShape
<1>2. CASE ReconcileCrashed
  BY <1>2, TerminalWrites, TerminatesShape
<1>3. CASE StartRecord
  BY <1>3, StartShape DEF Open
<1>4. CASE UNCHANGED sessions
  BY <1>4 DEF Sessions, Open
<1>5. CASE Turn
  BY <1>4, <1>5, TurnMoves DEF durable
<1>6. CASE LoopDone \/ SpawnFails \/ NoMoreModelsAtHub \/ FinalizeFails \/ RunEnds \/ Crash
  BY <1>4, <1>6, LeaveMoves DEF durable
<1>7. CASE ForcedEnd \/ BeginVisit \/ Spawn \/ NoMoreModels \/ NextVisit \/ ModelRetry \/ ModelFallback
           \/ Resume \/ ReconcileSettled \/ ReconcileTerminated \/ Abandoned
  BY <1>4, <1>7 DEF ForcedEnd, BeginVisit, AtOuter, Spawn, NoMoreModels, NextVisit, ModelRetry,
     ModelFallback, NextAttempt, Resume, ReconcileSettled, ReconcileTerminated, Abandoned, vars, durable
<1>8. CASE UnavailableRecord \/ UnavailableSnapshot \/ StartSnapshot \/ FailSnapshot \/ AcceptRecord
           \/ AcceptSnapshot \/ EndSnapshot \/ CapEndSnapshot \/ CapRecord \/ CapSnapshot
           \/ ReconcileSnapshot
  BY <1>4, <1>8 DEF UnavailableRecord, UnavailableSnapshot, StartSnapshot, FailSnapshot, AcceptRecord,
     AcceptSnapshot, EndSnapshot, CapEndSnapshot, TerminalSnapshot, CapRecord, CapSnapshot, ReconcileSnapshot
<1>. QED BY <1>1, <1>2, <1>3, <1>5, <1>6, <1>7, <1>8 DEF Next, LoopStep

LEMMA AcceptFields ==
    ASSUME TypeOK, NEW i \in DOMAIN accepts
    PROVE  /\ accepts[i].by \in Nat /\ accepts[i].to \in States /\ accepts[i].committed \in BOOLEAN
           /\ DOMAIN accepts = 1..Len(accepts) /\ Len(accepts) \in Nat
<1>1. accepts \in Seq(AcceptRecords) BY DEF TypeOK
<1>2. accepts[i] \in AcceptRecords BY <1>1
<1>. QED BY <1>1, <1>2 DEF AcceptRecords

\* A transition_accepted record is appended uncommitted.
LEMMA RecordShape ==
    ASSUME IndInv, NEW by, NEW ev, accepts' = Append(accepts, AcceptRecordOf(by, ev))
    PROVE  /\ Len(accepts') = Len(accepts) + 1 /\ accepts' # <<>>
           /\ DOMAIN accepts' = DOMAIN accepts \cup {Len(accepts')}
           /\ Len(accepts') \notin DOMAIN accepts
           /\ \A i \in DOMAIN accepts : accepts'[i] = accepts[i]
           /\ accepts'[Len(accepts')].by = by
           /\ accepts'[Len(accepts')].to = Reduce(cp, ev).role
           /\ accepts'[Len(accepts')].committed = FALSE
<1> DEFINE rec == AcceptRecordOf(by, ev)
<1>1. rec.by = by /\ rec.to = Reduce(cp, ev).role /\ rec.committed = FALSE
  BY DEF AcceptRecordOf
<1>2. accepts \in Seq(AcceptRecords) BY DEF IndInv, TypeOK
<1>3. accepts' = Append(accepts, rec) OBVIOUS
<1> HIDE DEF rec
<1>4. /\ Len(accepts') = Len(accepts) + 1 /\ accepts' # <<>>
      /\ DOMAIN accepts' = DOMAIN accepts \cup {Len(accepts')}
      /\ Len(accepts') \notin DOMAIN accepts
      /\ \A i \in DOMAIN accepts : accepts'[i] = accepts[i]
      /\ accepts'[Len(accepts')] = rec
  BY <1>2, <1>3
<1>. QED BY <1>1, <1>4

\* The snapshot after it commits the last record and no other.
LEMMA CommitKeeps ==
    ASSUME IndInv, CommitLast, accepts # <<>>
    PROVE  /\ Len(accepts') = Len(accepts) /\ DOMAIN accepts' = DOMAIN accepts
           /\ Len(accepts) \in DOMAIN accepts
           /\ \A i \in DOMAIN accepts : /\ accepts'[i].by = accepts[i].by
                                        /\ accepts'[i].to = accepts[i].to
                                        /\ i # Len(accepts) => accepts'[i] = accepts[i]
           /\ accepts'[Len(accepts)].committed = TRUE
<1>1. accepts \in Seq(AcceptRecords) /\ TypeOK BY DEF IndInv, TypeOK
<1>2. Len(accepts) \in DOMAIN accepts /\ accepts[Len(accepts)] \in AcceptRecords BY <1>1
<1> DEFINE rec == [accepts[Len(accepts)] EXCEPT !.committed = TRUE]
<1>3. /\ rec.by = accepts[Len(accepts)].by /\ rec.to = accepts[Len(accepts)].to
      /\ rec.committed = TRUE
  BY <1>2 DEF AcceptRecords
<1>4. accepts' = [accepts EXCEPT ![Len(accepts)] = rec] BY DEF CommitLast
<1> HIDE DEF rec
<1>5. /\ DOMAIN accepts' = DOMAIN accepts /\ accepts'[Len(accepts)] = rec
      /\ \A i \in DOMAIN accepts : i # Len(accepts) => accepts'[i] = accepts[i]
  BY <1>1, <1>2, <1>4
<1>6. Len(accepts') = Len(accepts) BY <1>1, CommitShape
<1>. QED BY <1>2, <1>3, <1>5, <1>6

\* All other steps leave the transitions alone.
LEMMA AcceptsStay ==
    ASSUME IndInv, Next, ~UnavailableRecord, ~AcceptRecord, ~CapRecord,
           ~UnavailableSnapshot, ~AcceptSnapshot, ~CapSnapshot
    PROVE  accepts' = accepts
<1>1. CASE Turn
  BY <1>1, TurnMoves DEF durable
<1>2. CASE LoopDone \/ SpawnFails \/ NoMoreModelsAtHub \/ FinalizeFails \/ RunEnds \/ Crash
  BY <1>2, LeaveMoves DEF durable
<1>3. CASE ForcedEnd \/ BeginVisit \/ Spawn \/ NoMoreModels \/ NextVisit \/ ModelRetry \/ ModelFallback
           \/ Resume \/ ReconcileSettled \/ ReconcileTerminated \/ Abandoned
  BY <1>3 DEF ForcedEnd, BeginVisit, AtOuter, Spawn, NoMoreModels, NextVisit, ModelRetry, ModelFallback,
     NextAttempt, Resume, ReconcileSettled, ReconcileTerminated, Abandoned, vars, durable
<1>4. CASE StartRecord \/ StartSnapshot \/ FailRecord \/ FailSnapshot \/ EndRecord \/ EndSnapshot
           \/ CapEndRecord \/ CapEndSnapshot \/ ReconcileCrashed \/ ReconcileSnapshot
  BY <1>4 DEF StartRecord, StartSnapshot, FailRecord, FailSnapshot, EndRecord, EndSnapshot, CapEndRecord,
     CapEndSnapshot, TerminalRecord, TerminalSnapshot, ReconcileCrashed, ReconcileSnapshot
<1>. QED BY <1>1, <1>2, <1>3, <1>4 DEF Next, LoopStep

LEMMA AcceptsOnlyGrow ==
    ASSUME IndInv, CountsFit, Next
    PROVE  /\ DOMAIN accepts \subseteq DOMAIN accepts'
           /\ \A i \in DOMAIN accepts :
                /\ accepts'[i].by = accepts[i].by
                /\ accepts[i].committed = TRUE => accepts'[i].committed = TRUE
<1>1. CASE UnavailableRecord \/ AcceptRecord \/ CapRecord
  BY <1>1, RecordShape DEF UnavailableRecord, AcceptRecord, CapRecord
<1>2. CASE UnavailableSnapshot \/ AcceptSnapshot \/ CapSnapshot
  <2>1. CommitLast /\ accepts # <<>>
    BY <1>2 DEF UnavailableSnapshot, AcceptSnapshot, CapSnapshot, CountsFit, Committing
  <2>. QED BY <2>1, CommitKeeps
<1>. QED BY <1>1, <1>2, AcceptsStay

LEMMA SpentOnlyGrows == ASSUME IndInv, Next PROVE spent \in Nat /\ spent' >= spent
<1>0. spent \in Nat /\ usage \in Nat BY DEF IndInv, TypeOK
<1>1. CASE FailRecord \/ EndRecord \/ CapEndRecord
  BY <1>0, <1>1 DEF FailRecord, EndRecord, CapEndRecord, TerminalRecord
<1>2. CASE Turn
  BY <1>0, <1>2, TurnMoves DEF durable
<1>3. CASE LoopDone \/ SpawnFails \/ NoMoreModelsAtHub \/ FinalizeFails \/ RunEnds \/ Crash
  BY <1>0, <1>3, LeaveMoves DEF durable
<1>4. CASE ForcedEnd \/ BeginVisit \/ Spawn \/ NoMoreModels \/ NextVisit \/ ModelRetry \/ ModelFallback
           \/ Resume \/ ReconcileSettled \/ ReconcileTerminated \/ Abandoned
  BY <1>0, <1>4 DEF ForcedEnd, BeginVisit, AtOuter, Spawn, NoMoreModels, NextVisit, ModelRetry,
     ModelFallback, NextAttempt, Resume, ReconcileSettled, ReconcileTerminated, Abandoned, vars, durable
<1>5. CASE UnavailableRecord \/ UnavailableSnapshot \/ StartRecord \/ StartSnapshot \/ FailSnapshot
           \/ AcceptRecord \/ AcceptSnapshot \/ EndSnapshot \/ CapEndSnapshot \/ CapRecord
           \/ CapSnapshot \/ ReconcileCrashed \/ ReconcileSnapshot
  BY <1>0, <1>5 DEF UnavailableRecord, UnavailableSnapshot, StartRecord, StartSnapshot, FailSnapshot,
     AcceptRecord, AcceptSnapshot, EndSnapshot, CapEndSnapshot, TerminalSnapshot, CapRecord, CapSnapshot,
     ReconcileCrashed, ReconcileSnapshot
<1>. QED BY <1>1, <1>2, <1>3, <1>4, <1>5 DEF Next, LoopStep

\* An end is written of a session that handed over, or at the cap.
LEMMA EndsAreNew ==
    ASSUME IndInv, Next, NEW t \in Sessions, sessions'[t].ends > 0, ~(sessions[t].ends > 0)
    PROVE  t = sid /\ (EndRecord \/ CapEndRecord)
<1>1. CASE FailRecord \/ ReconcileCrashed
  BY <1>1, TerminalWrites, TerminatesShape
<1>2. CASE EndRecord \/ CapEndRecord
  BY <1>2, TerminalWrites, TerminatesShape
<1>3. CASE StartRecord
  BY <1>3, StartShape
<1>4. CASE UNCHANGED sessions
  BY <1>4
<1>5. CASE Turn
  BY <1>4, <1>5, TurnMoves DEF durable
<1>6. CASE LoopDone \/ SpawnFails \/ NoMoreModelsAtHub \/ FinalizeFails \/ RunEnds \/ Crash
  BY <1>4, <1>6, LeaveMoves DEF durable
<1>7. CASE ForcedEnd \/ BeginVisit \/ Spawn \/ NoMoreModels \/ NextVisit \/ ModelRetry \/ ModelFallback
           \/ Resume \/ ReconcileSettled \/ ReconcileTerminated \/ Abandoned
  BY <1>4, <1>7 DEF ForcedEnd, BeginVisit, AtOuter, Spawn, NoMoreModels, NextVisit, ModelRetry,
     ModelFallback, NextAttempt, Resume, ReconcileSettled, ReconcileTerminated, Abandoned, vars, durable
<1>8. CASE UnavailableRecord \/ UnavailableSnapshot \/ StartSnapshot \/ FailSnapshot \/ AcceptRecord
           \/ AcceptSnapshot \/ EndSnapshot \/ CapEndSnapshot \/ CapRecord \/ CapSnapshot
           \/ ReconcileSnapshot
  BY <1>4, <1>8 DEF UnavailableRecord, UnavailableSnapshot, StartSnapshot, FailSnapshot, AcceptRecord,
     AcceptSnapshot, EndSnapshot, CapEndSnapshot, TerminalSnapshot, CapRecord, CapSnapshot, ReconcileSnapshot
<1>. QED BY <1>1, <1>2, <1>3, <1>5, <1>6, <1>7, <1>8 DEF Next, LoopStep

-----------------------------------------------------------------------------
(* Every step keeps the parts of LogInv.                                   *)

LEMMA SessionInHandStep ==
    ASSUME IndInv, IndInv', SessionInHand, [Next]_vars
    PROVE  SessionInHand'
<1>. USE DEF SessionInHand
<1>0. \A s \in Sessions : s # NoSession
  BY DEF NoSession, IndInv, Sessions, TypeOK
<1>a. snap.active \in Sessions \cup {NoSession}
  BY DEF IndInv, LiveSession
<1>1. CASE UNCHANGED vars \/ Abandoned
  BY <1>1 DEF Abandoned, vars, durable, visit, turn, life, Open, Sessions
<1>2. CASE LoopDone \/ SpawnFails \/ NoMoreModelsAtHub \/ FinalizeFails \/ RunEnds \/ Crash
  BY <1>2, LeaveMoves DEF Down
<1>3. CASE Turn
  BY <1>3, TurnMoves DEF durable, Open, Sessions, Down
<1>4. CASE ForcedEnd \/ BeginVisit \/ Spawn \/ NoMoreModels
  BY <1>4 DEF ForcedEnd, BeginVisit, AtOuter, Spawn, NoMoreModels, durable, turn, Open, Sessions, Down
<1>5. CASE ModelRetry \/ ModelFallback \/ NextVisit
  <2>1. /\ pc = "settled" /\ why \in {"advance", "model_error"} /\ UNCHANGED durable
        /\ sid' = NoSession /\ pc' \in {"spawn", "outer"}
    BY <1>5 DEF ModelRetry, ModelFallback, NextAttempt, NextVisit, ForgetTurn
  <2>2. snap.active = NoSession \/ ~Open(snap.active)
    BY <2>1 DEF Down
  <2>. QED BY <2>1, <2>2 DEF Open, durable, Down
<1>6. CASE UnavailableRecord \/ AcceptRecord \/ CapRecord
  BY <1>6 DEF UnavailableRecord, AcceptRecord, CapRecord, turn, Open, Sessions, Down
<1>7. CASE UnavailableSnapshot \/ CapSnapshot
  <2>1. snap'.active \in {NoSession, sid} \/ ~Open(snap'.active)
    BY <1>7 DEF UnavailableSnapshot, CapSnapshot, IndInv, LiveSession, Between, Steps, Live
  <2>. QED BY <1>7, <2>1 DEF UnavailableSnapshot, CapSnapshot, turn, Open, Sessions, Down
<1>8. CASE AcceptSnapshot
  <2>1. snap'.active = sid
    BY <1>8 DEF AcceptSnapshot, turn, IndInv, LiveSession, Live
  <2>. QED BY <1>8, <2>1 DEF AcceptSnapshot, turn, Open, Sessions, Down
<1>9. CASE FailRecord \/ EndRecord \/ CapEndRecord
  <2>1. /\ sid \in Sessions /\ Sessions' = Sessions /\ ~Open(sid)'
        /\ \A t \in Sessions : Open(t)' => Open(t)
        /\ \A t \in Sessions : sessions'[t].role = sessions[t].role
    <3>1. sid' = sid
      BY <1>9 DEF FailRecord, EndRecord, CapEndRecord, TerminalRecord, turn
    <3>2. \E kind \in {"session_ended", "session_failed"} : Terminates(sid, kind)
      BY <1>9, TerminalWrites
    <3>. QED BY <3>1, <3>2, TerminatesShape
  <2>2. /\ UNCHANGED <<snap, sid, why>> /\ pc \notin Down \cup {"reconcile"} /\ cp'.role = cp.role
        /\ pc = "failRec" <=> pc' = "failSnap"
        /\ pc' \in {"failSnap", "endSnap", "capEndSnap"}
    BY <1>9 DEF FailRecord, EndRecord, CapEndRecord, TerminalRecord, turn, Down, SessionTerminal, IndInv,
                TypeOK, Checkpoints
  <2>3. pc = "failRec" => sessions[sid].role = cp.role
    BY DEF IndInv, LiveSession, Live
  <2>. QED BY <1>0, <1>a, <2>1, <2>2, <2>3 DEF Down
<1>10. CASE FailSnapshot \/ EndSnapshot \/ CapEndSnapshot
  <2>1. /\ pc \in {"failSnap", "endSnap", "capEndSnap"} /\ snap' = cp /\ cp.active = NoSession
        /\ UNCHANGED <<sid, sessions, cp>>
        /\ pc' = "settled" => (pc = "failSnap" /\ why' = why) \/ why' \in {"advance", "done"}
        /\ pc' \in {"settled", "capRec"}
    BY <1>10 DEF FailSnapshot, EndSnapshot, CapEndSnapshot, TerminalSnapshot, IndInv, LiveSession, Between,
                 Live, Steps
  <2>. QED BY <2>1 DEF Open, Sessions, Down
<1>11. CASE StartRecord
  BY <1>0, <1>a, <1>11, StartShape DEF StartRecord, Open, Down
<1>12. CASE StartSnapshot
  <2>1. snap'.active = sid
    BY <1>12 DEF StartSnapshot, turn, IndInv, LiveSession, Live
  <2>. QED BY <1>12, <2>1 DEF StartSnapshot, turn, Open, Sessions, Down
<1>13. CASE Resume
  BY <1>13 DEF Resume, turn, Open, Sessions, Down
<1>14. CASE ReconcileSettled
  <2>1. snap.active = NoSession BY <1>14 DEF ReconcileSettled, IndInv, LiveSession
  <2>. QED BY <1>14, <2>1 DEF ReconcileSettled, EnterLoop, turn, durable, Open, Sessions, Down
<1>15. CASE ReconcileTerminated
  <2>1. snap.active = cp.active /\ cp.active \in Sessions
    BY <1>0, <1>a, <1>15 DEF ReconcileTerminated, IndInv, LiveSession
  <2>2. sessions[cp.active].ends \in Nat /\ sessions[cp.active].fails \in Nat
    BY <2>1, SessionFields DEF IndInv, TypeOK, Sessions
  <2>3. ~Open(snap.active) BY <1>15, <2>1, <2>2 DEF ReconcileTerminated, HasTerminal, Open
  <2>. QED BY <1>15, <2>3 DEF ReconcileTerminated, turn, durable, Open, Sessions, Down
<1>16. CASE ReconcileCrashed
  <2>1. snap.active = cp.active /\ cp.active \in Sessions
    BY <1>0, <1>a, <1>16 DEF ReconcileCrashed, IndInv, LiveSession
  <2>2. snap' = snap /\ Sessions' = Sessions /\ ~Open(snap.active)'
    <3>1. Terminates(cp.active, "session_failed") /\ snap' = snap
      BY <1>16, TerminalWrites DEF ReconcileCrashed
    <3>. QED BY <2>1, <3>1, TerminatesShape
  <2>. QED BY <1>16, <2>1, <2>2 DEF ReconcileCrashed, turn, Down
<1>17. CASE ReconcileSnapshot
  <2>1. cp.active = NoSession
    BY <1>17 DEF ReconcileSnapshot, IndInv, LiveSession, Between, Live, Steps
  <2>. QED BY <1>17, <2>1 DEF ReconcileSnapshot, EnterLoop, turn, Open, Sessions, Down
<1>. QED BY <1>1, <1>2, <1>3, <1>4, <1>5, <1>6, <1>7, <1>8, <1>9, <1>10, <1>11, <1>12, <1>13, <1>14,
            <1>15, <1>16, <1>17 DEF Next, LoopStep

LEMMA HandOversStep ==
    ASSUME IndInv, SessionInHand, HandOversFit, CountsFit, [Next]_vars
    PROVE  HandOversFit'
<1>. USE DEF HandOversFit
<1>0. \A s \in Sessions : s # NoSession
  BY DEF NoSession, IndInv, Sessions, TypeOK
<1>1. CASE UNCHANGED vars \/ Abandoned
  BY <1>1 DEF Abandoned, vars, durable, visit, turn, life, Sessions, AcceptsBy
<1>2. CASE UnavailableRecord \/ CapRecord
  <2>1. \E ev : accepts' = Append(accepts, AcceptRecordOf(NoSession, ev))
    BY <1>2 DEF UnavailableRecord, CapRecord
  <2>2. PICK n : /\ DOMAIN accepts' = DOMAIN accepts \cup {n} /\ n \notin DOMAIN accepts
                 /\ \A i \in DOMAIN accepts : accepts'[i] = accepts[i]
                 /\ accepts'[n].by = NoSession
    BY <2>1, RecordShape
  <2>. QED BY <1>2, <2>2 DEF UnavailableRecord, CapRecord, Sessions
<1>3. CASE AcceptRecord
  <2>1. accepts' = Append(accepts, AcceptRecordOf(sid, event))
    BY <1>3 DEF AcceptRecord
  <2>2. /\ DOMAIN accepts' = DOMAIN accepts \cup {Len(accepts')} /\ Len(accepts') \notin DOMAIN accepts
        /\ \A i \in DOMAIN accepts : accepts'[i] = accepts[i]
        /\ accepts'[Len(accepts')].by = sid
    BY <2>1, RecordShape
  <2>3. /\ sid \in Sessions /\ UNCHANGED <<sessions, sid>> /\ pc' = "acceptSnap"
        /\ \A i \in DOMAIN accepts : accepts[i].by # sid
    BY <1>3 DEF AcceptRecord, turn, IndInv, LiveSession, Live
  <2>4. Sessions' = Sessions BY <2>3 DEF Sessions
  <2>. QED BY <2>2, <2>3, <2>4
<1>4. CASE UnavailableSnapshot \/ AcceptSnapshot \/ CapSnapshot
  <2>1. CommitLast /\ accepts # <<>> /\ sessions' = sessions /\ sid' = sid
    BY <1>4 DEF UnavailableSnapshot, AcceptSnapshot, CapSnapshot, CountsFit, Committing, turn
  <2>2. /\ Len(accepts') = Len(accepts) /\ DOMAIN accepts' = DOMAIN accepts
        /\ Len(accepts) \in DOMAIN accepts
        /\ \A i \in DOMAIN accepts : accepts'[i].by = accepts[i].by
        /\ accepts'[Len(accepts)].committed = TRUE
    BY <2>1, CommitKeeps
  <2>3. pc' \in {"outer", "endRec", "settled"} /\ (pc' = "endRec" => pc = "acceptSnap")
    BY <1>4 DEF UnavailableSnapshot, AcceptSnapshot, CapSnapshot
  <2>. QED BY <2>1, <2>2, <2>3 DEF Sessions, AcceptsBy
<1>5. CASE StartRecord
  <2>1. accepts' = accepts /\ pc' = "startSnap" BY <1>5 DEF StartRecord
  <2>. QED BY <1>0, <1>5, <2>1, StartShape
<1>6. CASE /\ Next /\ ~UnavailableRecord /\ ~AcceptRecord /\ ~CapRecord /\ ~UnavailableSnapshot
           /\ ~AcceptSnapshot /\ ~CapSnapshot /\ ~StartRecord /\ ~Abandoned
  <2>1. accepts' = accepts /\ Sessions' = Sessions
    BY <1>6, AcceptsStay, SessionsOnlyGrow
  <2>2. /\ pc' \notin {"acceptSnap", "endRec"}
        /\ pc' \in {"startSnap", "prompt", "failRec", "acceptRec"} =>
             pc \in {"startSnap", "prompt", "failRec", "acceptRec"} /\ sid' = sid
    <3>1. CASE LoopDone \/ SpawnFails \/ NoMoreModelsAtHub \/ FinalizeFails \/ RunEnds \/ Crash
      BY <3>1, LeaveMoves
    <3>2. CASE Turn
      BY <3>2, TurnMoves
    <3>3. CASE ForcedEnd \/ BeginVisit \/ Spawn \/ NoMoreModels \/ NextVisit \/ ModelRetry
               \/ ModelFallback \/ Resume \/ ReconcileSettled \/ ReconcileTerminated
               \/ ReconcileCrashed \/ ReconcileSnapshot
      BY <3>3 DEF ForcedEnd, BeginVisit, AtOuter, Spawn, NoMoreModels, NextVisit, ModelRetry,
         ModelFallback, NextAttempt, Resume, ReconcileSettled, ReconcileTerminated, ReconcileCrashed,
         ReconcileSnapshot, EnterLoop
    <3>4. CASE FailRecord \/ EndRecord \/ CapEndRecord \/ FailSnapshot \/ EndSnapshot \/ CapEndSnapshot
               \/ StartSnapshot
      BY <3>4 DEF FailRecord, EndRecord, CapEndRecord, TerminalRecord, FailSnapshot, EndSnapshot,
         CapEndSnapshot, TerminalSnapshot, StartSnapshot, turn
    <3>. QED BY <1>6, <3>1, <3>2, <3>3, <3>4 DEF Next, LoopStep
  <2>. QED BY <2>1, <2>2
<1>. QED BY <1>1, <1>2, <1>3, <1>4, <1>5, <1>6

LEMMA EndedSessionsStep ==
    ASSUME IndInv, IndInv', HandOversFit, EndedSessionsHandedOver, CountsFit, [Next]_vars
    PROVE  EndedSessionsHandedOver'
<1>1. CASE UNCHANGED vars \/ Abandoned
  BY <1>1 DEF Abandoned, vars, durable, EndedSessionsHandedOver, Sessions, AcceptsBy
<1>2. CASE Next
  <2>. SUFFICES ASSUME NEW s \in Sessions', sessions'[s].ends > 0
                PROVE  \/ \E i \in DOMAIN accepts' : accepts'[i].by = s /\ accepts'[i].committed
                       \/ sessions'[s].role = Orchestrator /\ spent' >= RunCap
    BY DEF EndedSessionsHandedOver, AcceptsBy
  <2>1. s \in Sessions
    BY <1>2, StartShape, SessionsOnlyGrow
  <2>2. sessions'[s].role = sessions[s].role /\ spent \in Nat /\ spent' >= spent /\ RunCap \in Nat
        /\ spent' \in Nat
    BY <1>2, <2>1, SessionsOnlyGrow, SpentOnlyGrows, BoundAssumption DEF IndInv, TypeOK
  <2>3. \A i \in DOMAIN accepts : accepts[i].by = s /\ accepts[i].committed = TRUE =>
          i \in DOMAIN accepts' /\ accepts'[i].by = s /\ accepts'[i].committed
    BY <1>2, AcceptsOnlyGrow
  <2>4. \A i \in DOMAIN accepts : accepts[i].committed \in BOOLEAN
    BY AcceptFields DEF IndInv
  <2>5. CASE sessions[s].ends > 0
    <3>1. CASE \E i \in AcceptsBy(s) : accepts[i].committed
      BY <2>3, <2>4, <3>1 DEF AcceptsBy
    <3>2. CASE sessions[s].role = Orchestrator /\ spent >= RunCap
      BY <2>2, <3>2
    <3>. QED BY <2>1, <2>5, <3>1, <3>2 DEF EndedSessionsHandedOver
  <2>6. CASE ~(sessions[s].ends > 0)
    <3>1. s = sid /\ (EndRecord \/ CapEndRecord)
      BY <1>2, <2>1, <2>6, EndsAreNew
    <3>2. CASE EndRecord
      BY <2>3, <3>1, <3>2 DEF EndRecord, TerminalRecord, HandOversFit, AcceptsBy
    <3>3. CASE CapEndRecord
      BY <2>2, <3>1, <3>3 DEF CapEndRecord, TerminalRecord, IndInv, PendingCapClose, Capped, LiveSession, Live
    <3>. QED BY <3>1, <3>2, <3>3
  <2>. QED BY <2>5, <2>6
<1>. QED BY <1>1, <1>2

\* reduce: a dispatch, and it alone, takes a visit, and only one that is left.
LEMMA AcceptedDispatch ==
    ASSUME NEW c \in Checkpoints, NEW ev \in Events, Accepts(c, ev), NEW w \in Workers
    PROVE  /\ Reduce(c, ev).role = w =>
                Reduce(c, ev).visits[w] = c.visits[w] + 1 /\ c.visits[w] < MaxVisits[w]
           /\ Reduce(c, ev).role # w => Reduce(c, ev).visits[w] = c.visits[w]
<1> USE RoleAssumption, PolicyAssumption
<1>1. CASE c.role = Orchestrator /\ ev.type = "end"
  <2>1. Reduce(c, ev) = [c EXCEPT !.role = Done, !.endReq = None]
    BY <1>1 DEF Reduce, Advance, AfterOrchestrator
  <2>2. Reduce(c, ev).role = Done /\ Reduce(c, ev).visits = c.visits
    BY <2>1 DEF Checkpoints
  <2>. QED BY <2>2
<1>2. CASE c.role = Orchestrator /\ ev.type # "end"
  <2>1. ev.target \in Workers /\ ~(c.visits[ev.target] >= MaxVisits[ev.target])
    BY <1>2 DEF Accepts, Verdict, VerdictFromOrchestrator
  <2>2. Reduce(c, ev) = [role |-> ev.target,
                         visits |-> [c.visits EXCEPT ![ev.target] = c.visits[ev.target] + 1],
                         endReq |-> None, active |-> c.active]
    BY <1>2, <2>1 DEF Reduce, Advance, AfterOrchestrator, Checkpoints
  <2>3. /\ Reduce(c, ev).role = ev.target
        /\ Reduce(c, ev).visits = [c.visits EXCEPT ![ev.target] = c.visits[ev.target] + 1]
    BY <2>2
  <2>4. c.visits \in [Workers -> Nat]
    BY DEF Checkpoints
  <2>. QED BY <2>1, <2>3, <2>4
<1>3. CASE c.role # Orchestrator
  <2>1. Reduce(c, ev) = [c EXCEPT !.role = Orchestrator,
                                  !.endReq = IF ev.requestEnd THEN c.role ELSE @]
    BY <1>3 DEF Reduce, Advance, AfterWorker
  <2>2. Reduce(c, ev).role = Orchestrator /\ Reduce(c, ev).visits = c.visits
    BY <2>1 DEF Checkpoints
  <2>. QED BY <2>2
<1>. QED BY <1>1, <1>2, <1>3

\* What is being committed was accepted of the checkpoint in memory.
LEMMA PendingIsAccepted ==
    ASSUME IndInv, pc \in Committing
    PROVE  Pending \in Events /\ Accepts(cp, Pending)
<1> USE RoleAssumption DEF IndInv
<1>1. CASE pc = "acceptSnap"
  BY <1>1 DEF Pending, PendingCommit, TypeOK
<1>2. CASE pc = "unavailSnap"
  <2>1. Pending = Unavailable BY <1>2 DEF Pending
  <2>2. cp.role \in Workers BY <1>2 DEF RoleInControl
  <2>3. Accepts(cp, Unavailable)
    BY <2>2 DEF Accepts, Verdict, VerdictFromWorker, Unavailable, Handoff
  <2>. QED BY <2>1, <2>3, EventShapes
<1>3. CASE pc = "capSnap"
  <2>1. Pending = End("run_cost_cap") BY <1>3 DEF Pending
  <2>2. cp.role = Orchestrator BY <1>3 DEF PendingCapClose
  <2>3. Accepts(cp, End("run_cost_cap"))
    BY <2>2 DEF Accepts, Verdict, VerdictFromOrchestrator, End
  <2>. QED BY <2>1, <2>3, EventShapes
<1>. QED BY <1>1, <1>2, <1>3 DEF Committing

LEMMA RecordedIsAccepted ==
    /\ IndInv /\ UnavailableRecord => Accepts(cp, Unavailable)
    /\ IndInv /\ AcceptRecord => Accepts(cp, event)
    /\ IndInv /\ CapRecord => Accepts(cp, End("run_cost_cap"))
<1> USE RoleAssumption DEF IndInv
<1>1. ASSUME IndInv, UnavailableRecord PROVE Accepts(cp, Unavailable)
  <2>1. cp.role \in Workers BY <1>1 DEF RoleInControl, UnavailableRecord
  <2>. QED BY <2>1 DEF Accepts, Verdict, VerdictFromWorker, Unavailable, Handoff
<1>2. ASSUME IndInv, AcceptRecord PROVE Accepts(cp, event)
  BY <1>2 DEF PendingCommit, AcceptRecord
<1>3. ASSUME IndInv, CapRecord PROVE Accepts(cp, End("run_cost_cap"))
  <2>1. cp.role = Orchestrator BY <1>3 DEF PendingCapClose, CapRecord
  <2>. QED BY <2>1 DEF Accepts, Verdict, VerdictFromOrchestrator, End
<1>. QED BY <1>1, <1>2, <1>3

LEMMA AcceptsAreFinite ==
    ASSUME TypeOK
    PROVE  /\ IsFiniteSet(Uncommitted)
           /\ \A w : /\ IsFiniteSet(DispatchesTo(w)) /\ IsFiniteSet(Committed(w))
                     /\ IsFiniteSet(DispatchesTo(w) \cap Uncommitted)
                     /\ Cardinality(DispatchesTo(w) \cap Uncommitted) \in Nat
                     /\ Cardinality(Committed(w)) \in Nat
                     /\ Cardinality(DispatchesTo(w) \cap Uncommitted) <= Cardinality(Uncommitted)
           /\ Cardinality(Uncommitted) \in Nat
<1>1. accepts \in Seq(AcceptRecords) BY DEF TypeOK
<1>2. DOMAIN accepts = 1..Len(accepts) /\ 1 \in Int /\ Len(accepts) \in Int BY <1>1
<1>3. IsFiniteSet(DOMAIN accepts) BY <1>2, FS_Interval
<1>4. IsFiniteSet(Uncommitted) /\ Cardinality(Uncommitted) \in Nat
  BY <1>3, FS_Subset, FS_CardinalityType DEF Uncommitted
<1>5. ASSUME NEW w
      PROVE  /\ IsFiniteSet(DispatchesTo(w)) /\ IsFiniteSet(Committed(w))
             /\ IsFiniteSet(DispatchesTo(w) \cap Uncommitted)
             /\ Cardinality(DispatchesTo(w) \cap Uncommitted) <= Cardinality(Uncommitted)
  <2>1. IsFiniteSet(DispatchesTo(w)) BY <1>3, FS_Subset DEF DispatchesTo
  <2>2. IsFiniteSet(Committed(w)) BY <2>1, FS_Subset DEF Committed
  <2>3. DispatchesTo(w) \cap Uncommitted \subseteq Uncommitted OBVIOUS
  <2>. QED BY <1>4, <2>1, <2>2, <2>3, FS_Subset
<1>. QED BY <1>4, <1>5, FS_CardinalityType

LEMMA CountsStepOfRecord ==
    ASSUME IndInv, CountsFit, UnavailableRecord \/ AcceptRecord \/ CapRecord
    PROVE  CountsFit'
<1> DEFINE ev == IF pc = "acceptRec" THEN event
                 ELSE IF pc = "unavailRec" THEN Unavailable ELSE End("run_cost_cap")
           n == Len(accepts')
<1>1. /\ \E by : accepts' = Append(accepts, AcceptRecordOf(by, ev))
      /\ ev = Pending' /\ ev \in Events /\ Accepts(cp, ev)
      /\ UNCHANGED <<snap, cp, restarts>> /\ pc' \in Committing
      /\ pc \notin Committing \cup {"crashed"}
  <2>1. CASE UnavailableRecord
    <3>1. ev = Unavailable /\ Pending' = Unavailable BY <2>1 DEF UnavailableRecord, Pending
    <3> HIDE DEF ev
    <3>. QED BY <2>1, <3>1, EventShapes, RecordedIsAccepted DEF UnavailableRecord, Committing, life
  <2>2. CASE AcceptRecord
    <3>1. ev = event /\ Pending' = event BY <2>2 DEF AcceptRecord, Pending, turn
    <3> HIDE DEF ev
    <3>. QED BY <2>2, <3>1, RecordedIsAccepted DEF AcceptRecord, Committing, life, IndInv, TypeOK
  <2>3. CASE CapRecord
    <3>1. ev = End("run_cost_cap") /\ Pending' = End("run_cost_cap") BY <2>3 DEF CapRecord, Pending
    <3> HIDE DEF ev
    <3>. QED BY <2>3, <3>1, EventShapes, RecordedIsAccepted DEF CapRecord, Committing, life
  <2>. QED BY <2>1, <2>2, <2>3
<1> HIDE DEF ev
<1>2. /\ accepts' # <<>> /\ DOMAIN accepts' = DOMAIN accepts \cup {n} /\ n \notin DOMAIN accepts
      /\ \A i \in DOMAIN accepts : accepts'[i] = accepts[i]
      /\ accepts'[n].to = Reduce(cp, ev).role /\ accepts'[n].committed = FALSE
  BY <1>1, RecordShape
<1> HIDE DEF n
<1>3. cp \in Checkpoints /\ cp.visits = snap.visits /\ snap.visits \in [Workers -> Nat]
      /\ restarts \in Nat /\ MaxVisits \in [Workers -> Nat]
  BY PolicyAssumption DEF IndInv, TypeOK, SameControl, Checkpoints
<1>4. Uncommitted' = Uncommitted \cup {n} /\ n \notin Uncommitted
  BY <1>2 DEF Uncommitted
<1>7. Cardinality(Uncommitted') = Cardinality(Uncommitted) + 1
  BY <1>4, AcceptsAreFinite, FS_AddElement DEF IndInv
<1>8. Cardinality(Uncommitted) <= restarts /\ Cardinality(Uncommitted) \in Nat
  BY <1>1, <1>3, AcceptsAreFinite DEF CountsFit, IndInv
<1>9. ASSUME NEW w \in Workers
      PROVE  /\ snap'.visits[w] = Cardinality(Committed(w)')
             /\ snap'.visits[w] + Cardinality((DispatchesTo(w) \cap Uncommitted)')
                  <= MaxVisits[w] + restarts'
  <2>1. snap'.visits[w] = snap.visits[w] /\ snap.visits[w] \in Nat /\ MaxVisits[w] \in Nat
    BY <1>1, <1>3
  <2>2. snap.visits[w] = Cardinality(Committed(w)) /\
        snap.visits[w] + Cardinality(DispatchesTo(w) \cap Uncommitted) <= MaxVisits[w] + restarts
    BY DEF CountsFit
  <2>3. /\ Cardinality(DispatchesTo(w) \cap Uncommitted) \in Nat
        /\ Cardinality(DispatchesTo(w) \cap Uncommitted) <= Cardinality(Uncommitted)
        /\ IsFiniteSet(DispatchesTo(w) \cap Uncommitted)
    BY AcceptsAreFinite DEF IndInv
  <2>6. Committed(w)' = Committed(w)
    BY <1>2 DEF Committed, DispatchesTo
  <2>7. snap'.visits[w] = Cardinality(Committed(w)')
    BY <2>1, <2>2, <2>6
  <2>8. restarts' = restarts /\ restarts \in Nat BY <1>1, <1>3
  <2>4. CASE Reduce(cp, ev).role = w
    <3>1. snap.visits[w] < MaxVisits[w] BY <1>1, <1>3, <2>4, AcceptedDispatch
    <3>2. n \notin DispatchesTo(w) \cap Uncommitted BY <1>4
    <3>3. Cardinality((DispatchesTo(w) \cap Uncommitted) \cup {n})
            = Cardinality(DispatchesTo(w) \cap Uncommitted) + 1
      BY <2>3, <3>2, FS_AddElement
    <3>4. (DispatchesTo(w) \cap Uncommitted)' = (DispatchesTo(w) \cap Uncommitted) \cup {n}
      BY <1>2, <2>4 DEF Uncommitted, DispatchesTo
    <3>5. Cardinality((DispatchesTo(w) \cap Uncommitted)')
            = Cardinality(DispatchesTo(w) \cap Uncommitted) + 1
      BY <3>3, <3>4
    <3>6. Cardinality(DispatchesTo(w) \cap Uncommitted) <= restarts
      BY <1>8, <2>3, <2>8
    <3> HIDE DEF ev, n
    <3>. QED BY <2>1, <2>3, <2>7, <2>8, <3>1, <3>5, <3>6
  <2>5. CASE Reduce(cp, ev).role # w
    <3>4. (DispatchesTo(w) \cap Uncommitted)' = DispatchesTo(w) \cap Uncommitted
      BY <1>2, <2>5 DEF Uncommitted, DispatchesTo
    <3>. QED BY <2>1, <2>2, <2>7, <2>8, <3>4
  <2>. QED BY <2>4, <2>5
<1>10. accepts'[Len(accepts')].to = Reduce(cp', Pending').role /\ accepts'[Len(accepts')].committed = FALSE
  BY <1>1, <1>2 DEF n
<1>11. Cardinality(Uncommitted') <= restarts' + 1
  BY <1>1, <1>3, <1>7, <1>8
<1>. QED BY <1>1, <1>2, <1>9, <1>10, <1>11 DEF CountsFit

LEMMA CountsStepOfCommit ==
    ASSUME IndInv, CountsFit, UnavailableSnapshot \/ AcceptSnapshot \/ CapSnapshot
    PROVE  CountsFit'
<1> DEFINE n == Len(accepts)
<1>1. /\ CommitLast /\ pc \in Committing /\ pc' \notin Committing \cup {"crashed"}
      /\ restarts' = restarts /\ snap' = Reduce(cp, Pending)
  <2>1. CASE UnavailableSnapshot
    BY <2>1 DEF UnavailableSnapshot, Pending, Committing, life
  <2>2. CASE AcceptSnapshot
    BY <2>2 DEF AcceptSnapshot, Pending, Committing, life
  <2>3. CASE CapSnapshot
    BY <2>3 DEF CapSnapshot, Pending, Committing, life
  <2>. QED BY <2>1, <2>2, <2>3
<1>2. Pending \in Events /\ Accepts(cp, Pending) BY <1>1, PendingIsAccepted
<1>3. /\ accepts # <<>> /\ accepts[n].to = Reduce(cp, Pending).role /\ accepts[n].committed = FALSE
  BY <1>1 DEF CountsFit
<1>4. /\ DOMAIN accepts' = DOMAIN accepts /\ n \in DOMAIN accepts
      /\ \A i \in DOMAIN accepts : /\ accepts'[i].to = accepts[i].to
                                   /\ i # n => accepts'[i] = accepts[i]
      /\ accepts'[n].committed = TRUE
  BY <1>1, <1>3, CommitKeeps
<1> HIDE DEF n
<1>5. cp \in Checkpoints /\ cp.visits = snap.visits /\ snap.visits \in [Workers -> Nat]
      /\ restarts \in Nat /\ MaxVisits \in [Workers -> Nat]
  BY PolicyAssumption DEF IndInv, TypeOK, SameControl, Checkpoints
<1>6. Uncommitted' = Uncommitted \ {n} /\ n \in Uncommitted
  BY <1>3, <1>4 DEF Uncommitted
<1>8. \A w : n \notin Committed(w) BY <1>3 DEF Committed
<1>10. \A w : Reduce(cp, Pending).role = w => n \in DispatchesTo(w) \cap Uncommitted
  BY <1>3, <1>4 DEF Uncommitted, DispatchesTo
<1>11. Cardinality(Uncommitted') = Cardinality(Uncommitted) - 1
  BY <1>6, AcceptsAreFinite, FS_RemoveElement DEF IndInv
<1>12. Cardinality(Uncommitted) <= restarts + 1 /\ Cardinality(Uncommitted) \in Nat
  BY <1>1, <1>5, AcceptsAreFinite DEF CountsFit, IndInv
<1>13. ASSUME NEW w \in Workers
      PROVE  /\ snap'.visits[w] = Cardinality(Committed(w)')
             /\ snap'.visits[w] + Cardinality((DispatchesTo(w) \cap Uncommitted)')
                  <= MaxVisits[w] + restarts'
  <2>1. snap.visits[w] \in Nat /\ MaxVisits[w] \in Nat /\ snap.visits[w] = cp.visits[w]
    BY <1>5
  <2>2. snap.visits[w] = Cardinality(Committed(w)) /\
        snap.visits[w] + Cardinality(DispatchesTo(w) \cap Uncommitted) <= MaxVisits[w] + restarts
    BY DEF CountsFit
  <2>3. /\ Cardinality(DispatchesTo(w) \cap Uncommitted) \in Nat
        /\ IsFiniteSet(DispatchesTo(w) \cap Uncommitted) /\ IsFiniteSet(Committed(w))
    BY AcceptsAreFinite DEF IndInv
  <2>6. restarts' = restarts /\ restarts \in Nat BY <1>1, <1>5
  <2>4. CASE Reduce(cp, Pending).role = w
    <3>1. snap'.visits[w] = snap.visits[w] + 1 BY <1>1, <1>2, <1>5, <2>1, <2>4, AcceptedDispatch
    <3>2. Cardinality(Committed(w) \cup {n}) = Cardinality(Committed(w)) + 1
      BY <1>8, <2>3, FS_AddElement
    <3>3. Cardinality((DispatchesTo(w) \cap Uncommitted) \ {n})
            = Cardinality(DispatchesTo(w) \cap Uncommitted) - 1
      BY <1>10, <2>3, <2>4, FS_RemoveElement
    <3>4. Committed(w)' = Committed(w) \cup {n}
      BY <1>3, <1>4, <2>4 DEF Committed, DispatchesTo
    <3>5. (DispatchesTo(w) \cap Uncommitted)' = (DispatchesTo(w) \cap Uncommitted) \ {n}
      BY <1>3, <1>4, <2>4 DEF Uncommitted, DispatchesTo
    <3>6. Cardinality(Committed(w)') = Cardinality(Committed(w)) + 1 BY <3>2, <3>4
    <3>7. Cardinality((DispatchesTo(w) \cap Uncommitted)')
            = Cardinality(DispatchesTo(w) \cap Uncommitted) - 1
      BY <3>3, <3>5
    <3>. QED BY <2>1, <2>2, <2>3, <2>6, <3>1, <3>6, <3>7
  <2>5. CASE Reduce(cp, Pending).role # w
    <3>1. snap'.visits[w] = snap.visits[w] BY <1>1, <1>2, <1>5, <2>1, <2>5, AcceptedDispatch
    <3>4. Committed(w)' = Committed(w)
      BY <1>3, <1>4, <2>5 DEF Committed, DispatchesTo
    <3>5. (DispatchesTo(w) \cap Uncommitted)' = DispatchesTo(w) \cap Uncommitted
      BY <1>3, <1>4, <2>5 DEF Uncommitted, DispatchesTo
    <3>. QED BY <2>2, <2>6, <3>1, <3>4, <3>5
  <2>. QED BY <2>4, <2>5
<1>14. Cardinality(Uncommitted') <= restarts'
  BY <1>1, <1>5, <1>11, <1>12
<1>15. restarts' \in Nat BY <1>1, <1>5
<1>. QED BY <1>1, <1>13, <1>14, <1>15 DEF CountsFit

\* Nothing else touches the counters or the records.
LEMMA CountsStep ==
    ASSUME IndInv, CountsFit, [Next]_vars
    PROVE  CountsFit'
<1>1. CASE UnavailableRecord \/ AcceptRecord \/ CapRecord
  BY <1>1, CountsStepOfRecord
<1>2. CASE UnavailableSnapshot \/ AcceptSnapshot \/ CapSnapshot
  BY <1>2, CountsStepOfCommit
<1>3. CASE /\ [Next]_vars /\ ~UnavailableRecord /\ ~AcceptRecord /\ ~CapRecord /\ ~UnavailableSnapshot
           /\ ~AcceptSnapshot /\ ~CapSnapshot
  <2>1. accepts' = accepts
    BY <1>3, AcceptsStay DEF vars, durable
  <2>2. Uncommitted' = Uncommitted BY <2>1 DEF Uncommitted
  <2>4. /\ snap'.visits = snap.visits
        /\ \/ /\ restarts' = restarts /\ (pc = "crashed" <=> pc' = "crashed")
              /\ pc' \in Committing => pc \in Committing /\ cp' = cp /\ Pending' = Pending
              /\ pc \in Committing => pc' \in Committing
           \/ restarts' = restarts /\ pc' = "crashed"
           \/ restarts' = restarts + 1 /\ pc' \notin Committing \cup {"crashed"} /\ pc \notin Committing
           \/ restarts' = restarts /\ pc' \notin Committing \cup {"crashed"} /\ pc \notin Committing \cup {"crashed"}
    <3>. USE DEF Committing, Down
    <3>1. cp.visits = snap.visits BY DEF IndInv, SameControl
    <3>2. CASE UNCHANGED vars \/ Abandoned
      BY <3>2 DEF Abandoned, vars, durable, turn, life, Pending
    <3>3. CASE LoopDone \/ SpawnFails \/ NoMoreModelsAtHub \/ FinalizeFails \/ RunEnds \/ Crash
      BY <3>3, LeaveMoves DEF durable
    <3>4. CASE Turn
      BY <3>4, TurnMoves DEF durable
    <3>5. CASE ForcedEnd \/ BeginVisit \/ Spawn \/ NoMoreModels \/ NextVisit \/ ModelRetry
               \/ ModelFallback \/ ReconcileSettled \/ ReconcileTerminated \/ ReconcileCrashed
               \/ ReconcileSnapshot
      BY <3>1, <3>5 DEF ForcedEnd, BeginVisit, AtOuter, Spawn, NoMoreModels, NextVisit, ModelRetry,
         ModelFallback, NextAttempt, ReconcileSettled, ReconcileTerminated, ReconcileCrashed,
         ReconcileSnapshot, EnterLoop, durable, life
    <3>6. CASE FailRecord \/ EndRecord \/ CapEndRecord \/ FailSnapshot \/ EndSnapshot \/ CapEndSnapshot
               \/ StartSnapshot \/ StartRecord
      BY <3>1, <3>6 DEF FailRecord, EndRecord, CapEndRecord, TerminalRecord, FailSnapshot, EndSnapshot,
         CapEndSnapshot, TerminalSnapshot, StartSnapshot, StartRecord, life
    <3>7. CASE Resume
      BY <3>7 DEF Resume, durable
    <3>. QED BY <1>3, <3>2, <3>3, <3>4, <3>5, <3>6, <3>7 DEF Next, LoopStep
  <2>5. restarts \in Nat /\ Cardinality(Uncommitted) \in Nat
    BY AcceptsAreFinite DEF IndInv, TypeOK
  <2>6. restarts' >= restarts /\ restarts' \in Nat BY <2>4, <2>5
  <2>7. ASSUME NEW w \in Workers
        PROVE  /\ snap'.visits[w] = Cardinality(Committed(w)')
               /\ snap'.visits[w] + Cardinality((DispatchesTo(w) \cap Uncommitted)')
                    <= MaxVisits[w] + restarts'
    <3>1. Committed(w)' = Committed(w) /\ DispatchesTo(w)' = DispatchesTo(w)
      BY <2>1 DEF Committed, DispatchesTo
    <3>2. /\ snap.visits[w] = Cardinality(Committed(w))
          /\ snap.visits[w] + Cardinality(DispatchesTo(w) \cap Uncommitted) <= MaxVisits[w] + restarts
      BY DEF CountsFit
    <3>3. /\ snap.visits[w] \in Nat /\ MaxVisits[w] \in Nat
          /\ Cardinality(DispatchesTo(w) \cap Uncommitted) \in Nat
      BY PolicyAssumption, AcceptsAreFinite DEF IndInv, TypeOK, Checkpoints
    <3>4. (DispatchesTo(w) \cap Uncommitted)' = DispatchesTo(w) \cap Uncommitted
      BY <2>2, <3>1
    <3>5. snap'.visits[w] = snap.visits[w] BY <2>4
    <3>6. snap'.visits[w] = Cardinality(Committed(w)') BY <3>1, <3>2, <3>5
    <3>7. snap'.visits[w] + Cardinality((DispatchesTo(w) \cap Uncommitted)')
            = snap.visits[w] + Cardinality(DispatchesTo(w) \cap Uncommitted)
      BY <3>4, <3>5
    <3>. QED BY <2>5, <2>6, <3>2, <3>3, <3>6, <3>7
  <2>8. Cardinality(Uncommitted')
          <= restarts' + (IF pc' \in Committing \cup {"crashed"} THEN 1 ELSE 0)
    <3>1. Cardinality(Uncommitted) <= restarts + (IF pc \in Committing \cup {"crashed"} THEN 1 ELSE 0)
      BY DEF CountsFit
    <3>2. (IF pc \in Committing \cup {"crashed"} THEN 1 ELSE 0) + restarts
            <= restarts' + (IF pc' \in Committing \cup {"crashed"} THEN 1 ELSE 0)
      BY <2>4, <2>5 DEF Committing
    <3>3. Cardinality(Uncommitted') = Cardinality(Uncommitted) BY <2>2
    <3>4. /\ (IF pc \in Committing \cup {"crashed"} THEN 1 ELSE 0) \in Nat
          /\ (IF pc' \in Committing \cup {"crashed"} THEN 1 ELSE 0) \in Nat
      OBVIOUS
    <3>5. \A a, b, k, m, q \in Nat : k <= m + a /\ a + m <= q + b => k <= q + b
      OBVIOUS
    <3>. QED BY <2>5, <2>6, <3>1, <3>2, <3>3, <3>4, <3>5
  <2>9. pc' \in Committing =>
         /\ accepts' # <<>>
         /\ accepts'[Len(accepts')].to = Reduce(cp', Pending').role
         /\ accepts'[Len(accepts')].committed = FALSE
    <3>1. SUFFICES ASSUME pc' \in Committing
                   PROVE  /\ accepts # <<>> /\ accepts[Len(accepts)].to = Reduce(cp, Pending).role
                          /\ accepts[Len(accepts)].committed = FALSE
                          /\ cp' = cp /\ Pending' = Pending
      BY <2>1
    <3>2. pc \in Committing /\ cp' = cp /\ Pending' = Pending
      BY <2>4, <3>1 DEF Committing
    <3>. QED BY <3>2 DEF CountsFit
  <2>. QED BY <2>7, <2>8, <2>9 DEF CountsFit
<1>. QED BY <1>1, <1>2, <1>3

\* A step within a visit, or one that leaves the loop.
LEMMA WithinVisit ==
    ASSUME IndInv, IndexesFit, Next, ~StartRecord,
           InLoop' => /\ InLoop /\ visitIx' = visitIx /\ Visiting' = Visiting /\ pc' # "outer"
                      /\ Retrying' => Retrying /\ restarts' = restarts /\ accepts' = accepts
    PROVE  IndexesFit'
<1>1. SUFFICES ASSUME InLoop', NEW s \in Sessions'
               PROVE  /\ sessions'[s].visit <= visitIx'[sessions'[s].role]
                      /\ sessions'[s].visit = visitIx'[sessions'[s].role] =>
                           /\ pc' # "outer" /\ sessions'[s].role = Visiting'
                           /\ Retrying' => /\ sessions'[s].life = restarts'
                                           /\ sessions'[s].after = Len(accepts')
  BY DEF IndexesFit
<1>2. /\ s \in Sessions
      /\ sessions'[s].role = sessions[s].role /\ sessions'[s].visit = sessions[s].visit
      /\ sessions'[s].life = sessions[s].life /\ sessions'[s].after = sessions[s].after
  BY SessionsOnlyGrow
<1>3. /\ InLoop /\ visitIx' = visitIx /\ Visiting' = Visiting /\ pc' # "outer"
      /\ Retrying' => Retrying /\ restarts' = restarts /\ accepts' = accepts
  BY <1>1
<1>4. /\ sessions[s].visit <= visitIx[sessions[s].role]
      /\ sessions[s].visit = visitIx[sessions[s].role] =>
           /\ sessions[s].role = Visiting
           /\ Retrying => sessions[s].life = restarts /\ sessions[s].after = Len(accepts)
  BY <1>2, <1>3 DEF IndexesFit
<1>. QED BY <1>2, <1>3, <1>4

\* A visit is over: its index is left behind.
LEMMA AfterVisit ==
    ASSUME IndInv, IndexesFit, InLoop, Visiting \in Roles,
           visitIx' = [visitIx EXCEPT ![Visiting] = @ + 1], sessions' = sessions
    PROVE  IndexesFit'
<1>1. SUFFICES ASSUME NEW s \in Sessions PROVE sessions[s].visit < visitIx'[sessions[s].role]
  <2>1. ASSUME \A s \in Sessions : sessions[s].visit < visitIx'[sessions[s].role]
        PROVE  IndexesFit'
    <3>1. \A s \in Sessions : sessions[s].visit \in Nat /\ sessions[s].role \in Roles
      BY SessionFields DEF IndInv, TypeOK, Sessions
    <3>2. \A r \in Roles : visitIx[r] \in Nat BY DEF IndInv, TypeOK
    <3>3. \A r \in Roles : visitIx'[r] \in Nat BY <3>2 DEF IndInv, TypeOK
    <3>4. \A s \in Sessions : /\ sessions[s].visit <= visitIx'[sessions[s].role]
                              /\ sessions[s].visit # visitIx'[sessions[s].role]
      BY <2>1, <3>1, <3>3
    <3>. QED BY <3>4 DEF IndexesFit, Sessions
  <2>. QED BY <2>1
<1>2. sessions[s].visit \in Nat /\ sessions[s].role \in Roles
  BY SessionFields DEF IndInv, TypeOK, Sessions
<1>3. visitIx \in [Roles -> Nat] BY DEF IndInv, TypeOK
<1>4. /\ sessions[s].visit <= visitIx[sessions[s].role]
      /\ sessions[s].visit = visitIx[sessions[s].role] => sessions[s].role = Visiting
  BY DEF IndexesFit
<1>5. visitIx[sessions[s].role] \in Nat BY <1>2, <1>3
<1>6. CASE sessions[s].role = Visiting
  <2>1. visitIx'[sessions[s].role] = visitIx[sessions[s].role] + 1 BY <1>3, <1>6
  <2>. QED BY <1>2, <1>4, <1>5, <2>1
<1>7. CASE sessions[s].role # Visiting
  <2>1. visitIx'[sessions[s].role] = visitIx[sessions[s].role] BY <1>2, <1>3, <1>7
  <2>. QED BY <1>2, <1>4, <1>5, <1>7, <2>1
<1>. QED BY <1>6, <1>7

\* A resumed process continues above every index of the log.
LEMMA EnterLoopIndexes ==
    ASSUME IndInv, EnterLoop, sessions' = sessions
    PROVE  IndexesFit'
<1>1. \A s \in Sessions : /\ sessions[s].role \in Roles /\ sessions[s].visit \in Nat
                          /\ visitIx'[sessions[s].role] = NextVisitIndex(sessions[s].role)
  BY SessionFields DEF IndInv, TypeOK, Sessions, EnterLoop, NextVisitIndexes
<1>2. \A r \in Roles : NextVisitIndex(r) \in Nat
                       /\ \A s \in Sessions : sessions[s].role = r => sessions[s].visit < NextVisitIndex(r)
  BY NextVisitIndexIsFresh DEF IndInv
<1>3. \A s \in Sessions : /\ sessions[s].visit <= visitIx'[sessions[s].role]
                          /\ sessions[s].visit # visitIx'[sessions[s].role]
  BY <1>1, <1>2
<1>. QED BY <1>3 DEF IndexesFit, Sessions

LEMMA IndexesStep ==
    ASSUME IndInv, SessionInHand, IndexesFit, [Next]_vars
    PROVE  IndexesFit'
<1>a. \A s \in Sessions : sessions[s].role \in Roles
  BY SessionFields DEF IndInv, TypeOK, Sessions
<1>1. CASE UNCHANGED vars \/ Abandoned
  BY <1>1 DEF Abandoned, vars, durable, visit, turn, life, IndexesFit, InLoop, Sessions, Visiting, Retrying
<1>2. CASE UnavailableSnapshot
  <2>1. InLoop /\ Visiting = cp.role /\ cp.role \in Roles
    BY <1>2 DEF UnavailableSnapshot, InLoop, InVisit, Visiting, IndInv, RoleInControl
  <2>. QED BY <1>2, <2>1, AfterVisit DEF UnavailableSnapshot
<1>3. CASE NextVisit
  <2>1. InLoop /\ Visiting = sessions[sid].role /\ sid \in Sessions
    BY <1>3 DEF NextVisit, InLoop, Visiting, SessionInHand
  <2>. QED BY <1>a, <1>3, <2>1, AfterVisit DEF NextVisit, durable
<1>4. CASE ReconcileSettled \/ ReconcileSnapshot
  BY <1>4, EnterLoopIndexes DEF ReconcileSettled, ReconcileSnapshot, durable
<1>5. CASE StartRecord
  <2>1. SUFFICES ASSUME NEW s \in Sessions'
                 PROVE  /\ sessions'[s].visit <= visitIx'[sessions'[s].role]
                        /\ sessions'[s].visit = visitIx'[sessions'[s].role] =>
                             /\ pc' # "outer" /\ sessions'[s].role = Visiting'
                             /\ Retrying' => /\ sessions'[s].life = restarts'
                                             /\ sessions'[s].after = Len(accepts')
    BY DEF IndexesFit
  <2>2. /\ pc = "start" /\ pc' = "startSnap" /\ UNCHANGED <<visitIx, accepts, restarts>>
        /\ InLoop /\ Retrying /\ Visiting = cp.role /\ Visiting' = cp'.role /\ cp'.role = cp.role
    BY <1>5, StartShape DEF StartRecord, InLoop, InVisit, Retrying, Visiting, visit, life
  <2>3. CASE s \in Sessions
    <3>1. sessions'[s] = sessions[s] BY <1>5, <2>3, StartShape
    <3>. QED BY <2>2, <2>3, <3>1 DEF IndexesFit
  <2>4. CASE s = sid'
    <3>1. cp.role \in Roles BY <2>2 DEF IndInv, RoleInControl, InVisit
    <3>2. visitIx[cp.role] \in Nat BY <3>1 DEF IndInv, TypeOK
    <3>. QED BY <1>5, <2>2, <2>4, <3>2, StartShape
  <2>. QED BY <1>5, <2>1, <2>3, <2>4, StartShape
<1>6. CASE /\ Next /\ ~UnavailableSnapshot /\ ~NextVisit /\ ~ReconcileSettled /\ ~ReconcileSnapshot
           /\ ~StartRecord /\ ~BeginVisit /\ ~Abandoned
  <2>1. InLoop' => /\ InLoop /\ visitIx' = visitIx /\ Visiting' = Visiting /\ pc' # "outer"
                   /\ Retrying' => Retrying /\ restarts' = restarts /\ accepts' = accepts
    <3>. USE DEF InLoop, InVisit, Visiting, Retrying
    <3>1. CASE LoopDone \/ SpawnFails \/ NoMoreModelsAtHub \/ FinalizeFails \/ RunEnds \/ Crash
      BY <3>1, LeaveMoves DEF Down
    <3>2. CASE Turn
      BY <3>2, TurnMoves DEF durable
    <3>3. CASE ForcedEnd \/ Spawn \/ NoMoreModels
      BY <3>3 DEF ForcedEnd, AtOuter, Spawn, NoMoreModels, durable, visit, life
    <3>4. CASE ModelRetry \/ ModelFallback
      BY <3>4 DEF ModelRetry, ModelFallback, NextAttempt, durable, visit, life, SessionInHand
    <3>5. CASE Resume \/ ReconcileTerminated \/ ReconcileCrashed
      BY <3>5 DEF Resume, ReconcileTerminated, ReconcileCrashed
    <3>6. CASE FailRecord \/ EndRecord \/ CapEndRecord
      <4>1. /\ UNCHANGED <<visitIx, sid, restarts, accepts>>
            /\ \/ pc = "failRec" /\ pc' = "failSnap" /\ cp'.role = cp.role
               \/ pc = "endRec" /\ pc' = "endSnap"
               \/ pc' = "capEndSnap"
        BY <3>6 DEF FailRecord, EndRecord, CapEndRecord, TerminalRecord, visit, turn, life, SessionTerminal,
                    IndInv, TypeOK, Checkpoints
      <4>2. pc = "endRec" => sessions'[sid].role = sessions[sid].role
        BY <1>6, SessionsOnlyGrow DEF IndInv, LiveSession, Live
      <4>. QED BY <4>1, <4>2
    <3>7. CASE FailSnapshot
      BY <3>7 DEF FailSnapshot, TerminalSnapshot, visit, life, SessionInHand, IndInv, RoleInControl
    <3>8. CASE EndSnapshot
      BY <3>8 DEF EndSnapshot, TerminalSnapshot, visit, life
    <3>9. CASE CapEndSnapshot \/ CapRecord \/ CapSnapshot
      BY <3>9 DEF CapEndSnapshot, TerminalSnapshot, CapRecord, CapSnapshot
    <3>10. CASE AcceptRecord \/ UnavailableRecord
      BY <3>10 DEF AcceptRecord, UnavailableRecord, visit, life
    <3>11. CASE AcceptSnapshot
      BY <3>11 DEF AcceptSnapshot, visit, life, turn, IndInv, LiveSession, Live
    <3>12. CASE StartSnapshot
      BY <3>12 DEF StartSnapshot, visit, life
    <3>. QED BY <1>6, <3>1, <3>2, <3>3, <3>4, <3>5, <3>6, <3>7, <3>8, <3>9, <3>10, <3>11, <3>12
             DEF Next, LoopStep
  <2>. QED BY <1>6, <2>1, WithinVisit
<1>7. CASE BeginVisit
  BY <1>7 DEF BeginVisit, AtOuter, durable, IndexesFit, InLoop, Sessions
<1>. QED BY <1>1, <1>2, <1>3, <1>4, <1>5, <1>6, <1>7

LEMMA VisitIndexesStep ==
    ASSUME IndInv, IndexesFit, VisitIndexesAreFresh, [Next]_vars
    PROVE  VisitIndexesAreFresh'
<1>1. CASE UNCHANGED vars
  BY <1>1 DEF vars, durable, VisitIndexesAreFresh, Sessions
<1>2. CASE Next /\ ~StartRecord
  BY <1>2, SessionsOnlyGrow DEF VisitIndexesAreFresh
<1>3. CASE StartRecord
  <2>1. \A s \in Sessions : sessions[s].role = cp.role /\ sessions[s].visit = visitIx[cp.role]
          => sessions[s].life = restarts /\ sessions[s].after = Len(accepts)
    BY <1>3 DEF StartRecord, IndexesFit, InLoop, InVisit, Retrying
  <2>. QED BY <1>3, <2>1, StartShape DEF VisitIndexesAreFresh
<1>. QED BY <1>1, <1>2, <1>3

\* What a step loses: the session in hand when the process dies, or nothing.
LEMMA StepLoses ==
    ASSUME IndInv, SessionInHand, Next, ~Abandoned
    PROVE  \/ Crash /\ Lost' \subseteq Lost \cup {sid}
           \/ ~Crash /\ Lost' \subseteq Lost
<1>. USE DEF Lost
<1>0. \A s \in Sessions : s # NoSession
  BY DEF NoSession, IndInv, Sessions, TypeOK
<1>1. CASE Crash
  BY <1>1 DEF Crash, Forget, durable, Open, Sessions
<1>2. CASE StartRecord
  <2>1. /\ Sessions' = Sessions \cup {sid'} /\ snap' = snap /\ sid = NoSession
        /\ \A t \in Sessions : Open(t)' => Open(t)
    BY <1>2, StartShape, SessionsOnlyGrow DEF StartRecord, SessionInHand
  <2>2. ~Crash BY <1>2 DEF StartRecord, Crash
  <2>. QED BY <1>0, <2>1, <2>2
<1>3. CASE ~StartRecord /\ ~Crash
  <2>1. Sessions' = Sessions /\ \A t \in Sessions : Open(t)' => Open(t)
    BY <1>3, SessionsOnlyGrow
  <2>2. /\ sid' = sid \/ sid = NoSession \/ ~Open(sid)
        /\ \/ snap'.active = snap.active
           \/ snap.active \in {NoSession, sid} /\ (snap.active = sid => sid' = sid \/ sid = NoSession)
           \/ ~Open(snap.active)
    <3>1. CASE LoopDone \/ SpawnFails \/ NoMoreModelsAtHub \/ FinalizeFails \/ RunEnds
      <4>1. /\ snap' = snap
            /\ pc \in {"outer", "spawn", "settled"}
        BY <3>1 DEF LoopDone, SpawnFails, NoMoreModelsAtHub, FinalizeFails, RunEnds, Leave, Forget, durable
      <4>. QED BY <4>1 DEF SessionInHand
    <3>2. CASE Turn
      BY <3>2, TurnMoves DEF durable
    <3>3. CASE ForcedEnd \/ BeginVisit \/ Spawn \/ NoMoreModels \/ Resume \/ ReconcileSettled
               \/ ReconcileTerminated \/ ReconcileCrashed
      BY <3>3 DEF ForcedEnd, BeginVisit, AtOuter, Spawn, NoMoreModels, Resume, ReconcileSettled,
         ReconcileTerminated, ReconcileCrashed, durable, turn
    <3>4. CASE ModelRetry \/ ModelFallback \/ NextVisit
      BY <3>4 DEF ModelRetry, ModelFallback, NextVisit, NextAttempt, durable, SessionInHand
    <3>5. CASE FailRecord \/ EndRecord \/ CapEndRecord \/ AcceptRecord \/ UnavailableRecord \/ CapRecord
      BY <3>5 DEF FailRecord, EndRecord, CapEndRecord, TerminalRecord, AcceptRecord, UnavailableRecord,
         CapRecord, turn
    <3>6. CASE FailSnapshot \/ EndSnapshot \/ CapEndSnapshot \/ AcceptSnapshot \/ UnavailableSnapshot
               \/ CapSnapshot \/ StartSnapshot \/ ReconcileSnapshot
      <4>1. sid' = sid /\ pc \notin Down \cup {"reconcile"}
        BY <3>6 DEF FailSnapshot, EndSnapshot, CapEndSnapshot, TerminalSnapshot, AcceptSnapshot,
           UnavailableSnapshot, CapSnapshot, StartSnapshot, ReconcileSnapshot, turn, Down
      <4>. QED BY <4>1 DEF SessionInHand
    <3>. QED BY <1>3, <3>1, <3>2, <3>3, <3>4, <3>5, <3>6 DEF Next, LoopStep
  <2>. QED BY <1>0, <1>3, <2>1, <2>2
<1>. QED BY <1>1, <1>2, <1>3

LEMMA LossesStep ==
    ASSUME IndInv, SessionInHand, LossesFit, [Next]_vars
    PROVE  LossesFit'
<1>1. IsFiniteSet(Lost) /\ Cardinality(Lost) \in Nat
  <2>1. Sessions = 1..Len(sessions) /\ Len(sessions) \in Int /\ 1 \in Int
    BY DEF Sessions, IndInv, TypeOK
  <2>2. IsFiniteSet(Sessions) BY <2>1, FS_Interval
  <2>. QED BY <2>2, FS_Subset, FS_CardinalityType DEF Lost
<1>2. restarts \in Nat BY DEF IndInv, TypeOK
<1>3. CASE UNCHANGED vars \/ Abandoned
  BY <1>3 DEF Abandoned, vars, durable, turn, life, LossesFit, Lost, Open, Sessions
<1>4. CASE Crash
  <2>1. Lost' \subseteq Lost \cup {sid} BY <1>4, StepLoses DEF Next, Abandoned, Crash
  <2>2. /\ IsFiniteSet(Lost \cup {sid}) /\ Cardinality(Lost \cup {sid}) \in Nat
        /\ Cardinality(Lost \cup {sid}) <= Cardinality(Lost) + 1
    BY <1>1, FS_AddElement, FS_CardinalityType
  <2>3. Cardinality(Lost') \in Nat /\ Cardinality(Lost') <= Cardinality(Lost \cup {sid})
    BY <2>1, <2>2, FS_Subset, FS_CardinalityType
  <2>4. pc # "crashed" /\ pc' = "crashed" /\ restarts' = restarts
    BY <1>4 DEF Crash, Down, Forget
  <2>. QED BY <1>1, <1>2, <2>2, <2>3, <2>4 DEF LossesFit
<1>5. CASE Next /\ ~Abandoned /\ ~Crash
  <2>1. Lost' \subseteq Lost BY <1>5, StepLoses
  <2>2. Cardinality(Lost') \in Nat /\ Cardinality(Lost') <= Cardinality(Lost)
    BY <1>1, <2>1, FS_Subset, FS_CardinalityType
  <2>3. \/ restarts' = restarts /\ pc # "crashed"
        \/ restarts' = restarts + 1
    <3>1. CASE LoopDone \/ SpawnFails \/ NoMoreModelsAtHub \/ FinalizeFails \/ RunEnds
      BY <3>1 DEF LoopDone, SpawnFails, NoMoreModelsAtHub, FinalizeFails, RunEnds, Leave, Forget
    <3>2. CASE Turn
      BY <3>2, TurnMoves
    <3>3. CASE ForcedEnd \/ BeginVisit \/ Spawn \/ NoMoreModels \/ NextVisit \/ ModelRetry
               \/ ModelFallback \/ ReconcileSettled \/ ReconcileTerminated \/ ReconcileCrashed
               \/ ReconcileSnapshot
      BY <3>3 DEF ForcedEnd, BeginVisit, AtOuter, Spawn, NoMoreModels, NextVisit, ModelRetry,
         ModelFallback, NextAttempt, ReconcileSettled, ReconcileTerminated, ReconcileCrashed,
         ReconcileSnapshot, life
    <3>4. CASE FailRecord \/ EndRecord \/ CapEndRecord \/ FailSnapshot \/ EndSnapshot \/ CapEndSnapshot
               \/ StartSnapshot \/ StartRecord
      BY <3>4 DEF FailRecord, EndRecord, CapEndRecord, TerminalRecord, FailSnapshot, EndSnapshot,
         CapEndSnapshot, TerminalSnapshot, StartSnapshot, StartRecord, life
    <3>5. CASE UnavailableRecord \/ UnavailableSnapshot \/ AcceptRecord \/ AcceptSnapshot \/ CapRecord
               \/ CapSnapshot
      BY <3>5 DEF UnavailableRecord, UnavailableSnapshot, AcceptRecord, AcceptSnapshot, CapRecord,
         CapSnapshot, life
    <3>6. CASE Resume
      BY <3>6 DEF Resume
    <3>. QED BY <1>5, <3>1, <3>2, <3>3, <3>4, <3>5, <3>6 DEF Next, LoopStep
  <2>. QED BY <1>1, <1>2, <2>2, <2>3 DEF LossesFit
<1>. QED BY <1>3, <1>4, <1>5

\* Each retry and each fallback is one attempt further, and the last attempt
\* of the last model is the last of all.
LEMMA RankArithmetic ==
    ASSUME NEW m \in Nat, NEW k \in Nat, NEW r \in Nat, NEW q \in Nat, 1 <= m
    PROVE  /\ (m - 1) * (r + 1) \in Nat
           /\ ((m + 1) - 1) * (r + 1) = (m - 1) * (r + 1) + r + 1
           /\ m <= k /\ q <= r => (m - 1) * (r + 1) + q + 1 <= k * (r + 1)
<1>1. PICK p \in Nat : m = p + 1
  <2>1. m - 1 \in Nat /\ m = (m - 1) + 1 OBVIOUS
  <2>. QED BY <2>1
<1>2. p * (r + 1) \in Nat /\ (p + 1) * (r + 1) = p * (r + 1) + r + 1
  OBVIOUS
<1>3. m - 1 = p /\ (m + 1) - 1 = p + 1 BY <1>1
<1>4. ASSUME m <= k PROVE (p + 1) * (r + 1) <= k * (r + 1)
  <2>1. PICK d \in Nat : k = (p + 1) + d
    <3>1. k - (p + 1) \in Nat /\ k = (p + 1) + (k - (p + 1)) BY <1>1, <1>4
    <3>. QED BY <3>1
  <2>2. k * (r + 1) = (p + 1) * (r + 1) + d * (r + 1) BY <2>1
  <2>3. d * (r + 1) \in Nat /\ (p + 1) * (r + 1) \in Nat OBVIOUS
  <2>. QED BY <2>2, <2>3
<1>5. k * (r + 1) \in Nat OBVIOUS
<1>. QED BY <1>2, <1>3, <1>4, <1>5

LEMMA TriedSets ==
    ASSUME IndInv
    PROVE  \A r, v : IsFiniteSet(Tried(r, v)) /\ Cardinality(Tried(r, v)) \in Nat
<1>1. Sessions = 1..Len(sessions) /\ Len(sessions) \in Int /\ 1 \in Int
  BY DEF Sessions, IndInv, TypeOK
<1>2. IsFiniteSet(Sessions) BY <1>1, FS_Interval
<1>. QED BY <1>2, FS_Subset, FS_CardinalityType DEF Tried

\* Only the start of a session adds to the sessions of a visit.
LEMMA TriedStays ==
    ASSUME IndInv, Next, ~StartRecord
    PROVE  \A r, v : {t \in Sessions' : sessions'[t].role = r /\ sessions'[t].visit = v} = Tried(r, v)
BY SessionsOnlyGrow DEF Tried

LEMMA TriedGrows ==
    ASSUME IndInv, StartRecord
    PROVE  /\ {t \in Sessions' : sessions'[t].role = cp.role /\ sessions'[t].visit = visitIx[cp.role]}
                = Tried(cp.role, visitIx[cp.role]) \cup {sid'}
           /\ sid' \notin Tried(cp.role, visitIx[cp.role])
           /\ \A r, v : r # cp.role \/ v # visitIx[cp.role] =>
                {t \in Sessions' : sessions'[t].role = r /\ sessions'[t].visit = v} = Tried(r, v)
BY StartShape DEF Tried

LEMMA AttemptsBoundedStep ==
    ASSUME IndInv, AttemptsFit, AttemptsAreBounded, [Next]_vars
    PROVE  AttemptsAreBounded'
<1>1. CASE UNCHANGED vars
  BY <1>1 DEF vars, durable, AttemptsAreBounded, Sessions
<1>2. CASE Next
  <2>. SUFFICES ASSUME NEW s \in Sessions'
                PROVE  Cardinality({t \in Sessions' : /\ sessions'[t].role = sessions'[s].role
                                                      /\ sessions'[t].visit = sessions'[s].visit})
                         <= Models * (Retries + 1)
    BY DEF AttemptsAreBounded
  <2> DEFINE r == sessions'[s].role
             v == sessions'[s].visit
             T == {t \in Sessions' : sessions'[t].role = r /\ sessions'[t].visit = v}
  <2>1. ASSUME s \in Sessions, T = Tried(r, v) PROVE Cardinality(T) <= Models * (Retries + 1)
    <3>1. r = sessions[s].role /\ v = sessions[s].visit BY <1>2, <2>1, SessionsOnlyGrow
    <3>2. Cardinality(Tried(sessions[s].role, sessions[s].visit)) <= Models * (Retries + 1)
      BY <2>1 DEF AttemptsAreBounded, Tried
    <3>. QED BY <2>1, <3>1, <3>2
  <2>2. CASE ~StartRecord
    <3>1. s \in Sessions BY <1>2, <2>2, SessionsOnlyGrow
    <3>2. T = Tried(r, v) BY <1>2, <2>2, TriedStays
    <3>. QED BY <2>1, <3>1, <3>2
  <2>3. CASE StartRecord /\ (r # cp.role \/ v # visitIx[cp.role])
    <3>1. s \in Sessions BY <2>3, StartShape
    <3>2. T = Tried(r, v) BY <2>3, TriedGrows
    <3>. QED BY <2>1, <3>1, <3>2
  <2>4. CASE StartRecord /\ r = cp.role /\ v = visitIx[cp.role]
    <3>1. /\ T = Tried(r, v) \cup {sid'} /\ sid' \notin Tried(r, v)
      BY <2>4, TriedGrows
    <3>2. Cardinality(T) = Cardinality(Tried(r, v)) + 1 /\ Cardinality(Tried(r, v)) \in Nat
      BY <3>1, TriedSets, FS_AddElement
    <3>3. pc = "start" /\ cp.role = r /\ visitIx[cp.role] = v BY <2>4 DEF StartRecord
    <3> HIDE DEF T, r, v
    <3>4. attempt.model \in 1..(Models + 1) /\ attempt.retry <= Retries /\ attempt.model <= Models
      BY <3>3 DEF AttemptsFit, Retrying
    <3>5. attempt.retry \in Nat /\ attempt.model \in Nat /\ 1 <= attempt.model
          /\ Models \in Nat /\ Retries \in Nat
      BY <3>4, BoundAssumption DEF IndInv, TypeOK
    <3>6. Rank + 1 <= Models * (Retries + 1) /\ Rank \in Nat
      BY <3>4, <3>5, RankArithmetic DEF Rank
    <3>9. Cardinality(Tried(r, v)) <= Rank
      BY <3>3, <3>6 DEF AttemptsFit, Retrying
    <3>7. Models * (Retries + 1) \in Nat BY <3>5
    <3>8. Cardinality(T) <= Models * (Retries + 1) BY <3>2, <3>6, <3>7, <3>9
    <3>. QED BY <3>8 DEF T, r, v
  <2>. QED BY <2>2, <2>3, <2>4
<1>. QED BY <1>1, <1>2

\* A step that neither starts a session nor turns to another attempt.
LEMMA WithinAttempt ==
    ASSUME IndInv, AttemptsFit, Next, ~StartRecord,
           Retrying' => /\ Retrying /\ attempt' = attempt /\ visitIx' = visitIx /\ cp'.role = cp.role
                        /\ pc' \in {"spawn", "start"} <=> pc \in {"spawn", "start"}
                        /\ pc' # "spawn" => attempt.model <= Models
    PROVE  AttemptsFit'
<1>1. SUFFICES ASSUME Retrying'
               PROVE  /\ attempt'.model \in 1..(Models + 1) /\ attempt'.retry <= Retries
                      /\ pc' # "spawn" => attempt'.model <= Models
                      /\ Cardinality(Tried(cp.role, visitIx[cp.role]))'
                           <= Rank' + (IF pc' \in {"spawn", "start"} THEN 0 ELSE 1)
  BY DEF AttemptsFit
<1>2. /\ attempt' = attempt /\ visitIx' = visitIx /\ cp'.role = cp.role
      /\ pc' \in {"spawn", "start"} <=> pc \in {"spawn", "start"}
      /\ pc' # "spawn" => attempt.model <= Models
      /\ Retrying
  BY <1>1
<1>3. /\ attempt.model \in 1..(Models + 1) /\ attempt.retry <= Retries
      /\ Cardinality(Tried(cp.role, visitIx[cp.role]))
           <= Rank + (IF pc \in {"spawn", "start"} THEN 0 ELSE 1)
  BY <1>2 DEF AttemptsFit
<1>4. Tried(cp.role, visitIx[cp.role])' = Tried(cp.role, visitIx[cp.role])
  BY <1>2, TriedStays DEF Tried
<1>5. Rank' = Rank BY <1>2 DEF Rank
<1>. QED BY <1>2, <1>3, <1>4, <1>5

\* The next attempt of a visit: the sessions so far are the attempts before it.
LEMMA NextAttemptStep ==
    ASSUME IndInv, SessionInHand, AttemptsFit, ModelRetry \/ ModelFallback
    PROVE  AttemptsFit'
<1>1. /\ pc = "settled" /\ why = "model_error" /\ pc' = "spawn"
      /\ UNCHANGED <<sessions, cp, visitIx>>
  BY DEF ModelRetry, ModelFallback, NextAttempt, durable
<1>2. /\ attempt.model \in 1..(Models + 1) /\ attempt.retry <= Retries /\ attempt.model <= Models
      /\ attempt \in [model : Nat, retry : Nat]
  BY <1>1 DEF AttemptsFit, Retrying, IndInv, TypeOK
<1>3. /\ attempt.model \in Nat /\ attempt.retry \in Nat /\ 1 <= attempt.model
      /\ Models \in Nat /\ Retries \in Nat
  BY <1>2, BoundAssumption
<1>4. /\ (attempt.model - 1) * (Retries + 1) \in Nat
      /\ ((attempt.model + 1) - 1) * (Retries + 1)
           = (attempt.model - 1) * (Retries + 1) + Retries + 1
  BY <1>3, RankArithmetic
<1>5. Rank \in Nat BY <1>3, <1>4 DEF Rank
<1>6. Cardinality(Tried(cp.role, visitIx[cp.role])) <= Rank + 1
  BY <1>1, <1>5 DEF AttemptsFit, Retrying
<1>7. Tried(cp.role, visitIx[cp.role])' = Tried(cp.role, visitIx[cp.role])
  BY <1>1 DEF Tried, Sessions
<1>8. /\ Rank' = Rank + 1
      /\ attempt'.model \in 1..(Models + 1) /\ attempt'.retry <= Retries
  <2>1. CASE ModelRetry
    <3>1. attempt.retry < Retries /\ attempt' = [attempt EXCEPT !.retry = attempt.retry + 1]
      BY <2>1 DEF ModelRetry, NextAttempt
    <3>2. attempt'.model = attempt.model /\ attempt'.retry = attempt.retry + 1
      BY <1>2, <3>1
    <3>. QED BY <1>2, <1>3, <1>4, <3>1, <3>2 DEF Rank
  <2>2. CASE ModelFallback
    <3>1. attempt.retry = Retries /\ attempt' = [model |-> attempt.model + 1, retry |-> 0]
      BY <2>2 DEF ModelFallback, NextAttempt
    <3>2. attempt'.model = attempt.model + 1 /\ attempt'.retry = 0
      BY <3>1
    <3>. QED BY <1>2, <1>3, <1>4, <3>1, <3>2 DEF Rank
  <2>. QED BY <2>1, <2>2
<1>9. Cardinality(Tried(cp.role, visitIx[cp.role]))' <= Rank' + 0
  BY <1>5, <1>6, <1>7, <1>8
<1>. QED BY <1>1, <1>8, <1>9 DEF AttemptsFit

LEMMA BeginVisitAttempts ==
    ASSUME IndInv, IndexesFit, BeginVisit
    PROVE  AttemptsFit'
<1>1. /\ pc = "outer" /\ pc' = "spawn" /\ UNCHANGED <<sessions, cp, visitIx>>
      /\ attempt' = [model |-> 1, retry |-> 0]
  BY DEF BeginVisit, AtOuter, durable, FirstAttempt
<1>2. attempt'.model = 1 /\ attempt'.retry = 0 BY <1>1
<1>3. Models \in Nat /\ 1 <= Models + 1 /\ Retries \in Nat /\ 0 <= Retries BY BoundAssumption
<1>4. Rank' = 0 BY <1>2, <1>3 DEF Rank
<1>5. Tried(cp.role, visitIx[cp.role])' = {}
  <2>1. \A s \in Sessions : sessions[s].visit # visitIx[sessions[s].role]
    BY <1>1 DEF IndexesFit, InLoop
  <2>. QED BY <1>1, <2>1 DEF Tried, Sessions
<1>6. Cardinality(Tried(cp.role, visitIx[cp.role]))' <= Rank' + 0
  BY <1>4, <1>5, FS_EmptySet
<1>. QED BY <1>1, <1>2, <1>3, <1>6 DEF AttemptsFit

LEMMA StartRecordAttempts ==
    ASSUME IndInv, AttemptsFit, StartRecord
    PROVE  AttemptsFit'
<1>1. /\ pc = "start" /\ pc' = "startSnap" /\ UNCHANGED <<visitIx, attempt>> /\ cp'.role = cp.role
  BY StartShape DEF StartRecord, visit
<1>2. attempt.model \in 1..(Models + 1) /\ attempt.retry <= Retries /\ attempt.model <= Models
  BY <1>1 DEF AttemptsFit, Retrying
<1>3. attempt.model \in Nat /\ attempt.retry \in Nat /\ 1 <= attempt.model
      /\ Models \in Nat /\ Retries \in Nat
  BY <1>2, BoundAssumption DEF IndInv, TypeOK
<1>4. Rank \in Nat /\ Rank' = Rank BY <1>1, <1>2, <1>3, RankArithmetic DEF Rank
<1>5. /\ Cardinality(Tried(cp.role, visitIx[cp.role])) <= Rank
      /\ Cardinality(Tried(cp.role, visitIx[cp.role])) \in Nat
  BY <1>1, <1>4, TriedSets DEF AttemptsFit, Retrying
<1>6. Tried(cp.role, visitIx[cp.role])' = Tried(cp.role, visitIx[cp.role]) \cup {sid'}
      /\ sid' \notin Tried(cp.role, visitIx[cp.role])
  <2>1. Tried(cp.role, visitIx[cp.role])'
          = {t \in Sessions' : sessions'[t].role = cp.role /\ sessions'[t].visit = visitIx[cp.role]}
    BY <1>1 DEF Tried
  <2>. QED BY <2>1, TriedGrows
<1>7. Cardinality(Tried(cp.role, visitIx[cp.role]) \cup {sid'})
        = Cardinality(Tried(cp.role, visitIx[cp.role])) + 1
  BY <1>6, TriedSets, FS_AddElement
<1>8. Cardinality(Tried(cp.role, visitIx[cp.role]))' <= Rank' + 1
  BY <1>4, <1>5, <1>6, <1>7
<1>. QED BY <1>1, <1>2, <1>8 DEF AttemptsFit

LEMMA AttemptsStep ==
    ASSUME IndInv, SessionInHand, IndexesFit, AttemptsFit, [Next]_vars
    PROVE  AttemptsFit'
<1>1. CASE UNCHANGED vars \/ Abandoned
  BY <1>1 DEF Abandoned, vars, durable, visit, turn, life, AttemptsFit, Retrying, Tried, Sessions, Rank
<1>2. CASE BeginVisit
  BY <1>2, BeginVisitAttempts
<1>3. CASE StartRecord
  BY <1>3, StartRecordAttempts
<1>4. CASE ModelRetry \/ ModelFallback
  BY <1>4, NextAttemptStep
<1>5. CASE Next /\ ~BeginVisit /\ ~StartRecord /\ ~ModelRetry /\ ~ModelFallback /\ ~Abandoned
  <2>1. Retrying' => /\ Retrying /\ attempt' = attempt /\ visitIx' = visitIx /\ cp'.role = cp.role
                     /\ pc' \in {"spawn", "start"} <=> pc \in {"spawn", "start"}
                     /\ pc' # "spawn" => attempt.model <= Models
    <3>. USE DEF Retrying
    <3>1. CASE LoopDone \/ SpawnFails \/ NoMoreModelsAtHub \/ FinalizeFails \/ RunEnds \/ Crash
      BY <3>1, LeaveMoves
    <3>2. CASE Turn
      BY <3>2, TurnMoves DEF AttemptsFit
    <3>3. CASE Spawn
      BY <3>3 DEF Spawn, visit
    <3>4. CASE ForcedEnd \/ NoMoreModels \/ NextVisit \/ Resume \/ ReconcileSettled
               \/ ReconcileTerminated \/ ReconcileCrashed \/ ReconcileSnapshot
      BY <3>4 DEF ForcedEnd, AtOuter, NoMoreModels, NextVisit, Resume, ReconcileSettled,
         ReconcileTerminated, ReconcileCrashed, ReconcileSnapshot, EnterLoop
    <3>5. CASE FailRecord
      BY <3>5 DEF FailRecord, TerminalRecord, visit, SessionTerminal, IndInv, TypeOK, Checkpoints, AttemptsFit
    <3>6. CASE FailSnapshot
      BY <3>6 DEF FailSnapshot, TerminalSnapshot, visit, AttemptsFit
    <3>7. CASE StartSnapshot
      BY <3>7 DEF StartSnapshot, visit, AttemptsFit
    <3>8. CASE EndRecord \/ CapEndRecord \/ EndSnapshot \/ CapEndSnapshot \/ AcceptRecord
               \/ AcceptSnapshot \/ CapRecord \/ CapSnapshot \/ UnavailableRecord \/ UnavailableSnapshot
      BY <3>8 DEF EndRecord, CapEndRecord, TerminalRecord, EndSnapshot, CapEndSnapshot, TerminalSnapshot,
         AcceptRecord, AcceptSnapshot, CapRecord, CapSnapshot, UnavailableRecord, UnavailableSnapshot
    <3>. QED BY <1>5, <3>1, <3>2, <3>3, <3>4, <3>5, <3>6, <3>7, <3>8 DEF Next, LoopStep
  <2>. QED BY <1>5, <2>1, WithinAttempt
<1>. QED BY <1>1, <1>2, <1>3, <1>4, <1>5

LEMMA InitialLog == Init => LogInv
<1>. SUFFICES ASSUME Init PROVE LogInv
  OBVIOUS
<1>1. Sessions = {} /\ DOMAIN accepts = {} /\ pc = "outer" /\ sid = NoSession /\ restarts = 0
      /\ snap.active = NoSession
  BY DEF Init, Sessions, InitialCheckpoint
<1>2. SessionInHand
  BY <1>1 DEF SessionInHand, Down
<1>3. HandOversFit
  BY <1>1 DEF HandOversFit
<1>4. EndedSessionsHandedOver /\ VisitIndexesAreFresh /\ AttemptsAreBounded
  BY <1>1 DEF EndedSessionsHandedOver, VisitIndexesAreFresh, AttemptsAreBounded
<1>5. CountsFit
  <2>1. Uncommitted = {} /\ \A w : Committed(w) = {} /\ DispatchesTo(w) \cap Uncommitted = {}
    BY <1>1 DEF Uncommitted, Committed, DispatchesTo
  <2>2. \A w \in Workers : snap.visits[w] = 0 /\ MaxVisits[w] \in Nat
    BY PolicyAssumption DEF Init, InitialCheckpoint
  <2>3. Cardinality(Uncommitted) = 0 BY <2>1, FS_EmptySet
  <2>4. pc \notin Committing /\ pc # "crashed" BY <1>1 DEF Committing
  <2>5. ASSUME NEW w \in Workers
        PROVE  /\ snap.visits[w] = Cardinality(Committed(w))
               /\ snap.visits[w] + Cardinality(DispatchesTo(w) \cap Uncommitted)
                    <= MaxVisits[w] + restarts
    <3>1. Cardinality(Committed(w)) = 0 /\ Cardinality(DispatchesTo(w) \cap Uncommitted) = 0
      BY <2>1, FS_EmptySet
    <3>2. snap.visits[w] = 0 /\ MaxVisits[w] \in Nat /\ restarts = 0 BY <1>1, <2>2
    <3>. QED BY <3>1, <3>2
  <2>6. Cardinality(Uncommitted)
          <= restarts + (IF pc \in Committing \cup {"crashed"} THEN 1 ELSE 0)
    BY <1>1, <2>3, <2>4
  <2>. QED BY <2>4, <2>5, <2>6 DEF CountsFit
<1>6. IndexesFit
  BY <1>1 DEF IndexesFit
<1>7. LossesFit
  <2>1. Lost = {} BY <1>1 DEF Lost
  <2>. QED BY <1>1, <2>1, FS_EmptySet DEF LossesFit
<1>8. AttemptsFit
  BY <1>1 DEF AttemptsFit, Retrying
<1>. QED BY <1>2, <1>3, <1>4, <1>5, <1>6, <1>7, <1>8 DEF LogInv

LEMMA LogStep == IndInv /\ IndInv' /\ LogInv /\ [Next]_vars => LogInv'
<1>. SUFFICES ASSUME IndInv, IndInv', LogInv, [Next]_vars PROVE LogInv'
  OBVIOUS
<1>. USE DEF LogInv
<1>1. SessionInHand' BY SessionInHandStep
<1>2. HandOversFit' BY HandOversStep
<1>3. EndedSessionsHandedOver' BY EndedSessionsStep
<1>4. CountsFit' BY CountsStep
<1>5. IndexesFit' BY IndexesStep
<1>6. VisitIndexesAreFresh' BY VisitIndexesStep
<1>7. LossesFit' BY LossesStep
<1>8. AttemptsFit' BY AttemptsStep
<1>9. AttemptsAreBounded' BY AttemptsBoundedStep
<1>. QED BY <1>1, <1>2, <1>3, <1>4, <1>5, <1>6, <1>7, <1>8, <1>9

\* LogInv, beside IndInv, holds of every run, whatever crashes and resumes it
\* goes through: the appends of one acceptance, one session and one visit
\* agree at every step of loop-session-accepted.ts, loop-fallback.ts and
\* api-resume-state.ts.
THEOREM LogInvariant == Spec => []LogInv
<1>1. Init => LogInv
  BY InitialLog
<1>2. IndInv /\ IndInv' /\ LogInv /\ [Next]_vars => LogInv'
  BY LogStep
<1>. QED BY <1>1, <1>2, Invariant, PTL DEF Spec

LEMMA LogInvTells == IndInv /\ LogInv => LogTellsTheRun
<1>. SUFFICES ASSUME IndInv, LogInv PROVE LogTellsTheRun
  OBVIOUS
<1>. USE DEF LogInv
<1>1. ASSUME NEW s \in Sessions PROVE Cardinality(AcceptsBy(s)) <= 1
  <2>1. s # NoSession BY <1>1 DEF NoSession, IndInv, Sessions, TypeOK
  <2>2. \A i, j \in AcceptsBy(s) : i = j BY <2>1 DEF HandOversFit, AcceptsBy
  <2>3. CASE AcceptsBy(s) = {}
    BY <2>3, FS_EmptySet
  <2>4. CASE AcceptsBy(s) # {}
    <3>1. PICK i : AcceptsBy(s) = {i} BY <2>2, <2>4
    <3>. QED BY <3>1, FS_Singleton
  <2>. QED BY <2>3, <2>4
<1>2. ASSUME NEW w \in Workers
      PROVE  /\ snap.visits[w] = Cardinality({i \in DispatchesTo(w) : accepts[i].committed})
             /\ Cardinality(DispatchesTo(w)) <= MaxVisits[w] + restarts
  <2>1. \A i \in DispatchesTo(w) : accepts[i].committed \in BOOLEAN
    BY AcceptFields DEF DispatchesTo, IndInv
  <2>2. {i \in DispatchesTo(w) : accepts[i].committed} = Committed(w)
    BY <2>1 DEF Committed
  <2>3. /\ DispatchesTo(w) = Committed(w) \cup (DispatchesTo(w) \cap Uncommitted)
        /\ Committed(w) \cap (DispatchesTo(w) \cap Uncommitted) = {}
    BY <2>1 DEF Committed, Uncommitted, DispatchesTo
  <2>4. /\ IsFiniteSet(Committed(w)) /\ IsFiniteSet(DispatchesTo(w) \cap Uncommitted)
        /\ Cardinality(Committed(w)) \in Nat /\ Cardinality(DispatchesTo(w) \cap Uncommitted) \in Nat
    BY AcceptsAreFinite DEF IndInv
  <2>5. Cardinality(DispatchesTo(w))
          = Cardinality(Committed(w)) + Cardinality(DispatchesTo(w) \cap Uncommitted)
    <3> DEFINE A == Committed(w)
               B == DispatchesTo(w) \cap Uncommitted
    <3>1. IsFiniteSet(A) /\ IsFiniteSet(B) /\ Cardinality(A) \in Nat /\ Cardinality(B) \in Nat
      BY <2>4
    <3>2. A \cap B = {} /\ DispatchesTo(w) = A \cup B BY <2>3
    <3> HIDE DEF A, B
    <3>3. Cardinality(A \cup B) = Cardinality(A) + Cardinality(B) - Cardinality(A \cap B)
      BY <3>1, FS_Union
    <3>4. Cardinality(DispatchesTo(w)) = Cardinality(A) + Cardinality(B)
      <4>1. Cardinality(A \cap B) = 0 BY <3>2, FS_EmptySet
      <4>. QED BY <3>1, <3>2, <3>3, <4>1
    <3>. QED BY <3>4 DEF A, B
  <2>6. /\ snap.visits[w] = Cardinality(Committed(w))
        /\ snap.visits[w] + Cardinality(DispatchesTo(w) \cap Uncommitted) <= MaxVisits[w] + restarts
    BY DEF CountsFit
  <2>. QED BY <2>2, <2>5, <2>6
<1>3. OneTransitionPerSession BY <1>1 DEF OneTransitionPerSession
<1>4. VisitsMatchDispatches BY <1>2 DEF VisitsMatchDispatches
<1>5. OnlyCrashesLoseSessions BY DEF LossesFit, Lost, OnlyCrashesLoseSessions
<1>. QED BY <1>3, <1>4, <1>5 DEF LogTellsTheRun

\* What the records say of transitions, sessions, visit counters and visit
\* indexes agrees after any number of crashes and resumes, wherever in the
\* persistence of a transition they fall (persistAcceptedTransition,
\* finalizeSession, reconcileCrash, nextVisitIndexes).
THEOREM LogTellsIt == Spec => []LogTellsTheRun
<1>1. IndInv /\ LogInv => LogTellsTheRun BY LogInvTells
<1>. QED BY <1>1, Invariant, LogInvariant, PTL

\* runRoleVisit starts at most one session for each model and retry of a
\* visit, and a resumed run never adds to a visit of before the crash.
THEOREM VisitsAreBoundedByAttempts == Spec => []AttemptsAreBounded
<1>1. LogInv => AttemptsAreBounded BY DEF LogInv
<1>. QED BY <1>1, LogInvariant, PTL
=============================================================================
