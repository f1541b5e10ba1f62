-------------------------- MODULE ReviewRouteProofs --------------------------
(***************************************************************************)
(* TLAPS proofs about ReviewRoute, for any gate, roles, visit caps and     *)
(* number of sessions and restarts.                                        *)
(***************************************************************************)
EXTENDS ReviewRoute, FiniteSetTheorems, SequenceTheorems, TLAPS

Waits(o) == o \in Unrouted /\ PendingsOf(o) # {}
InRoute == {"back", "end", "out", "mark"}

\* The three kinds of record refer to each other: an intent names an outcome, a
\* marker an intent, none of them twice, and only the latest intent is open.
LogFits ==
    /\ \A i \in DOMAIN pendings :
         /\ pendings[i].outcome \in Outcomes
         /\ i # Len(pendings) => RoutesOf(pendings[i].outcome) # {}
         /\ \A j \in DOMAIN pendings : pendings[i].outcome = pendings[j].outcome => i = j
    /\ \A r \in DOMAIN routes :
         /\ \E i \in DOMAIN pendings : /\ pendings[i].outcome = routes[r].outcome
                                       /\ pendings[i].advances = routes[r].advances
         /\ \A q \in DOMAIN routes : routes[r].outcome = routes[q].outcome => r = q
    /\ \A o, p \in Unrouted : o = p

\* How far the hops of an outcome have come, and where that leaves the run.
HopsFit ==
    \A o \in Outcomes :
        /\ RoutesOf(o) # {} => outcomes[o].back = 1 /\ outcomes[o].out = Hops
        /\ PendingsOf(o) = {} => outcomes[o].back = 0 /\ outcomes[o].out = 0
        /\ Waits(o) =>
             \/ outcomes[o].back = 0 /\ outcomes[o].out = 0 /\ snap.role = Reviewer
             \/ outcomes[o].back = 1 /\ outcomes[o].out = 0 /\ snap.role = Orchestrator
             \/ /\ outcomes[o].back = 1 /\ outcomes[o].out = 1 /\ Hops = 1
                /\ snap.role = gate.owner

\* Where the process is in the route of the outcome it holds.
PlaceFits ==
    /\ cp = snap
    /\ pc \in {"review", "revision", "pend"} =>
         cp.role = Reviewer /\ \A o \in Unrouted : PendingsOf(o) = {}
    /\ pc \in {"revision", "pend"} \cup InRoute => outcome \in Unrouted
    /\ pc \in InRoute =>
         \E i \in PendingsOf(outcome) : pendings[i].advances = Advances
    /\ pc = "back" => outcomes[outcome].back = 0
    /\ pc \in {"end", "out"} => outcomes[outcome].back = 1 /\ outcomes[outcome].out = 0
    /\ pc = "out" => gate.owner # Orchestrator
    /\ pc = "mark" => outcomes[outcome].back = 1 /\ outcomes[outcome].out = Hops

\* A revision that was read otherwise was read in an earlier life of the run.
ApprovalsFit ==
    /\ \A i \in DOMAIN pendings : pendings[i].advances = TRUE =>
         /\ outcomes[pendings[i].outcome].kind = "approve" /\ pendings[i].revision = "reviewed"
         /\ \A v \in outcomes[pendings[i].outcome].invalid : v.life < pendings[i].life
    /\ \A o \in Outcomes : \A v \in outcomes[o].invalid : v.life <= restarts
    /\ pc \in {"outer", "review", "revision"} =>
         \A o \in Unrouted : PendingsOf(o) = {} =>
             \A v \in outcomes[o].invalid : v.life < restarts
    /\ pc = "pend" /\ read = "reviewed" =>
         \A v \in outcomes[outcome].invalid : v.life < restarts

IInv == TypeOK /\ LogFits /\ HopsFit /\ PlaceFits /\ ApprovalsFit

-----------------------------------------------------------------------------
(* Lemmas about the machine.                                               *)

\* An accepted event leads from a checkpoint to a checkpoint.
LEMMA AcceptedShape ==
    ASSUME NEW c \in Checkpoints,
           NEW ev \in RoleEvents \cup {End("run_cost_cap")}, Accepts(c, ev)
    PROVE  Reduce(c, ev) \in Checkpoints
<1> USE RoleAssumption, PolicyAssumption
<1>1. CASE c.role = Orchestrator /\ ev.type = "end"
  BY <1>1 DEF Reduce, Advance, AfterOrchestrator, Checkpoints, States, Roles
<1>2. CASE c.role = Orchestrator /\ ev.type # "end"
  <2>1. ev.target \in Workers
    BY <1>2 DEF Accepts, Verdict, VerdictFromOrchestrator
  <2>2. Reduce(c, ev) = [role |-> ev.target,
                         visits |-> [c.visits EXCEPT ![ev.target] = c.visits[ev.target] + 1],
                         endReq |-> None, active |-> c.active]
    BY <1>2, <2>1 DEF Reduce, Advance, AfterOrchestrator, Checkpoints
  <2>3. [c.visits EXCEPT ![ev.target] = c.visits[ev.target] + 1] \in [Workers -> Nat]
    BY <2>1 DEF Checkpoints
  <2>. QED BY <2>1, <2>2, <2>3 DEF Checkpoints, States, Roles
<1>3. CASE c.role # Orchestrator
  <2>1. c.role \in Workers
    BY <1>3 DEF Accepts, Verdict, Checkpoints, States, Roles
  <2>2. Reduce(c, ev) = [c EXCEPT !.role = Orchestrator,
                                  !.endReq = IF ev.requestEnd THEN c.role ELSE @]
    BY <1>3 DEF Reduce, Advance, AfterWorker
  <2>. QED BY <2>1, <2>2 DEF Checkpoints, States, Roles
<1>. QED BY <1>1, <1>2, <1>3

\* The end of a session and its start leave the role alone.
LEMMA LifecycleShape ==
    ASSUME NEW c \in Checkpoints, NEW n \in Nat
    PROVE  /\ SessionTerminal(c) \in Checkpoints /\ SessionTerminal(c).role = c.role
           /\ SessionStarted(c, n) \in Checkpoints /\ SessionStarted(c, n).role = c.role
BY DEF SessionTerminal, SessionStarted, NoSession, Checkpoints

\* Where an accepted hop leads.
LEMMA HopShape ==
    ASSUME NEW c \in Checkpoints, NEW target \in Roles, Accepts(c, Handoff(target, FALSE))
    PROVE  /\ Reduce(c, Handoff(target, FALSE)) \in Checkpoints
           /\ Reduce(c, Handoff(target, FALSE)).role = target
<1> DEFINE ev == Handoff(target, FALSE)
<1>1. /\ ev \in RoleEvents /\ ev.type = "handoff" /\ ev.target = target
      /\ ev.requestEnd = FALSE /\ Accepts(c, ev)
  BY DEF Handoff, RoleEvents
<1> HIDE DEF ev
<1>2. Reduce(c, ev) \in Checkpoints BY <1>1, AcceptedShape
<1>3. ASSUME c.role = Orchestrator PROVE Reduce(c, ev).role = target
  <2>1. target \in Workers
    BY <1>1, <1>3, RoleAssumption DEF Accepts, Verdict, VerdictFromOrchestrator
  <2>. QED BY <1>1, <1>3, <2>1 DEF Reduce, Advance, AfterOrchestrator, Checkpoints
<1>4. ASSUME c.role # Orchestrator PROVE Reduce(c, ev).role = target
  <2>1. target = Orchestrator
    BY <1>1, <1>4 DEF Accepts, Verdict, VerdictFromWorker
  <2>. QED BY <1>1, <1>4, <2>1 DEF Reduce, Advance, AfterWorker, Checkpoints
<1>. QED BY <1>2, <1>3, <1>4 DEF ev

-----------------------------------------------------------------------------
(* Lemmas about the log.                                                   *)

LEMMA AppendShape ==
    ASSUME NEW S, NEW s \in Seq(S), NEW x \in S
    PROVE  /\ Append(s, x) \in Seq(S) /\ Len(Append(s, x)) = Len(s) + 1
           /\ Len(s) + 1 \notin DOMAIN s /\ Len(s) + 1 \in Nat
           /\ DOMAIN Append(s, x) = DOMAIN s \cup {Len(s) + 1}
           /\ Append(s, x)[Len(s) + 1] = x
           /\ \A i \in DOMAIN s : Append(s, x)[i] = s[i]
OBVIOUS

LEMMA OutcomeChanged ==
    ASSUME TypeOK, NEW o \in Outcomes, NEW x \in OutcomeRecords,
           outcomes' = [outcomes EXCEPT ![o] = x]
    PROVE  /\ outcomes' \in Seq(OutcomeRecords) /\ DOMAIN outcomes' = DOMAIN outcomes
           /\ outcomes'[o] = x
           /\ \A p \in Outcomes \ {o} : outcomes'[p] = outcomes[p]
BY ExceptSeq DEF TypeOK, Outcomes

LEMMA Types ==
    ASSUME TypeOK
    PROVE  /\ \A o \in Outcomes : outcomes[o] \in OutcomeRecords
           /\ \A i \in DOMAIN pendings : pendings[i] \in PendingRecords
           /\ \A r \in DOMAIN routes : routes[r] \in RouteRecords
           /\ gate.owner \in Roles \ {Reviewer} /\ gate.next \in BOOLEAN
           /\ Hops = IF gate.owner = Orchestrator THEN 0 ELSE 1
BY ElementOfSeq, LenProperties DEF TypeOK, Outcomes, Hops

\* What the outcomes say does not depend on who reads them.
LEMMA SameReferences ==
    ASSUME UNCHANGED <<pendings, routes>>, DOMAIN outcomes' = DOMAIN outcomes
    PROVE  /\ Outcomes' = Outcomes /\ Unrouted' = Unrouted
           /\ \A o : RoutesOf(o)' = RoutesOf(o) /\ PendingsOf(o)' = PendingsOf(o)
           /\ \A o : Waits(o)' <=> Waits(o)
<1>1. Outcomes' = Outcomes BY DEF Outcomes
<1>2. \A o : RoutesOf(o)' = RoutesOf(o) /\ PendingsOf(o)' = PendingsOf(o)
  BY DEF RoutesOf, PendingsOf
<1>3. Unrouted' = Unrouted BY <1>1, <1>2, Zenon DEF Unrouted
<1>. QED BY <1>1, <1>2, <1>3 DEF Waits

\* An intent whose route is not taken is the latest one, and there is one.
LEMMA WaitingIsLatest ==
    ASSUME TypeOK, LogFits, NEW o \in Unrouted, NEW i \in PendingsOf(o)
    PROVE  i \in OpenPending /\ i = Len(pendings) /\ PendingsOf(o) = {i}
BY DEF LogFits, PendingsOf, OpenPending, Unrouted

LEMMA NoneWaits ==
    ASSUME TypeOK, LogFits, OpenPending = {}
    PROVE  \A o \in Unrouted : PendingsOf(o) = {}
BY WaitingIsLatest

LEMMA OpenWaits ==
    ASSUME TypeOK, LogFits, NEW i \in OpenPending
    PROVE  /\ i \in DOMAIN pendings /\ pendings[i].outcome \in Outcomes
           /\ pendings[i].outcome \in Unrouted /\ i \in PendingsOf(pendings[i].outcome)
           /\ Waits(pendings[i].outcome)
BY DEF OpenPending, PendingsOf, Waits, Unrouted

LEMMA AdvancesIsBoolean ==
    ASSUME TypeOK PROVE Advances \in BOOLEAN
<1>1. gate.next \in BOOLEAN BY Types
<1>. QED BY <1>1, Zenon DEF Advances

-----------------------------------------------------------------------------
(* Steps that write nothing of a route.                                    *)

LEMMA QuietStep ==
    ASSUME IInv, UNCHANGED <<gate, records, restarts>>, TypeOK', PlaceFits',
           \A o : Waits(o) => snap'.role = snap.role,
           pc' \in {"outer", "review", "revision"} => pc \in {"outer", "review", "revision"},
           pc' = "pend" => pc = "pend" /\ UNCHANGED <<read, outcome>>
    PROVE  IInv'
<1>1. UNCHANGED <<outcomes, pendings, routes>> BY DEF records
<1>2. /\ Outcomes' = Outcomes /\ Unrouted' = Unrouted
      /\ \A o : RoutesOf(o)' = RoutesOf(o) /\ PendingsOf(o)' = PendingsOf(o)
      /\ \A o : Waits(o)' <=> Waits(o)
  BY <1>1, SameReferences
<1>3. LogFits' BY <1>1, <1>2 DEF IInv, LogFits
<1>4. HopsFit' BY <1>1, <1>2 DEF IInv, HopsFit, Hops
<1>5. ApprovalsFit' BY <1>1, <1>2 DEF IInv, ApprovalsFit
<1>. QED BY <1>3, <1>4, <1>5 DEF IInv

LEMMA VisitStep == ASSUME IInv, Visit PROVE IInv'
<1>1. PICK ev \in RoleEvents \cup {End("run_cost_cap")} : Accepts(cp, ev) /\ cp' = Reduce(cp, ev)
  BY DEF Visit
<1>2. /\ pc = "outer" /\ OpenPending = {} /\ snap' = cp'
      /\ UNCHANGED <<gate, records, pc, sid, outcome, read, restarts>>
  BY DEF Visit, Visiting
<1>3. cp' \in Checkpoints BY <1>1, AcceptedShape DEF IInv, TypeOK
<1>4. TypeOK' BY <1>2, <1>3 DEF IInv, TypeOK, records, Outcomes
<1>5. PlaceFits' BY <1>2 DEF PlaceFits, InRoute
<1>6. \A o : ~Waits(o) BY <1>2, NoneWaits DEF IInv, Waits
<1>. QED BY <1>2, <1>4, <1>5, <1>6, QuietStep

LEMMA StartReviewStep == ASSUME IInv, StartReview PROVE IInv'
<1>1. /\ pc = "outer" /\ OpenPending = {} /\ cp.role = Reviewer
      /\ pc' = "review" /\ sid' = sid + 1 /\ cp' = SessionStarted(cp, sid') /\ snap' = cp'
      /\ UNCHANGED <<gate, records, outcome, read, restarts>>
  BY DEF StartReview, Visiting
<1>2. sid' \in Nat BY <1>1 DEF IInv, TypeOK
<1>3. cp' \in Checkpoints /\ cp'.role = Reviewer
  BY <1>1, <1>2, LifecycleShape DEF IInv, TypeOK
<1>4. TypeOK' BY <1>1, <1>2, <1>3 DEF IInv, TypeOK, records, Outcomes, Steps
<1>5. \A o \in Unrouted : PendingsOf(o) = {} BY <1>1, NoneWaits DEF IInv
<1>6. PlaceFits'
  <2>1. Unrouted' = Unrouted /\ \A o : PendingsOf(o)' = PendingsOf(o)
    BY <1>1, SameReferences DEF records
  <2>. QED BY <1>1, <1>3, <1>5, <2>1 DEF PlaceFits, InRoute
<1>7. \A o : ~Waits(o) BY <1>5 DEF Waits
<1>. QED BY <1>1, <1>4, <1>6, <1>7, QuietStep

LEMMA ReviewerFailsStep == ASSUME IInv, ReviewerFails PROVE IInv'
<1> DEFINE c == SessionTerminal(cp)
<1>1. /\ pc = "review" /\ pc' = "outer" /\ snap' = cp'
      /\ cp' \in {c, Reduce(c, Handoff(Orchestrator, FALSE))}
      /\ UNCHANGED <<gate, records, sid, outcome, read, restarts>>
  BY DEF ReviewerFails
<1>2. c \in Checkpoints BY LifecycleShape DEF IInv, TypeOK
<1> HIDE DEF c
<1>3. cp' \in Checkpoints
  <2>1. CASE Accepts(c, Handoff(Orchestrator, FALSE))
    BY <1>1, <1>2, <2>1, HopShape DEF Roles
  <2>2. CASE ~Accepts(c, Handoff(Orchestrator, FALSE))
    BY <1>1, <1>2, <2>2 DEF Reduce
  <2>. QED BY <2>1, <2>2
<1>4. TypeOK' BY <1>1, <1>3 DEF IInv, TypeOK, records, Outcomes, Steps
<1>5. PlaceFits' BY <1>1 DEF PlaceFits, InRoute
<1>6. \A o : ~Waits(o) BY <1>1 DEF IInv, PlaceFits, Waits
<1>. QED BY <1>1, <1>4, <1>5, <1>6, QuietStep

LEMMA EndReviewStep == ASSUME IInv, EndReview PROVE IInv'
<1>1. /\ pc = "end" /\ cp' = SessionTerminal(cp) /\ snap' = cp'
      /\ pc' = IF gate.owner = Orchestrator THEN "mark" ELSE "out"
      /\ UNCHANGED <<gate, records, sid, outcome, read, restarts>>
  BY DEF EndReview
<1>2. cp' \in Checkpoints /\ cp'.role = snap.role
  BY <1>1, LifecycleShape, 0 \in Nat DEF IInv, TypeOK, PlaceFits
<1>3. TypeOK' BY <1>1, <1>2 DEF IInv, TypeOK, records, Outcomes, Steps
<1>4. PlaceFits'
  <2>1. Unrouted' = Unrouted /\ \A o : PendingsOf(o)' = PendingsOf(o)
    BY <1>1, SameReferences DEF records
  <2>2. Advances' = Advances /\ UNCHANGED <<outcomes, pendings>>
    BY <1>1 DEF Advances, records
  <2>. QED BY <1>1, <2>1, <2>2 DEF IInv, PlaceFits, InRoute, Hops
<1>. QED BY <1>1, <1>2, <1>3, <1>4, QuietStep

\* A hop that is refused, and a crash: what was in memory is gone.
LEMMA LostStep ==
    ASSUME IInv, pc' \in Down, cp' = snap,
           UNCHANGED <<gate, snap, records, sid, outcome, read, restarts>>
    PROVE  IInv'
<1>1. TypeOK' BY DEF IInv, TypeOK, records, Outcomes
<1>2. PlaceFits' BY DEF PlaceFits, InRoute, Down
<1>. QED BY <1>1, <1>2, QuietStep DEF Down

LEMMA ResumeStep == ASSUME IInv, Resume PROVE IInv'
<1>1. /\ pc \in Down /\ pc' = "outer" /\ restarts' = restarts + 1
      /\ cp' = SessionTerminal(snap) /\ snap' = cp'
      /\ UNCHANGED <<gate, outcomes, pendings, routes, sid, outcome, read>>
  BY DEF Resume, records
<1>2. cp' \in Checkpoints /\ cp'.role = snap.role
  BY <1>1, LifecycleShape, 0 \in Nat DEF IInv, TypeOK
<1>3. TypeOK' BY <1>1, <1>2 DEF IInv, TypeOK, Outcomes, Steps
<1>4. PlaceFits' BY <1>1 DEF PlaceFits, InRoute
<1>5. /\ Outcomes' = Outcomes /\ Unrouted' = Unrouted
      /\ \A o : RoutesOf(o)' = RoutesOf(o) /\ PendingsOf(o)' = PendingsOf(o)
      /\ \A o : Waits(o)' <=> Waits(o)
  BY <1>1, SameReferences
<1>6. LogFits' BY <1>1, <1>5 DEF IInv, LogFits
<1>7. HopsFit' BY <1>1, <1>2, <1>5 DEF IInv, HopsFit, Hops
<1>8. ApprovalsFit'
  <2>1. ASSUME NEW o \in Outcomes, NEW v \in outcomes[o].invalid
        PROVE  v.life < restarts' /\ v.life <= restarts'
    <3>1. v.life <= restarts BY DEF IInv, ApprovalsFit
    <3>2. v.life \in Nat /\ restarts \in Nat
      BY Types DEF IInv, OutcomeRecords, TypeOK
    <3>. QED BY <1>1, <3>1, <3>2
  <2>2. Unrouted \subseteq Outcomes BY DEF Unrouted
  <2>. QED BY <1>1, <1>5, <2>1, <2>2 DEF IInv, ApprovalsFit
<1>. QED BY <1>3, <1>4, <1>6, <1>7, <1>8 DEF IInv

-----------------------------------------------------------------------------
(* Steps that write a record of a route.                                   *)

\* The outcome of a session, or the one an earlier session left unrouted.
LEMMA RecordOutcomeStep ==
    ASSUME IInv, NEW captures \in Captures, RecordOutcome(captures)
    PROVE  IInv'
<1> DEFINE new == NewOutcome(Classify(captures))
<1> PICK n : n = Len(outcomes) + 1 OBVIOUS
<1>1. /\ pc = "review" /\ pc' \in {"revision", "pend"} /\ read' = "unavailable"
      /\ UNCHANGED <<gate, snap, pendings, routes, cp, sid, restarts>>
  BY DEF RecordOutcome
<1>2. \A o \in Unrouted : PendingsOf(o) = {} BY <1>1 DEF IInv, PlaceFits
<1>3. CASE Unrouted # {}
  <2>1. UNCHANGED outcomes /\ outcome' = Latest(Unrouted) BY <1>3 DEF RecordOutcome
  <2>2. outcome' \in Unrouted
    <3>1. PICK o \in Unrouted : TRUE BY <1>3
    <3>2. \A p \in Unrouted : p = o BY DEF IInv, LogFits
    <3>3. o \in Nat BY LenProperties DEF Unrouted, Outcomes, IInv, TypeOK
    <3>4. \A p \in Unrouted : p <= o BY <3>2, <3>3
    <3>. QED BY <2>1, <3>2, <3>4 DEF Latest
  <2>3. /\ Outcomes' = Outcomes /\ Unrouted' = Unrouted
        /\ \A o : RoutesOf(o)' = RoutesOf(o) /\ PendingsOf(o)' = PendingsOf(o)
        /\ \A o : Waits(o)' <=> Waits(o)
    BY <1>1, <2>1, SameReferences
  <2>4. Unrouted \subseteq Outcomes BY DEF Unrouted
  <2>5. TypeOK'
    BY <1>1, <2>1, <2>2, <2>3, <2>4 DEF IInv, TypeOK, Steps, Revisions
  <2>6. LogFits' BY <1>1, <2>1, <2>3 DEF IInv, LogFits
  <2>7. HopsFit' BY <1>1, <2>1, <2>3 DEF IInv, HopsFit, Hops
  <2>8. PlaceFits' BY <1>1, <2>2, <2>3 DEF IInv, PlaceFits, InRoute
  <2>9. ApprovalsFit' BY <1>1, <2>1, <2>3 DEF IInv, ApprovalsFit
  <2>. QED BY <2>5, <2>6, <2>7, <2>8, <2>9 DEF IInv
<1>4. CASE Unrouted = {}
  <2>1. outcomes' = Append(outcomes, new) /\ outcome' = Len(outcomes')
    BY <1>4 DEF RecordOutcome
  <2>2. /\ new \in OutcomeRecords /\ new.back = 0 /\ new.out = 0 /\ new.invalid = {}
    <3>1. Classify(captures) \in Kinds
      BY DEF Classify, Captures, Kinds
    <3>. QED BY <3>1 DEF NewOutcome, OutcomeRecords
  <2> HIDE DEF new
  <2>3. /\ outcomes' \in Seq(OutcomeRecords) /\ Len(outcomes') = n
        /\ n \notin Outcomes /\ n \in Nat /\ Outcomes' = Outcomes \cup {n}
        /\ outcomes'[n] = new /\ \A o \in Outcomes : outcomes'[o] = outcomes[o]
    BY <2>1, <2>2, AppendShape DEF IInv, TypeOK, Outcomes
  <2>4. outcome' = n BY <2>1, <2>3
  <2>5. \A o : RoutesOf(o)' = RoutesOf(o) /\ PendingsOf(o)' = PendingsOf(o)
    BY <1>1 DEF RoutesOf, PendingsOf
  <2>6. RoutesOf(n) = {} /\ PendingsOf(n) = {}
    BY <2>3 DEF IInv, LogFits, RoutesOf, PendingsOf
  <2>7. Unrouted' = {n}
    <3>1. \A o \in Outcomes : RoutesOf(o) # {} BY <1>4 DEF Unrouted
    <3>2. Unrouted' = {o \in Outcomes \cup {n} : RoutesOf(o) = {}}
      BY <2>3, <2>5, Zenon DEF Unrouted
    <3>. QED BY <2>6, <3>1, <3>2
  <2>8. TypeOK' BY <1>1, <2>3, <2>4 DEF IInv, TypeOK, Steps, Revisions
  <2>9. LogFits' BY <1>1, <2>3, <2>5, <2>7 DEF IInv, LogFits
  <2>10. HopsFit'
    <3>1. \A o \in Outcomes : o # n /\ ~(Waits(o)') BY <2>3, <2>7 DEF Waits
    <3>2. ~(Waits(n)') BY <2>5, <2>6 DEF Waits
    <3>. QED BY <1>1, <2>2, <2>3, <2>5, <2>6, <3>1, <3>2 DEF IInv, HopsFit, Hops
  <2>11. PlaceFits' BY <1>1, <2>4, <2>5, <2>6, <2>7 DEF IInv, PlaceFits, InRoute
  <2>12. ApprovalsFit'
    BY <1>1, <2>2, <2>3, <2>5, <2>7 DEF IInv, ApprovalsFit, LogFits
  <2>. QED BY <2>8, <2>9, <2>10, <2>11, <2>12 DEF IInv
<1>. QED BY <1>3, <1>4

\* The revision of an approval, read once in the life of a process.
LEMMA ReadRevisionStep ==
    ASSUME IInv, NEW revision \in Revisions, ReadRevision(revision)
    PROVE  IInv'
<1> DEFINE entry == [revision |-> revision, life |-> restarts]
           marked == [outcomes[outcome] EXCEPT !.invalid = @ \cup {entry}]
<1>1. /\ pc = "revision" /\ pc' = "pend" /\ read' = revision
      /\ outcomes' = Invalidated(outcome, revision)
      /\ UNCHANGED <<gate, snap, pendings, routes, cp, sid, outcome, restarts>>
  BY DEF ReadRevision
<1>2. /\ outcome \in Unrouted /\ outcome \in Outcomes /\ PendingsOf(outcome) = {}
      /\ \A o \in Unrouted : PendingsOf(o) = {}
      /\ outcomes[outcome] \in OutcomeRecords /\ restarts \in Nat
  BY <1>1, Types DEF IInv, PlaceFits, Unrouted, TypeOK
<1>3. /\ marked \in OutcomeRecords /\ marked.kind = outcomes[outcome].kind
      /\ marked.back = outcomes[outcome].back /\ marked.out = outcomes[outcome].out
      /\ marked.invalid = outcomes[outcome].invalid \cup {entry}
      /\ entry.life = restarts
  BY <1>2 DEF OutcomeRecords
<1> HIDE DEF marked, entry
<1>4. \/ outcomes' = outcomes
      \/ revision # "reviewed" /\ outcomes' = [outcomes EXCEPT ![outcome] = marked]
  BY <1>1 DEF Invalidated, marked, entry
<1>5. /\ outcomes' \in Seq(OutcomeRecords) /\ DOMAIN outcomes' = DOMAIN outcomes
      /\ \A o \in Outcomes :
           /\ outcomes'[o].kind = outcomes[o].kind /\ outcomes'[o].back = outcomes[o].back
           /\ outcomes'[o].out = outcomes[o].out
           /\ o # outcome => outcomes'[o].invalid = outcomes[o].invalid
      /\ revision = "reviewed" => outcomes' = outcomes
      /\ \A v \in outcomes'[outcome].invalid : v.life <= restarts
  <2>1. \A v \in outcomes[outcome].invalid : v.life <= restarts
    BY <1>2 DEF IInv, ApprovalsFit
  <2>2. CASE outcomes' = outcomes BY <2>1, <2>2 DEF IInv, TypeOK
  <2>3. CASE revision # "reviewed" /\ outcomes' = [outcomes EXCEPT ![outcome] = marked]
    <3>1. /\ outcomes' \in Seq(OutcomeRecords) /\ DOMAIN outcomes' = DOMAIN outcomes
          /\ outcomes'[outcome] = marked
          /\ \A p \in Outcomes \ {outcome} : outcomes'[p] = outcomes[p]
      BY <1>2, <1>3, <2>3, OutcomeChanged DEF IInv
    <3>2. \A v \in marked.invalid : v.life <= restarts BY <1>2, <1>3, <2>1
    <3>. QED BY <1>3, <2>3, <3>1, <3>2
  <2>. QED BY <1>4, <2>2, <2>3
<1>6. /\ Outcomes' = Outcomes /\ Unrouted' = Unrouted
      /\ \A o : RoutesOf(o)' = RoutesOf(o) /\ PendingsOf(o)' = PendingsOf(o)
      /\ \A o : Waits(o)' <=> Waits(o)
  BY <1>1, <1>5, SameReferences
<1>7. TypeOK' BY <1>1, <1>5, <1>6 DEF IInv, TypeOK, Steps
<1>8. LogFits' BY <1>1, <1>6 DEF IInv, LogFits
<1>9. HopsFit' BY <1>1, <1>5, <1>6 DEF IInv, HopsFit, Hops
<1>10. PlaceFits' BY <1>1, <1>2, <1>6 DEF IInv, PlaceFits, InRoute
<1>11. ApprovalsFit'
  <2>1. \A i \in DOMAIN pendings : pendings[i].outcome \in Outcomes /\ pendings[i].outcome # outcome
    BY <1>2 DEF IInv, LogFits, PendingsOf
  <2>2. \A v \in outcomes[outcome].invalid : v.life < restarts
    BY <1>1, <1>2 DEF IInv, ApprovalsFit
  <2>. QED BY <1>1, <1>5, <1>6, <2>1, <2>2 DEF IInv, ApprovalsFit
<1>. QED BY <1>7, <1>8, <1>9, <1>10, <1>11 DEF IInv

\* The intent is written once, with what its verification said.
LEMMA WritePendingStep == ASSUME IInv, WritePending PROVE IInv'
<1> DEFINE n == Len(pendings) + 1
           new == [outcome |-> outcome, advances |-> Advances, revision |-> read, life |-> restarts]
<1>1. /\ pc = "pend" /\ pc' = "back" /\ pendings' = Append(pendings, new)
      /\ UNCHANGED <<gate, snap, outcomes, routes, cp, sid, outcome, read, restarts>>
  BY DEF WritePending
<1>2. /\ outcome \in Unrouted /\ outcome \in Outcomes /\ PendingsOf(outcome) = {}
      /\ \A o \in Unrouted : PendingsOf(o) = {} /\ cp = snap /\ cp.role = Reviewer
  BY <1>1 DEF IInv, PlaceFits, Unrouted
<1>3. /\ new \in PendingRecords /\ new.outcome = outcome /\ new.advances = Advances
      /\ new.revision = read /\ new.life = restarts
  <2>1. outcome \in Nat BY <1>2, LenProperties DEF IInv, TypeOK, Outcomes
  <2>. QED BY <2>1, AdvancesIsBoolean DEF IInv, TypeOK, PendingRecords
<1> HIDE DEF new
<1>4. /\ pendings' \in Seq(PendingRecords) /\ Len(pendings') = n
      /\ n \notin DOMAIN pendings /\ DOMAIN pendings' = DOMAIN pendings \cup {n}
      /\ pendings'[n] = new /\ \A i \in DOMAIN pendings : pendings'[i] = pendings[i]
  BY <1>1, <1>3, AppendShape DEF IInv, TypeOK
<1> HIDE DEF n
<1>5. /\ Outcomes' = Outcomes /\ Unrouted' = Unrouted /\ \A o : RoutesOf(o)' = RoutesOf(o)
  <2>1. Outcomes' = Outcomes BY <1>1 DEF Outcomes
  <2>2. \A o : RoutesOf(o)' = RoutesOf(o) BY <1>1 DEF RoutesOf
  <2>. QED BY <2>1, <2>2, Zenon DEF Unrouted
<1>6. /\ PendingsOf(outcome)' = {n} /\ \A o : o # outcome => PendingsOf(o)' = PendingsOf(o)
  <2>1. \A o : PendingsOf(o)' = {i \in DOMAIN pendings \cup {n} : pendings'[i].outcome = o}
    BY <1>4 DEF PendingsOf
  <2>2. ASSUME NEW o, o # outcome PROVE PendingsOf(o)' = PendingsOf(o)
    BY <1>3, <1>4, <2>1, <2>2 DEF PendingsOf
  <2>3. PendingsOf(outcome)' = {n}
    BY <1>1, <1>2, <1>3, <1>4, <2>1 DEF PendingsOf
  <2>. QED BY <2>2, <2>3
<1>7. \A i \in DOMAIN pendings : /\ pendings[i].outcome \in Outcomes
                                 /\ pendings[i].outcome # outcome
                                 /\ RoutesOf(pendings[i].outcome) # {}
  <2>1. ASSUME NEW i \in DOMAIN pendings
        PROVE  /\ pendings[i].outcome \in Outcomes /\ pendings[i].outcome # outcome
               /\ RoutesOf(pendings[i].outcome) # {}
    <3>1. pendings[i].outcome \in Outcomes BY DEF IInv, LogFits
    <3>2. i \in PendingsOf(pendings[i].outcome) BY DEF PendingsOf
    <3>. QED BY <1>2, <3>1, <3>2 DEF Unrouted
  <2>. QED BY <2>1
<1>8. TypeOK' BY <1>1, <1>4, <1>5 DEF IInv, TypeOK, Steps
<1>9. LogFits'
  <2>1. ASSUME NEW i \in DOMAIN pendings'
        PROVE  /\ pendings'[i].outcome \in Outcomes
               /\ i # Len(pendings') => RoutesOf(pendings'[i].outcome) # {}
               /\ \A j \in DOMAIN pendings' : pendings'[i].outcome = pendings'[j].outcome => i = j
    BY <1>2, <1>3, <1>4, <1>7 DEF IInv, LogFits
  <2>2. ASSUME NEW r \in DOMAIN routes
        PROVE  \E i \in DOMAIN pendings' : /\ pendings'[i].outcome = routes[r].outcome
                                           /\ pendings'[i].advances = routes[r].advances
    BY <1>4 DEF IInv, LogFits
  <2>. QED BY <1>1, <1>5, <2>1, <2>2 DEF IInv, LogFits
<1>10. HopsFit'
  <2>1. \A o \in Outcomes : o # outcome => ~(Waits(o)')
    BY <1>2, <1>5, <1>6 DEF Waits
  <2>2. outcomes[outcome].back = 0 /\ outcomes[outcome].out = 0 BY <1>2 DEF IInv, HopsFit
  <2>3. RoutesOf(outcome)' = {} BY <1>1, <1>2, <1>5 DEF Unrouted
  <2>4. PendingsOf(outcome)' # {} BY <1>6
  <2>5. ASSUME NEW o \in Outcomes, o # outcome
        PROVE  /\ RoutesOf(o)' # {} => outcomes[o].back = 1 /\ outcomes[o].out = Hops
               /\ PendingsOf(o)' = {} => outcomes[o].back = 0 /\ outcomes[o].out = 0
    BY <1>5, <1>6, <2>5 DEF IInv, HopsFit
  <2>6. Hops' = Hops BY <1>1 DEF Hops
  <2>. QED BY <1>1, <1>2, <1>5, <2>1, <2>2, <2>3, <2>4, <2>5, <2>6 DEF HopsFit
<1>11. PlaceFits'
  <2>1. Advances' = Advances BY <1>1 DEF Advances
  <2>2. outcomes[outcome].back = 0 BY <1>2 DEF IInv, HopsFit
  <2>. QED BY <1>1, <1>2, <1>3, <1>4, <1>5, <1>6, <2>1, <2>2 DEF PlaceFits, InRoute
<1>12. ApprovalsFit'
  <2>1. new.advances = TRUE =>
          /\ outcomes[outcome].kind = "approve" /\ read = "reviewed"
          /\ \A v \in outcomes[outcome].invalid : v.life < restarts
    BY <1>1, <1>3 DEF IInv, ApprovalsFit, Advances
  <2>2. ASSUME NEW i \in DOMAIN pendings', pendings'[i].advances = TRUE
        PROVE  /\ outcomes[pendings'[i].outcome].kind = "approve"
               /\ pendings'[i].revision = "reviewed"
               /\ \A v \in outcomes[pendings'[i].outcome].invalid : v.life < pendings'[i].life
    BY <1>3, <1>4, <2>1, <2>2 DEF IInv, ApprovalsFit
  <2>. QED BY <1>1, <1>5, <2>2 DEF IInv, ApprovalsFit
<1>. QED BY <1>8, <1>9, <1>10, <1>11, <1>12 DEF IInv

\* A hop changes nothing but how far its own outcome has come.
LEMMA HopKeeps ==
    ASSUME IInv, NEW o \in Unrouted, PendingsOf(o) # {}, NEW x \in OutcomeRecords,
           x.kind = outcomes[o].kind, x.invalid = outcomes[o].invalid,
           outcomes' = [outcomes EXCEPT ![o] = x],
           \/ x.back = 1 /\ x.out = 0 /\ snap'.role = Orchestrator
           \/ x.back = 1 /\ x.out = 1 /\ Hops = 1 /\ snap'.role = gate.owner,
           cp' \in Checkpoints, snap' = cp', pc' \in InRoute \/ pc' = pc,
           UNCHANGED <<gate, pendings, routes, sid, outcome, read, restarts>>
    PROVE  /\ TypeOK' /\ LogFits' /\ HopsFit' /\ ApprovalsFit'
           /\ outcomes'[o] = x /\ Unrouted' = Unrouted
           /\ \A p : PendingsOf(p)' = PendingsOf(p)
           /\ outcome \in Outcomes => Advances' = Advances
<1>1. o \in Outcomes BY DEF Unrouted
<1>2. /\ outcomes' \in Seq(OutcomeRecords) /\ DOMAIN outcomes' = DOMAIN outcomes
      /\ outcomes'[o] = x /\ \A p \in Outcomes \ {o} : outcomes'[p] = outcomes[p]
  BY <1>1, OutcomeChanged DEF IInv
<1>3. /\ Outcomes' = Outcomes /\ Unrouted' = Unrouted
      /\ \A p : RoutesOf(p)' = RoutesOf(p) /\ PendingsOf(p)' = PendingsOf(p)
      /\ \A p : Waits(p)' <=> Waits(p)
  BY <1>2, SameReferences
<1>4. \A p \in Outcomes : /\ outcomes'[p].kind = outcomes[p].kind
                          /\ outcomes'[p].invalid = outcomes[p].invalid
  BY <1>2
<1>5. TypeOK' BY <1>2, <1>3 DEF IInv, TypeOK, InRoute, Steps
<1>6. LogFits' BY <1>3 DEF IInv, LogFits
<1>7. HopsFit'
  <2>1. Hops' = Hops BY DEF Hops
  <2>2. \A p \in Outcomes : p # o => ~Waits(p) BY DEF IInv, LogFits, Waits
  <2>3. RoutesOf(o) = {} BY DEF Unrouted
  <2>4. ASSUME NEW p \in Outcomes
        PROVE  /\ RoutesOf(p) # {} => outcomes'[p].back = 1 /\ outcomes'[p].out = Hops
               /\ PendingsOf(p) = {} => outcomes'[p].back = 0 /\ outcomes'[p].out = 0
               /\ Waits(p) =>
                    \/ outcomes'[p].back = 1 /\ outcomes'[p].out = 0
                       /\ snap'.role = Orchestrator
                    \/ outcomes'[p].back = 1 /\ outcomes'[p].out = 1 /\ Hops = 1
                       /\ snap'.role = gate.owner
    <3>1. CASE p = o BY <1>2, <2>3, <3>1
    <3>2. CASE p # o BY <1>2, <2>2, <3>2 DEF IInv, HopsFit
    <3>. QED BY <3>1, <3>2
  <2>. QED BY <1>3, <2>1, <2>4 DEF HopsFit
<1>8. ApprovalsFit'
  <2>1. \A i \in DOMAIN pendings : pendings[i].outcome \in Outcomes BY DEF IInv, LogFits
  <2>2. Unrouted \subseteq Outcomes BY DEF Unrouted
  <2>3. pc = "pend" => outcome \in Outcomes BY <2>2 DEF IInv, PlaceFits
  <2>. QED BY <1>3, <1>4, <2>1, <2>2, <2>3 DEF IInv, ApprovalsFit, InRoute
<1>9. outcome \in Outcomes => Advances' = Advances BY <1>4 DEF Advances
<1>. QED BY <1>2, <1>3, <1>5, <1>6, <1>7, <1>8, <1>9

\* An outcome that waits with no hop, and its hop back.
LEMMA HopBackShape ==
    ASSUME IInv, NEW o \in Unrouted, PendingsOf(o) # {}, outcomes[o].back = 0,
           Hop(o, Back, "back"), pc' \in InRoute \/ pc' = pc
    PROVE  /\ TypeOK' /\ LogFits' /\ HopsFit' /\ ApprovalsFit'
           /\ outcomes'[o].back = 1 /\ outcomes'[o].out = 0 /\ Unrouted' = Unrouted
           /\ \A p : PendingsOf(p)' = PendingsOf(p)
           /\ outcome \in Outcomes => Advances' = Advances
           /\ cp' = snap' /\ UNCHANGED <<gate, outcome>>
<1> DEFINE x == [outcomes[o] EXCEPT !.back = @ + 1]
<1>1. /\ Accepts(cp, Back) /\ cp' = Reduce(cp, Back) /\ snap' = cp'
      /\ outcomes' = [outcomes EXCEPT ![o] = x]
      /\ UNCHANGED <<gate, pendings, routes, sid, outcome, read, restarts>>
  BY DEF Hop
<1>2. cp' \in Checkpoints /\ snap'.role = Orchestrator
  BY <1>1, HopShape DEF Back, IInv, TypeOK, Roles
<1>3. o \in Outcomes /\ outcomes[o] \in OutcomeRecords
  BY Types DEF Unrouted, IInv
<1>4. outcomes[o].out = 0
  BY <1>3 DEF IInv, HopsFit, Waits
<1>5. /\ x \in OutcomeRecords /\ x.kind = outcomes[o].kind /\ x.invalid = outcomes[o].invalid
      /\ x.back = 1 /\ x.out = 0
  BY <1>3, <1>4 DEF OutcomeRecords
<1> HIDE DEF x
<1>. QED BY <1>1, <1>2, <1>5, HopKeeps

LEMMA HopOutShape ==
    ASSUME IInv, NEW o \in Unrouted, PendingsOf(o) # {}, gate.owner # Orchestrator,
           outcomes[o].back = 1, outcomes[o].out = 0,
           Hop(o, Out, "out"), pc' \in InRoute \/ pc' = pc
    PROVE  /\ TypeOK' /\ LogFits' /\ HopsFit' /\ ApprovalsFit'
           /\ outcomes'[o].back = 1 /\ outcomes'[o].out = 1 /\ Hops = 1 /\ Unrouted' = Unrouted
           /\ \A p : PendingsOf(p)' = PendingsOf(p)
           /\ outcome \in Outcomes => Advances' = Advances
           /\ cp' = snap' /\ UNCHANGED <<gate, outcome>>
<1> DEFINE x == [outcomes[o] EXCEPT !.out = @ + 1]
<1>1. /\ Accepts(cp, Out) /\ cp' = Reduce(cp, Out) /\ snap' = cp'
      /\ outcomes' = [outcomes EXCEPT ![o] = x]
      /\ UNCHANGED <<gate, pendings, routes, sid, outcome, read, restarts>>
  BY DEF Hop
<1>2. gate.owner \in Roles /\ Hops = 1 BY Types DEF IInv
<1>3. cp' \in Checkpoints /\ snap'.role = gate.owner
  BY <1>1, <1>2, HopShape DEF Out, IInv, TypeOK
<1>4. o \in Outcomes /\ outcomes[o] \in OutcomeRecords
  BY Types DEF Unrouted, IInv
<1>5. /\ x \in OutcomeRecords /\ x.kind = outcomes[o].kind /\ x.invalid = outcomes[o].invalid
      /\ x.back = 1 /\ x.out = 1
  BY <1>4 DEF OutcomeRecords
<1> HIDE DEF x
<1>. QED BY <1>1, <1>2, <1>3, <1>5, HopKeeps

LEMMA HopStep == ASSUME IInv, HopBack \/ HopOut PROVE IInv'
<1>1. /\ outcome \in Unrouted /\ outcome \in Outcomes /\ PendingsOf(outcome) # {}
      /\ \E i \in PendingsOf(outcome) : pendings[i].advances = Advances
  BY DEF HopBack, HopOut, IInv, PlaceFits, InRoute, Unrouted
<1>2. UNCHANGED pendings BY DEF HopBack, HopOut, Hop
<1>3. CASE HopBack
  <2>1. /\ pc = "back" /\ pc' = "end" /\ Hop(outcome, Back, "back") /\ outcomes[outcome].back = 0
    BY <1>3 DEF HopBack, IInv, PlaceFits
  <2>2. /\ TypeOK' /\ LogFits' /\ HopsFit' /\ ApprovalsFit'
        /\ outcomes'[outcome].back = 1 /\ outcomes'[outcome].out = 0 /\ Unrouted' = Unrouted
        /\ \A p : PendingsOf(p)' = PendingsOf(p) /\ Advances' = Advances
        /\ cp' = snap' /\ UNCHANGED <<gate, outcome>>
    BY <1>1, <2>1, HopBackShape DEF InRoute
  <2>3. PlaceFits' BY <1>1, <1>2, <2>1, <2>2 DEF PlaceFits, InRoute
  <2>. QED BY <2>2, <2>3 DEF IInv
<1>4. CASE HopOut
  <2>1. /\ pc = "out" /\ pc' = "mark" /\ Hop(outcome, Out, "out")
        /\ outcomes[outcome].back = 1 /\ outcomes[outcome].out = 0 /\ gate.owner # Orchestrator
    BY <1>4 DEF HopOut, IInv, PlaceFits
  <2>2. /\ TypeOK' /\ LogFits' /\ HopsFit' /\ ApprovalsFit'
        /\ outcomes'[outcome].back = 1 /\ outcomes'[outcome].out = 1 /\ Hops = 1
        /\ Unrouted' = Unrouted
        /\ \A p : PendingsOf(p)' = PendingsOf(p) /\ Advances' = Advances
        /\ cp' = snap' /\ UNCHANGED <<gate, outcome>>
    BY <1>1, <2>1, HopOutShape DEF InRoute
  <2>3. Hops' = Hops BY <2>2 DEF Hops
  <2>4. PlaceFits' BY <1>1, <1>2, <2>1, <2>2, <2>3 DEF PlaceFits, InRoute
  <2>. QED BY <2>2, <2>4 DEF IInv
<1>. QED BY <1>3, <1>4

\* A resumed process finds the checkpoint where the hops left it.
LEMMA CompleteHopStep ==
    ASSUME IInv, NEW i \in OpenPending, CompleteBack(i) \/ CompleteOut(i)
    PROVE  IInv'
<1> DEFINE o == pendings[i].outcome
<1>1. /\ o \in Outcomes /\ o \in Unrouted /\ PendingsOf(o) # {} /\ Waits(o)
  BY OpenWaits DEF IInv
<1>2. gate.owner # Reviewer /\ Reviewer # Orchestrator
  BY Types, ReviewAssumption, RoleAssumption DEF IInv
<1>3. pc = "outer" /\ pc' = "outer" /\ cp = snap
  BY DEF CompleteBack, CompleteOut, Completing, IInv, PlaceFits
<1>4. CASE CompleteBack(i)
  <2>1. Hop(o, Back, "back") /\ outcomes[o].back = 0
    BY <1>1, <1>2, <1>3, <1>4 DEF CompleteBack, IInv, HopsFit
  <2>2. /\ TypeOK' /\ LogFits' /\ HopsFit' /\ ApprovalsFit' /\ cp' = snap'
    BY <1>1, <1>3, <2>1, HopBackShape
  <2>3. PlaceFits' BY <1>3, <2>2 DEF PlaceFits, InRoute
  <2>. QED BY <2>2, <2>3 DEF IInv
<1>5. CASE CompleteOut(i)
  <2>1. Hop(o, Out, "out") /\ outcomes[o].back = 1 /\ outcomes[o].out = 0
        /\ gate.owner # Orchestrator
    BY <1>1, <1>2, <1>3, <1>5 DEF CompleteOut, AtHub, IInv, HopsFit
  <2>2. /\ TypeOK' /\ LogFits' /\ HopsFit' /\ ApprovalsFit' /\ cp' = snap'
    BY <1>1, <1>3, <2>1, HopOutShape
  <2>3. PlaceFits' BY <1>3, <2>2 DEF PlaceFits, InRoute
  <2>. QED BY <2>2, <2>3 DEF IInv
<1>. QED BY <1>4, <1>5

\* The marker is written once, when all hops are committed, and says what the
\* intent said.
LEMMA MarkStep ==
    ASSUME IInv, NEW o \in Unrouted, NEW advances \in BOOLEAN, Mark(o, advances),
           \E i \in PendingsOf(o) : pendings[i].advances = advances,
           outcomes[o].back = 1, outcomes[o].out = Hops
    PROVE  IInv'
<1> DEFINE new == [outcome |-> o, advances |-> advances]
<1> PICK n : n = Len(routes) + 1 OBVIOUS
<1>1. /\ routes' = Append(routes, new) /\ pc' = "outer"
      /\ UNCHANGED <<gate, snap, outcomes, pendings, cp, sid, outcome, read, restarts>>
  BY DEF Mark
<1>2. o \in Outcomes /\ RoutesOf(o) = {} BY DEF Unrouted
<1>3. new \in RouteRecords /\ new.outcome = o /\ new.advances = advances
  <2>1. o \in Nat BY <1>2, LenProperties DEF IInv, TypeOK, Outcomes
  <2>. QED BY <2>1 DEF RouteRecords
<1> HIDE DEF new
<1>4. /\ routes' \in Seq(RouteRecords) /\ n \notin DOMAIN routes
      /\ DOMAIN routes' = DOMAIN routes \cup {n}
      /\ routes'[n] = new /\ \A r \in DOMAIN routes : routes'[r] = routes[r]
  BY <1>1, <1>3, AppendShape DEF IInv, TypeOK
<1>5. Outcomes' = Outcomes /\ \A p : PendingsOf(p)' = PendingsOf(p)
  BY <1>1 DEF Outcomes, PendingsOf
<1>6. /\ RoutesOf(o)' = {n} /\ \A p : p # o => RoutesOf(p)' = RoutesOf(p)
  <2>1. \A p : RoutesOf(p)' = {r \in DOMAIN routes \cup {n} : routes'[r].outcome = p}
    BY <1>4 DEF RoutesOf
  <2>2. ASSUME NEW p, p # o PROVE RoutesOf(p)' = RoutesOf(p)
    BY <1>3, <1>4, <2>1, <2>2 DEF RoutesOf
  <2>3. RoutesOf(o)' = {n}
    BY <1>2, <1>3, <1>4, <2>1 DEF RoutesOf
  <2>. QED BY <2>2, <2>3
<1>7. Unrouted' = {}
  <2>1. \A p \in Unrouted : p = o BY DEF IInv, LogFits
  <2>2. \A p \in Outcomes : RoutesOf(p)' # {} BY <1>6, <2>1 DEF Unrouted
  <2>. QED BY <1>5, <2>2 DEF Unrouted
<1>8. TypeOK' BY <1>1, <1>4, <1>5 DEF IInv, TypeOK, Steps
<1>9. LogFits'
  <2>1. ASSUME NEW i \in DOMAIN pendings
        PROVE  /\ pendings[i].outcome \in Outcomes
               /\ i # Len(pendings) => RoutesOf(pendings[i].outcome)' # {}
               /\ \A j \in DOMAIN pendings : pendings[i].outcome = pendings[j].outcome => i = j
    BY <1>1, <1>6 DEF IInv, LogFits
  <2>2. ASSUME NEW r \in DOMAIN routes'
        PROVE  /\ \E i \in DOMAIN pendings : /\ pendings[i].outcome = routes'[r].outcome
                                             /\ pendings[i].advances = routes'[r].advances
               /\ \A q \in DOMAIN routes' : routes'[r].outcome = routes'[q].outcome => r = q
    <3>1. \A q \in DOMAIN routes : routes[q].outcome # o BY <1>2 DEF RoutesOf
    <3>2. \E i \in DOMAIN pendings : /\ pendings[i].outcome = new.outcome
                                     /\ pendings[i].advances = new.advances
      BY <1>3 DEF PendingsOf
    <3>. QED BY <1>3, <1>4, <3>1, <3>2 DEF IInv, LogFits
  <2>. QED BY <1>1, <1>5, <1>7, <2>1, <2>2 DEF LogFits
<1>10. HopsFit'
  <2>1. Hops' = Hops BY <1>1 DEF Hops
  <2>2. ASSUME NEW p \in Outcomes, RoutesOf(p)' # {}
        PROVE  outcomes[p].back = 1 /\ outcomes[p].out = Hops
    BY <1>6, <2>2 DEF IInv, HopsFit
  <2>3. ASSUME NEW p \in Outcomes PROVE ~(Waits(p)') BY <1>7 DEF Waits
  <2>. QED BY <1>1, <1>5, <2>1, <2>2, <2>3 DEF IInv, HopsFit
<1>11. PlaceFits' BY <1>1 DEF IInv, PlaceFits, InRoute
<1>12. ApprovalsFit' BY <1>1, <1>5, <1>7 DEF IInv, ApprovalsFit
<1>. QED BY <1>8, <1>9, <1>10, <1>11, <1>12 DEF IInv

LEMMA MarkRouteStep == ASSUME IInv, MarkRoute PROVE IInv'
<1>1. /\ outcome \in Unrouted /\ Mark(outcome, Advances)
      /\ outcomes[outcome].back = 1 /\ outcomes[outcome].out = Hops
      /\ \E i \in PendingsOf(outcome) : pendings[i].advances = Advances
  BY DEF MarkRoute, IInv, PlaceFits, InRoute
<1>. QED BY <1>1, MarkStep, AdvancesIsBoolean DEF IInv

LEMMA CompleteMarkStep ==
    ASSUME IInv, NEW i \in OpenPending, CompleteMark(i)
    PROVE  IInv'
<1> DEFINE o == pendings[i].outcome
<1>1. /\ o \in Outcomes /\ o \in Unrouted /\ Waits(o) /\ i \in PendingsOf(o)
      /\ i \in DOMAIN pendings
  BY OpenWaits DEF IInv
<1>2. gate.owner # Reviewer /\ Hops = IF gate.owner = Orchestrator THEN 0 ELSE 1
  BY Types DEF IInv
<1>3. cp = snap /\ cp.role = gate.owner /\ Mark(o, pendings[i].advances)
  BY DEF CompleteMark, IInv, PlaceFits
<1>4. outcomes[o].back = 1 /\ outcomes[o].out = Hops
  BY <1>1, <1>2, <1>3 DEF IInv, HopsFit
<1>5. pendings[i].advances \in BOOLEAN BY <1>1, Types DEF IInv, PendingRecords
<1> HIDE DEF o
<1>. QED BY <1>1, <1>3, <1>4, <1>5, MarkStep

-----------------------------------------------------------------------------
(* The invariant of the specification, and what it says.                   *)

LEMMA InitialInvariant == Init => IInv
<1> SUFFICES ASSUME Init PROVE IInv OBVIOUS
<1>1. /\ outcomes = <<>> /\ pendings = <<>> /\ routes = <<>> /\ pc = "outer" /\ cp = snap
  BY DEF Init
<1>2. DOMAIN outcomes = {} /\ DOMAIN pendings = {} /\ DOMAIN routes = {} BY <1>1
<1>3. InitialCheckpoint \in Checkpoints
  BY RoleAssumption DEF InitialCheckpoint, Checkpoints, States, Roles, NoSession
<1>4. TypeOK
  <2>1. \A S : <<>> \in Seq(S) OBVIOUS
  <2>. QED BY <1>3, <2>1 DEF Init, TypeOK, Steps, Revisions, NoSession
<1>5. LogFits BY <1>2 DEF LogFits, Unrouted, Outcomes
<1>6. HopsFit BY <1>2 DEF HopsFit, Outcomes
<1>7. PlaceFits BY <1>1 DEF PlaceFits, InRoute
<1>8. ApprovalsFit BY <1>1, <1>2 DEF ApprovalsFit, Outcomes, Unrouted
<1>. QED BY <1>4, <1>5, <1>6, <1>7, <1>8 DEF IInv

LEMMA InvariantStep == IInv /\ [Next]_vars => IInv'
<1> SUFFICES ASSUME IInv, [Next]_vars PROVE IInv' OBVIOUS
<1>1. CASE UNCHANGED vars
  <2>1. UNCHANGED <<gate, snap, records, pc, cp, sid, outcome, read, restarts>>
    BY <1>1 DEF vars
  <2>2. TypeOK' BY <2>1 DEF IInv, TypeOK, records, Outcomes
  <2>3. Unrouted' = Unrouted /\ \A o : PendingsOf(o)' = PendingsOf(o)
    BY <2>1, SameReferences DEF records
  <2>4. PlaceFits'
    BY <2>1, <2>3 DEF IInv, PlaceFits, InRoute, Hops, Advances, records
  <2>. QED BY <2>1, <2>2, <2>4, QuietStep
<1>2. CASE Visit \/ StartReview \/ ReviewerFails
  BY <1>2, VisitStep, StartReviewStep, ReviewerFailsStep
<1>3. ASSUME NEW captures \in Captures, RecordOutcome(captures) PROVE IInv'
  BY <1>3, RecordOutcomeStep
<1>4. ASSUME NEW revision \in Revisions, ReadRevision(revision) PROVE IInv'
  BY <1>4, ReadRevisionStep
<1>5. CASE Routing
  <2>1. CASE WritePending \/ HopBack \/ EndReview \/ HopOut \/ MarkRoute
    BY <2>1, WritePendingStep, HopStep, EndReviewStep, MarkRouteStep
  <2>2. CASE HopOutRejected
    BY <2>2, LostStep DEF HopOutRejected, Rejected, Down
  <2>3. ASSUME NEW i \in OpenPending, CompleteBack(i) \/ CompleteOut(i) \/ CompleteMark(i)
        PROVE  IInv'
    BY <2>3, CompleteHopStep, CompleteMarkStep
  <2>4. ASSUME NEW i \in OpenPending, CompleteOutRejected(i) PROVE IInv'
    BY <2>4, LostStep DEF CompleteOutRejected, Rejected, Down
  <2>. QED BY <1>5, <2>1, <2>2, <2>3, <2>4 DEF Routing, Complete
<1>6. CASE Crash BY <1>6, LostStep DEF Crash, Down
<1>7. CASE Resume BY <1>7, ResumeStep
<1>8. CASE Rest BY <1>1, <1>8 DEF Rest
<1>. QED BY <1>1, <1>2, <1>3, <1>4, <1>5, <1>6, <1>7, <1>8 DEF Next

THEOREM Invariant == Spec => []IInv
BY InitialInvariant, InvariantStep, PTL DEF Spec

\* A set whose elements are all the same has one element at most.
LEMMA AtMostOne ==
    ASSUME NEW S, \A x, y \in S : x = y
    PROVE  Cardinality(S) <= 1
<1>1. CASE S = {} BY <1>1, FS_EmptySet
<1>2. CASE S # {}
  <2>1. PICK x \in S : TRUE BY <1>2
  <2>2. S = {x} BY <2>1
  <2>. QED BY <2>2, FS_Singleton
<1>. QED BY <1>1, <1>2

\* An outcome has one route at most, whichever of two processes does which part
\* of it, and meanwhile the run is where the route left it.  That an outcome gets
\* a route at all is PendingIsRouted.
THEOREM RoutesAreTakenOnce == Spec => []RoutesAreTaken
<1>1. IInv => RoutedOnce
  <2> SUFFICES ASSUME IInv PROVE RoutedOnce OBVIOUS
  <2>1. Cardinality(Unrouted) <= 1 BY AtMostOne DEF IInv, LogFits
  <2>2. ASSUME NEW o \in Outcomes
        PROVE  Cardinality(PendingsOf(o)) <= 1 /\ Cardinality(RoutesOf(o)) <= 1
    <3>1. \A i, j \in PendingsOf(o) : i = j BY DEF IInv, LogFits, PendingsOf
    <3>2. \A r, q \in RoutesOf(o) : r = q BY DEF IInv, LogFits, RoutesOf
    <3>. QED BY <3>1, <3>2, AtMostOne
  <2>. QED BY <2>1, <2>2 DEF RoutedOnce, IInv, HopsFit
<1>2. IInv => BridgeIsHeld
  <2> SUFFICES ASSUME IInv, NEW o \in Unrouted, PendingsOf(o) # {}
               PROVE  snap.role = IF outcomes[o].back = 0 THEN Reviewer
                                  ELSE IF outcomes[o].out = 0 THEN Orchestrator ELSE gate.owner
    BY DEF BridgeIsHeld
  <2>. QED BY DEF IInv, HopsFit, Waits, Unrouted
<1>3. IInv => RoutesAreTaken BY <1>1, <1>2 DEF RoutesAreTaken, IInv
<1>. QED BY <1>3, Invariant, PTL

\* No phase advances on anything but an approval whose revision was verified in
\* the life of the process that wrote the intent, whoever writes the marker.
THEOREM AdvancesNeedAnApproval == Spec => []AdvancesAreEarned
<1>1. IInv => AdvancesAreEarned
  <2> SUFFICES ASSUME IInv PROVE AdvancesAreEarned OBVIOUS
  <2>1. ASSUME NEW i \in DOMAIN pendings, pendings[i].advances
        PROVE  /\ outcomes[pendings[i].outcome].kind = "approve"
               /\ pendings[i].revision = "reviewed"
               /\ \A v \in outcomes[pendings[i].outcome].invalid : v.life < pendings[i].life
    <3>1. pendings[i].advances = TRUE BY <2>1, Types DEF IInv, PendingRecords
    <3>. QED BY <3>1 DEF IInv, ApprovalsFit
  <2>2. ASSUME NEW r \in DOMAIN routes
        PROVE  \E i \in PendingsOf(routes[r].outcome) : pendings[i].advances = routes[r].advances
    BY DEF IInv, LogFits, PendingsOf
  <2>. QED BY <2>1, <2>2 DEF AdvancesAreEarned
<1>. QED BY <1>1, Invariant, PTL
=============================================================================
