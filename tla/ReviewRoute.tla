---------------------------- MODULE ReviewRoute -----------------------------
(***************************************************************************)
(* The route of a review outcome through the hub (src/host/review-loop.ts, *)
(* review-recovery.ts, review-routing.ts): the outcome of a reviewer's     *)
(* session, the check of the current revision, the pending intent, the two *)
(* hops reviewer -> orchestrator -> phase owner with the end of the        *)
(* session between them, the route marker, and what a resumed process      *)
(* completes of it.                                                        *)
(*                                                                         *)
(* A record and the snapshot after it are one step: a record whose         *)
(* snapshot a crash prevented counts for nothing (RunLoop).  A visit of    *)
(* another role is one step as well, and so is the reconciliation of a     *)
(* crashed session.  A read of the current revision answers "reviewed",    *)
(* "changed" or "unavailable": the last one also stands for a provider     *)
(* that is missing, throws or answers with nothing.                        *)
(*                                                                         *)
(* Left out: reasons, guidance, payloads and seeds, delegated children, a  *)
(* gate that no manifest declares, and one that only a resume supplies,    *)
(* which the log never pins.                                               *)
(***************************************************************************)
EXTENDS ConductorFsm, Sequences, FiniteSets

CONSTANTS
    Reviewer,     \* reviewerRole of the gate
    MaxSessions,  \* bound: sessions of the reviewer
    MaxRestarts   \* bound: how often the run is resumed

\* validateReviewGates: the reviewer is declared and is not the orchestrator.
ASSUME ReviewAssumption ==
    Reviewer \in Workers /\ MaxSessions \in Nat /\ MaxRestarts \in Nat

Decisions == {"approve", "request_changes"}
Kinds == Decisions \cup {"incomplete"}
Revisions == {"reviewed", "changed", "unavailable"}

VARIABLES
    gate,      \* the pinned gate: its phase owner, and whether a next phase is named
    \* The record log.
    snap,      \* the latest checkpoint_snapshot
    outcomes,  \* the outcomes, each with its invalidations and committed hops
    pendings,  \* the review_route_pending records
    routes,    \* the review_route records
    \* The process that drives the run.
    pc,        \* the next step, "crashed" or "thrown"
    cp,        \* the checkpoint in memory
    sid,       \* sessions of the reviewer so far; the last may be live
    outcome,   \* the outcome being completed
    read,      \* currentRevision of an approval
    restarts

records == <<outcomes, pendings, routes>>
vars == <<gate, snap, records, pc, cp, sid, outcome, read, restarts>>

Down == {"crashed", "thrown"}
Steps == {"outer", "review", "revision", "pend", "back", "end", "out", "mark"}

OutcomeRecords ==
    [kind : Kinds, invalid : SUBSET [revision : Revisions, life : Nat], back : Nat, out : Nat]
PendingRecords == [outcome : Nat, advances : BOOLEAN, revision : Revisions, life : Nat]
RouteRecords == [outcome : Nat, advances : BOOLEAN]

Init ==
    /\ gate \in [owner : Roles \ {Reviewer}, next : BOOLEAN]
    /\ snap = InitialCheckpoint /\ outcomes = <<>> /\ pendings = <<>> /\ routes = <<>>
    /\ pc = "outer" /\ cp = InitialCheckpoint /\ sid = NoSession
    /\ outcome = 0 /\ read = "unavailable" /\ restarts = 0

Outcomes == DOMAIN outcomes
RoutesOf(o) == {i \in DOMAIN routes : routes[i].outcome = o}
PendingsOf(o) == {i \in DOMAIN pendings : pendings[i].outcome = o}
Unrouted == {o \in Outcomes : RoutesOf(o) = {}}

\* Mutant: only a reviewer's checkpoint is looked at for an interrupted route.
OpenPendingOfReviewer ==
    {i \in DOMAIN pendings :
        i = Len(pendings) /\ pendings[i].outcome \in Unrouted /\ cp.role = Reviewer}

\* latestPendingRoute, unless its route is marked already.
OpenPending ==
    {i \in DOMAIN pendings : i = Len(pendings) /\ pendings[i].outcome \in Unrouted}

-----------------------------------------------------------------------------
(* Visits.                                                                 *)

Visiting == pc = "outer" /\ OpenPending = {} /\ cp.role # Done

\* A visit of another role, up to its accepted transition or the forced end.
Visit ==
    /\ Visiting /\ cp.role # Reviewer
    /\ \E ev \in RoleEvents \cup {End("run_cost_cap")} :
          /\ ev.authority = "run_cost_cap" => cp.role = Orchestrator
          /\ Accepts(cp, ev)
          /\ cp' = Reduce(cp, ev)
    /\ snap' = cp'
    /\ UNCHANGED <<gate, records, pc, sid, outcome, read, restarts>>

StartReview ==
    /\ Visiting /\ cp.role = Reviewer /\ sid < MaxSessions
    /\ MayStart(cp, Reviewer)
    /\ pc' = "review" /\ sid' = sid + 1
    /\ cp' = SessionStarted(cp, sid') /\ snap' = cp'
    /\ UNCHANGED <<gate, records, outcome, read, restarts>>

\* A reviewer stopped by its host or its model: another attempt, or the
\* hand-back of an unavailable role.
ReviewerFails ==
    /\ pc = "review" /\ pc' = "outer"
    /\ cp' \in {SessionTerminal(cp), Reduce(SessionTerminal(cp), Handoff(Orchestrator, FALSE))}
    /\ snap' = cp'
    /\ UNCHANGED <<gate, records, sid, outcome, read, restarts>>

-----------------------------------------------------------------------------
(* completeReview.                                                         *)

\* The decisions a session can leave in its buffer: the first one seals it,
\* the tools refuse a malformed one, and a call beside the first is recorded.
Captures == {<<>>} \cup {<<d>> : d \in Decisions} \cup (Decisions \X Decisions)

\* classifyReviewCapture
Classify(captures) == IF Len(captures) = 1 THEN captures[1] ELSE "incomplete"

Latest(set) == CHOOSE o \in set : \A p \in set : p <= o

NewOutcome(kind) == [kind |-> kind, invalid |-> {}, back |-> 0, out |-> 0]

\* Mutant: the log is not searched for an unrouted outcome.
RecordOutcomeAgain(captures) ==
    /\ pc = "review"
    /\ outcomes' = Append(outcomes, NewOutcome(Classify(captures))) /\ outcome' = Len(outcomes')
    /\ pc' = IF outcomes'[outcome'].kind = "approve" THEN "revision" ELSE "pend"
    /\ read' = "unavailable"
    /\ UNCHANGED <<gate, snap, pendings, routes, cp, sid, restarts>>

\* The outcome of the session, or the one an earlier session left unrouted:
\* then what this session captured is dropped.
RecordOutcome(captures) ==
    /\ pc = "review"
    /\ IF Unrouted = {}
       THEN /\ outcomes' = Append(outcomes, NewOutcome(Classify(captures)))
            /\ outcome' = Len(outcomes')
       ELSE outcome' = Latest(Unrouted) /\ UNCHANGED outcomes
    /\ pc' = IF outcomes'[outcome'].kind = "approve" THEN "revision" ELSE "pend"
    /\ read' = "unavailable"
    /\ UNCHANGED <<gate, snap, pendings, routes, cp, sid, restarts>>

\* One review_approval_invalidated per revision that was read.
Invalidated(o, revision) ==
    IF revision = "reviewed" \/ \E i \in outcomes[o].invalid : i.revision = revision
    THEN outcomes
    ELSE [outcomes EXCEPT ![o].invalid = @ \cup {[revision |-> revision, life |-> restarts]}]

ReadRevision(revision) ==
    /\ pc = "revision" /\ pc' = "pend"
    /\ read' = revision
    /\ outcomes' = Invalidated(outcome, revision)
    /\ UNCHANGED <<gate, snap, pendings, routes, cp, sid, outcome, restarts>>

Advances == outcomes[outcome].kind = "approve" /\ gate.next /\ read = "reviewed"

WritePending ==
    /\ pc = "pend" /\ pc' = "back"
    /\ pendings' = Append(pendings,
         [outcome |-> outcome, advances |-> Advances, revision |-> read, life |-> restarts])
    /\ UNCHANGED <<gate, snap, outcomes, routes, cp, sid, outcome, read, restarts>>

Back == Handoff(Orchestrator, FALSE)
Out == Handoff(gate.owner, FALSE)

\* applySyntheticReviewHandoff for an outcome: the hop is accepted ...
Hop(o, ev, hop) ==
    /\ Accepts(cp, ev)
    /\ cp' = Reduce(cp, ev) /\ snap' = cp'
    /\ outcomes' = [outcomes EXCEPT ![o][hop] = @ + 1]
    /\ UNCHANGED <<gate, pendings, routes, sid, outcome, read, restarts>>

\* ... or rejected, and the loop throws what it held in memory away.
Rejected(ev) ==
    /\ ~Accepts(cp, ev)
    /\ pc' = "thrown" /\ cp' = snap
    /\ UNCHANGED <<gate, snap, records, sid, outcome, read, restarts>>

HopBack == pc = "back" /\ pc' = "end" /\ Hop(outcome, Back, "back")

EndReview ==
    /\ pc = "end" /\ MayTerminate(cp, sid)
    /\ pc' = IF gate.owner = Orchestrator THEN "mark" ELSE "out"
    /\ cp' = SessionTerminal(cp) /\ snap' = cp'
    /\ UNCHANGED <<gate, records, sid, outcome, read, restarts>>

HopOut == pc = "out" /\ pc' = "mark" /\ Hop(outcome, Out, "out")
HopOutRejected == pc = "out" /\ Rejected(Out)

Mark(o, advances) ==
    /\ routes' = Append(routes, [outcome |-> o, advances |-> advances])
    /\ pc' = "outer"
    /\ UNCHANGED <<gate, snap, outcomes, pendings, cp, sid, outcome, read, restarts>>

MarkRoute == pc = "mark" /\ Mark(outcome, Advances)

-----------------------------------------------------------------------------
(* resumePendingReviewRoute, at the top of every turn of the outer loop.   *)

Completing(i) == pc = "outer" /\ cp.role # Done /\ i \in OpenPending

CompleteBack(i) ==
    /\ Completing(i) /\ cp.role = Reviewer
    /\ Hop(pendings[i].outcome, Back, "back") /\ UNCHANGED pc

AtHub == cp.role = Orchestrator /\ gate.owner # Orchestrator

CompleteOut(i) ==
    /\ Completing(i) /\ AtHub
    /\ Hop(pendings[i].outcome, Out, "out") /\ UNCHANGED pc

CompleteOutRejected(i) == Completing(i) /\ AtHub /\ Rejected(Out)

\* Mutant: the decision is read again, what its verification said is not.
CompleteMarkByDecision(i) ==
    /\ Completing(i) /\ cp.role = gate.owner
    /\ Mark(pendings[i].outcome,
            gate.next /\ outcomes[pendings[i].outcome].kind = "approve")

CompleteMark(i) ==
    /\ Completing(i) /\ cp.role = gate.owner
    /\ Mark(pendings[i].outcome, pendings[i].advances)

-----------------------------------------------------------------------------
(* Crashes and restarts.                                                   *)

Crash ==
    /\ pc \notin Down /\ pc' = "crashed" /\ cp' = snap
    /\ UNCHANGED <<gate, snap, records, sid, outcome, read, restarts>>

\* The latest snapshot, its session reconciled.
Resume ==
    /\ pc \in Down /\ restarts < MaxRestarts
    /\ pc' = "outer" /\ restarts' = restarts + 1
    /\ cp' = SessionTerminal(snap) /\ snap' = cp'
    /\ UNCHANGED <<gate, records, sid, outcome, read>>

Rest ==
    /\ \/ pc = "outer" /\ cp.role = Done
       \/ pc = "outer" /\ cp.role = Reviewer /\ sid = MaxSessions
       \/ pc \in Down /\ restarts = MaxRestarts
    /\ UNCHANGED vars

Complete == \E i \in OpenPending :
    CompleteBack(i) \/ CompleteOut(i) \/ CompleteOutRejected(i) \/ CompleteMark(i)

Routing ==
    \/ WritePending \/ HopBack \/ EndReview \/ HopOut \/ HopOutRejected \/ MarkRoute \/ Complete

Next ==
    \/ Visit \/ StartReview \/ ReviewerFails
    \/ \E captures \in Captures : RecordOutcome(captures)
    \/ \E revision \in Revisions : ReadRevision(revision)
    \/ Routing \/ Crash \/ Resume \/ Rest

Spec == Init /\ [][Next]_vars

\* The loop does not stop by itself inside a route.
FairSpec == Spec /\ WF_vars(Routing)

-----------------------------------------------------------------------------
(* Properties.                                                             *)

TypeOK ==
    /\ gate \in [owner : Roles \ {Reviewer}, next : BOOLEAN]
    /\ snap \in Checkpoints /\ cp \in Checkpoints
    /\ outcomes \in Seq(OutcomeRecords)
    /\ pendings \in Seq(PendingRecords) /\ routes \in Seq(RouteRecords)
    /\ pc \in Steps \cup Down /\ sid \in Nat /\ outcome \in Outcomes \cup {0}
    /\ read \in Revisions /\ restarts \in Nat

Hops == IF gate.owner = Orchestrator THEN 0 ELSE 1

\* At most one outcome waits for its route, and a route is taken once: one
\* intent, each hop committed once, one marker, whoever of two processes
\* finishes it.
RoutedOnce ==
    /\ Cardinality(Unrouted) <= 1
    /\ \A o \in Outcomes :
         /\ Cardinality(PendingsOf(o)) <= 1 /\ Cardinality(RoutesOf(o)) <= 1
         /\ RoutesOf(o) # {} => outcomes[o].back = 1 /\ outcomes[o].out = Hops
         /\ PendingsOf(o) = {} => outcomes[o].back = 0 /\ outcomes[o].out = 0

\* Until the marker is written the durable checkpoint is where the hops left
\* it, no other role is visited and the run does not end: the recovery finds
\* the role it expects.
BridgeIsHeld ==
    \A o \in Unrouted : PendingsOf(o) # {} =>
        snap.role = IF outcomes[o].back = 0 THEN Reviewer
                    ELSE IF outcomes[o].out = 0 THEN Orchestrator ELSE gate.owner

RoutesAreTaken == TypeOK /\ RoutedOnce /\ BridgeIsHeld

\* A phase advances on an approval alone, whose revision was verified before
\* the intent was written and was not read otherwise by the same process;
\* the marker says what the intent said.
AdvancesAreEarned ==
    /\ \A i \in DOMAIN pendings :
         LET p == pendings[i] IN
         p.advances => /\ outcomes[p.outcome].kind = "approve" /\ p.revision = "reviewed"
                       /\ \A v \in outcomes[p.outcome].invalid : v.life < p.life
    /\ \A r \in DOMAIN routes :
         \E i \in PendingsOf(routes[r].outcome) : pendings[i].advances = routes[r].advances

\* A process that finds or writes an intent marks its route, unless it dies
\* or the phase owner has no visit left.
OwnerExhausted ==
    gate.owner \in Workers /\ snap.role = Orchestrator
    /\ snap.visits[gate.owner] >= MaxVisits[gate.owner]

IsPending(o) == o \in Unrouted /\ PendingsOf(o) # {}

PendingIsRouted ==
    \A o \in 1..MaxSessions :
        IsPending(o) ~> ~IsPending(o) \/ pc = "crashed" \/ OwnerExhausted
=============================================================================
