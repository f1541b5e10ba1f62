---------------------------- MODULE ConductorFsm ----------------------------
(***************************************************************************)
(* The guarded finite-state machine of src/core: the pure transition       *)
(* reducer (reduce.ts), the session-lifecycle reducer                      *)
(* (reduce-lifecycle.ts) and the legal-target sets (targets.ts).           *)
(*                                                                         *)
(* A checkpoint keeps what the reducers read and write: the current role,  *)
(* the per-worker visit counters, the pending end request and the active   *)
(* role session.  run_id, manifest_version and updated_at never change a   *)
(* decision and are left out.  A session is its index in the run log, so   *)
(* its role and its file are functions of it; an end request keeps the     *)
(* requesting role.                                                        *)
(***************************************************************************)
EXTENDS Naturals

CONSTANTS
    Orchestrator,    \* the hub role
    Workers,         \* the declared spoke roles
    Done,            \* the terminal state
    None,            \* TypeScript null, for roles
    MaxVisits,       \* [Workers -> Nat], the max_visits of the manifest
    Gated,           \* end_request_roles is not null
    EndRequestRoles  \* the workers that may ask for the end when Gated

ASSUME RoleAssumption ==
    /\ Orchestrator \notin Workers /\ Done \notin Workers /\ None \notin Workers
    /\ Orchestrator # Done /\ Orchestrator # None /\ Done # None

ASSUME PolicyAssumption ==
    /\ MaxVisits \in [Workers -> Nat]
    /\ Gated \in BOOLEAN
    /\ EndRequestRoles \subseteq Workers

Roles == Workers \cup {Orchestrator}
States == Roles \cup {Done}

NoSession == 0

Checkpoints ==
    [role : States, visits : [Workers -> Nat], endReq : Workers \cup {None}, active : Nat]

InitialCheckpoint ==
    [role |-> Orchestrator, visits |-> [w \in Workers |-> 0],
     endReq |-> None, active |-> NoSession]

(***************************************************************************)
(* Machine events.  A role emits a handoff, with or without request_end,   *)
(* or an end; the host alone synthesizes an end with the run_cost_cap      *)
(* authority and the hand-back of an unavailable role.                     *)
(***************************************************************************)
Handoff(target, requestEnd) ==
    [type |-> "handoff", target |-> target, requestEnd |-> requestEnd, authority |-> "role"]

End(authority) ==
    [type |-> "end", target |-> None, requestEnd |-> FALSE, authority |-> authority]

\* What a role can emit, the undeclared target None included.
RoleEvents ==
    [type : {"handoff"}, target : Roles \cup {None}, requestEnd : BOOLEAN, authority : {"role"}]
    \cup {End("role")}

(***************************************************************************)
(* reduce: the reason a pair (checkpoint, event) is rejected with, or      *)
(* "accepted", and the checkpoint after it.                                *)
(***************************************************************************)
\* Mutant: the visit cap compared one too late.
VerdictOffByOne(cp, event) ==
    IF event.type = "end"
    THEN IF event.authority = "role" /\ Gated /\ cp.endReq = None
         THEN "end_request_required"
         ELSE "accepted"
    ELSE IF event.target \notin Workers THEN "illegal_event"
    ELSE IF cp.visits[event.target] > MaxVisits[event.target] THEN "guard_failed"
    ELSE "accepted"

VerdictFromOrchestrator(cp, event) ==
    IF event.type = "end"
    THEN IF event.authority = "role" /\ Gated /\ cp.endReq = None
         THEN "end_request_required"
         ELSE "accepted"
    ELSE IF event.target \notin Workers THEN "illegal_event"
    ELSE IF cp.visits[event.target] >= MaxVisits[event.target] THEN "guard_failed"
    ELSE "accepted"

VerdictFromWorker(cp, event) ==
    IF event.type = "end" \/ event.target # Orchestrator THEN "illegal_event"
    ELSE IF event.requestEnd /\ ~(Gated /\ cp.role \in EndRequestRoles)
    THEN "end_request_unauthorized"
    ELSE "accepted"

Verdict(cp, event) ==
    IF cp.role = Done THEN "illegal_event"
    ELSE IF cp.role = Orchestrator THEN VerdictFromOrchestrator(cp, event)
    ELSE VerdictFromWorker(cp, event)

Accepts(cp, event) == Verdict(cp, event) = "accepted"

AfterOrchestrator(cp, event) ==
    IF event.type = "end"
    THEN [cp EXCEPT !.role = Done, !.endReq = None]
    ELSE [cp EXCEPT !.role = event.target, !.visits[event.target] = @ + 1, !.endReq = None]

\* Mutant: the end request keeps the role it was addressed to.
AfterMisattributedRequest(cp, event) ==
    [cp EXCEPT !.role = Orchestrator,
               !.endReq = IF event.requestEnd THEN event.target ELSE @]

AfterWorker(cp, event) ==
    [cp EXCEPT !.role = Orchestrator,
               !.endReq = IF event.requestEnd THEN cp.role ELSE @]

\* The checkpoint of an accepted event; active is left to the lifecycle.
Advance(cp, event) ==
    IF cp.role = Orchestrator THEN AfterOrchestrator(cp, event) ELSE AfterWorker(cp, event)

\* reduce as a whole: on a rejection the state is unchanged.
Reduce(cp, event) == IF Accepts(cp, event) THEN Advance(cp, event) ELSE cp

(***************************************************************************)
(* reduceLifecycle.  The enabling conditions are the ones whose failure    *)
(* makes the reducer throw ReduceLifecycleError.                           *)
(***************************************************************************)
MayStart(cp, role) == role = cp.role /\ cp.active = NoSession
MayTerminate(cp, session) == session # NoSession /\ cp.active = session

SessionStarted(cp, session) == [cp EXCEPT !.active = session]
SessionTerminal(cp) == [cp EXCEPT !.active = NoSession]

(***************************************************************************)
(* The legal targets a rejection reports back to the role.                 *)
(***************************************************************************)
DeclaredTargets(role) ==
    IF role = Done THEN [handoff |-> {}, end |-> FALSE]
    ELSE IF role = Orchestrator THEN [handoff |-> Workers, end |-> ~Gated]
    ELSE [handoff |-> {Orchestrator}, end |-> FALSE]

\* Mutant: the pending end request is not looked at.
TargetsIgnoringRequest(cp) ==
    LET declared == DeclaredTargets(cp.role) IN
    IF cp.role # Orchestrator THEN declared
    ELSE [handoff |-> {w \in declared.handoff : cp.visits[w] < MaxVisits[w]},
          end |-> declared.end]

AvailableTargets(cp) ==
    LET declared == DeclaredTargets(cp.role) IN
    IF cp.role # Orchestrator THEN declared
    ELSE [handoff |-> {w \in declared.handoff : cp.visits[w] < MaxVisits[w]},
          end |-> declared.end \/ cp.endReq # None]
=============================================================================
