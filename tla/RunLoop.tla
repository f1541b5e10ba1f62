------------------------------ MODULE RunLoop -------------------------------
(***************************************************************************)
(* One conductor run: the orchestration loop of src/host (loop.ts,         *)
(* loop-fallback.ts, loop-session.ts, loop-session-turn.ts,                *)
(* loop-session-accepted.ts, loop-run-cost-cap.ts) over its durable record *)
(* log, with process crashes between any two appends and the resume path   *)
(* (api.ts, api-resume-state.ts).                                          *)
(*                                                                         *)
(* Every append to the log is a step of its own: the pc says which append  *)
(* comes next.  The log is kept as what its readers compute from it: the   *)
(* latest checkpoint_snapshot, the session_started records with their      *)
(* terminals, the transition_accepted records and the cost rollup.         *)
(*                                                                         *)
(* Left out: prompts, seeds, artifacts and evidence (their failures are    *)
(* crashes of the loop here), trajectory and controller sessions, the      *)
(* review gate, the body of the end guard, delegated children, and the     *)
(* records no decision reads back (transition_rejected, model_retry,       *)
(* model_fallback, the session_failed of a fallback that never started).   *)
(* The run cost cap does not change during a run.                          *)
(***************************************************************************)
EXTENDS ConductorFsm, Sequences, FiniteSets

CONSTANTS
    RunCap,          \* max_run_cost_usd
    SessionCap,      \* max_session_cost_usd, of every role
    Models,          \* length of every role's models[] list
    Retries,         \* retries per model
    MaxRecovery,     \* MAX_NO_EMISSION_RECOVERY_PROMPTS
    MaxUsage,        \* bound: the cost one session can reach
    MaxRestarts      \* bound: how often the run is resumed

ASSUME BoundAssumption ==
    /\ RunCap \in Nat /\ SessionCap \in Nat /\ Models \in Nat \ {0} /\ Retries \in Nat
    /\ MaxRecovery \in Nat /\ MaxUsage \in Nat /\ MaxRestarts \in Nat

VARIABLES
    \* The record log.
    snap,      \* the latest checkpoint_snapshot
    sessions,  \* the session_started records, each with its terminals
    accepts,   \* the transition_accepted records
    spent,     \* the cost of the terminals: runCostSoFar
    \* The process that drives the run.
    pc,        \* the next step of the loop, "exited" or "crashed"
    cp,        \* the checkpoint in memory
    visitIx,   \* visitIndexByRole
    attempt,   \* modelIndex and retryAttempt of the role visit
    forced,    \* pendingForcedEnd
    sid,       \* the live session
    usage,     \* capturedUsage of the live session
    recover,   \* noEmissionRecoveryPrompts
    event,     \* the event whose acceptance is being persisted
    why,       \* how the session settled or is about to
    exit,      \* exitReason of the last loop
    restarts   \* resumes so far

durable == <<snap, sessions, accepts, spent>>
turn == <<sid, usage, recover, event, why>>
visit == <<visitIx, attempt, forced>>
life == <<exit, restarts>>
vars == <<durable, pc, cp, visit, turn, life>>

Down == {"exited", "crashed"}

Steps ==
    {"outer", "spawn", "start", "startSnap", "prompt", "failRec", "failSnap",
     "acceptRec", "acceptSnap", "endRec", "endSnap", "capEndRec", "capEndSnap",
     "capRec", "capSnap", "settled", "unavailRec", "unavailSnap",
     "reconcile", "reconcileSnap"}

SessionFailures == {"model_error", "no_emission", "host", "delegation_failed", "end_guard"}
Outcomes == {"none", "done", "advance", "aborted"} \cup SessionFailures
ExitReasons == {"none", "done", "session_failed", "aborted"}

Events == RoleEvents \cup {End("run_cost_cap")}

SessionRecords ==
    [role : Roles, visit : Nat, ends : Nat, fails : Nat, cost : Nat,
     life : Nat, after : Nat]

AcceptRecords ==
    [by : Nat, from : Roles, to : States, authority : {"role", "run_cost_cap"},
     request : BOOLEAN, committed : BOOLEAN]

FirstAttempt == [model |-> 1, retry |-> 0]
FirstIndexes == [r \in Roles |-> 1]

Init ==
    /\ snap = InitialCheckpoint /\ sessions = <<>> /\ accepts = <<>> /\ spent = 0
    /\ pc = "outer" /\ cp = InitialCheckpoint
    /\ visitIx = FirstIndexes /\ attempt = FirstAttempt /\ forced = FALSE
    /\ sid = NoSession /\ usage = 0 /\ recover = 0 /\ event = End("role") /\ why = "none"
    /\ exit = "none" /\ restarts = 0

-----------------------------------------------------------------------------
(* Leaving the process: what it held in memory is gone, the log stays.     *)

ForgetTurn ==
    sid' = NoSession /\ usage' = 0 /\ recover' = 0 /\ event' = End("role") /\ why' = "none"

Forget ==
    /\ cp' = snap /\ visitIx' = FirstIndexes /\ attempt' = FirstAttempt /\ forced' = FALSE
    /\ ForgetTurn
    /\ UNCHANGED <<durable, restarts>>

Leave(reason) == pc' = "exited" /\ exit' = reason /\ Forget

\* The process dies, or something the loop awaits throws past it: the same
\* records are on disk in both cases.
Crash == pc \notin Down /\ pc' = "crashed" /\ exit' = "none" /\ Forget

-----------------------------------------------------------------------------
(* runLoop: the outer loop.                                                *)

AtOuter(next) == pc = "outer" /\ pc' = next /\ UNCHANGED <<durable, cp, forced, visitIx, turn, life>>

LoopDone == pc = "outer" /\ cp.role = Done /\ Leave("done")

ForcedEnd ==
    /\ cp.role # Done /\ forced
    /\ AtOuter("capRec") /\ UNCHANGED attempt

\* Mutant: the deferred end is not looked at before a visit.
BeginVisitUnasked ==
    /\ cp.role # Done
    /\ AtOuter("spawn") /\ attempt' = FirstAttempt

BeginVisit ==
    /\ cp.role # Done /\ ~forced
    /\ AtOuter("spawn") /\ attempt' = FirstAttempt

-----------------------------------------------------------------------------
(* runRoleVisit: spawning the model attempts of a visit.                   *)

Spawn ==
    /\ pc = "spawn" /\ attempt.model <= Models
    /\ pc' = "start"
    /\ UNCHANGED <<durable, cp, visit, turn, life>>

\* A fallback model that cannot start ends the run (the first model's
\* failure throws: Crash).
SpawnFails == pc = "spawn" /\ attempt.model \in 2..Models /\ Leave("session_failed")

\* Mutant: the exhausted hub is not reported.
NoMoreModelsUnreported ==
    pc = "spawn" /\ attempt.model > Models /\ cp.role = Orchestrator /\ UNCHANGED vars

NoMoreModelsAtHub ==
    /\ pc = "spawn" /\ attempt.model > Models /\ cp.role = Orchestrator
    /\ Leave("session_failed")

NoMoreModels ==
    /\ pc = "spawn" /\ attempt.model > Models /\ cp.role # Orchestrator
    /\ pc' = "unavailRec"
    /\ UNCHANGED <<durable, cp, visit, turn, life>>

\* The transition_accepted record of event; the snapshot that follows commits it.
AcceptRecordOf(by, ev) ==
    [by |-> by, from |-> cp.role, to |-> Reduce(cp, ev).role, authority |-> ev.authority,
     request |-> ev.requestEnd, committed |-> FALSE]

CommitLast == accepts' = [accepts EXCEPT ![Len(accepts)].committed = TRUE]

Unavailable == Handoff(Orchestrator, FALSE)

UnavailableRecord ==
    /\ pc = "unavailRec" /\ pc' = "unavailSnap"
    /\ accepts' = Append(accepts, AcceptRecordOf(NoSession, Unavailable))
    /\ UNCHANGED <<snap, sessions, spent, cp, visit, turn, life>>

UnavailableSnapshot ==
    /\ pc = "unavailSnap" /\ pc' = "outer"
    /\ cp' = Reduce(cp, Unavailable) /\ snap' = cp'
    /\ CommitLast
    /\ visitIx' = [visitIx EXCEPT ![cp.role] = @ + 1]
    /\ UNCHANGED <<sessions, spent, attempt, forced, turn, life>>

-----------------------------------------------------------------------------
(* runSession: the bracket of a session.                                   *)

StartRecord ==
    /\ pc = "start" /\ pc' = "startSnap"
    /\ sid' = Len(sessions) + 1
    /\ sessions' = Append(sessions,
         [role |-> cp.role, visit |-> visitIx[cp.role], ends |-> 0, fails |-> 0, cost |-> 0,
          life |-> restarts, after |-> Len(accepts)])
    /\ cp' = SessionStarted(cp, sid')
    /\ UNCHANGED <<snap, accepts, spent, visit, usage, recover, event, why, life>>

StartSnapshot ==
    /\ pc = "startSnap" /\ pc' = "prompt"
    /\ snap' = cp
    /\ UNCHANGED <<sessions, accepts, spent, cp, visit, turn, life>>

-----------------------------------------------------------------------------
(* runSessionTurn: one prompt, and what its end is classified as.  u is    *)
(* the usage captured after the prompt, ev the single valid capture.       *)

Capped(u) == spent + u >= RunCap

\* The per-session cap, looked at on every turn_end of the session: it sets
\* the terminal reason before the loop sees the capture.
InBudget(u) == u < SessionCap

\* The worker-deferral guard: the cap is noticed while a worker is current.
Deferred(ev, u) == cp.role # Orchestrator /\ ev.type = "handoff" /\ Capped(u)

Prompted(next, u) ==
    /\ pc = "prompt" /\ pc' = next
    /\ u >= usage /\ usage' = u
    /\ UNCHANGED <<durable, cp, visitIx, attempt, sid, life>>

\* The operator's abort, before the prompt or while it runs.
UserAbort(u) ==
    /\ Prompted("failRec", u)
    /\ why' = "aborted"
    /\ UNCHANGED <<recover, event, forced>>

NoEmissionRecovery(u) ==
    /\ recover < MaxRecovery /\ InBudget(u)
    /\ Prompted("prompt", u)
    /\ recover' = recover + 1
    /\ UNCHANGED <<event, why, forced>>

\* No single valid capture: the host's reason, or the breach itself.
Breach(reason, u) ==
    /\ reason = "no_emission" => recover = MaxRecovery
    /\ reason \in {"model_error", "no_emission"} => InBudget(u)
    /\ reason # "end_guard"
    /\ Prompted("failRec", u)
    /\ why' = reason
    /\ UNCHANGED <<recover, event, forced>>

\* A capture of the orchestrator at the cap, or a controller's wait stopped
\* by the host at the cap, closes the run instead.
CapClose(u) ==
    /\ cp.role = Orchestrator /\ Capped(u)
    /\ Prompted("capEndRec", u)
    /\ why' = "done"
    /\ UNCHANGED <<recover, event, forced>>

AtHubCap(u) == cp.role = Orchestrator /\ Capped(u)

\* A host terminal reason supersedes a valid capture, after the cap was looked at.
Superseded(reason, ev, u) ==
    /\ reason \in {"model_error", "host", "delegation_failed"}
    /\ reason = "model_error" => InBudget(u)
    /\ AtHubCap(u) => reason = "delegation_failed"
    /\ Prompted("failRec", u)
    /\ why' = reason
    /\ forced' = (forced \/ (Deferred(ev, u) /\ reason # "delegation_failed"))
    /\ UNCHANGED <<recover, event>>

\* The capture is discarded and the same session is prompted again: children
\* are pending, guidance arrived before an end, the envelope needs a
\* correction or the end guard did not pass; or the reducer rejects it.
Reprompt(ev, u) ==
    /\ ~AtHubCap(u) /\ InBudget(u)
    /\ Prompted("prompt", u)
    /\ forced' = (forced \/ Deferred(ev, u))
    /\ UNCHANGED <<recover, event, why>>

Reject(ev, u) == ~Accepts(cp, ev) /\ Reprompt(ev, u)

\* The end guard of an acceptable end is exhausted, its cleanup is
\* unconfirmed, or the operator aborts it.
EndGuardFails(u) ==
    /\ cp.role = Orchestrator /\ Accepts(cp, End("role"))
    /\ ~AtHubCap(u) /\ InBudget(u)
    /\ Prompted("failRec", u)
    /\ why' \in {"end_guard", "aborted"}
    /\ UNCHANGED <<recover, event, forced>>

\* Mutant: the session is ended before its transition is persisted.
AcceptEndsFirst(ev, u) ==
    /\ ~AtHubCap(u) /\ InBudget(u) /\ Accepts(cp, ev)
    /\ Prompted("endRec", u)
    /\ event' = ev
    /\ forced' = (forced \/ Deferred(ev, u))
    /\ UNCHANGED <<recover, why>>

Accept(ev, u) ==
    /\ ~AtHubCap(u) /\ InBudget(u) /\ Accepts(cp, ev)
    /\ Prompted("acceptRec", u)
    /\ event' = ev
    /\ forced' = (forced \/ Deferred(ev, u))
    /\ UNCHANGED <<recover, why>>

Turn ==
    \E u \in 0..MaxUsage :
        \/ UserAbort(u) \/ NoEmissionRecovery(u) \/ CapClose(u) \/ EndGuardFails(u)
        \/ \E reason \in SessionFailures : Breach(reason, u)
        \/ \E ev \in RoleEvents :
            \/ Reprompt(ev, u) \/ Reject(ev, u) \/ Accept(ev, u)
            \/ \E reason \in SessionFailures : Superseded(reason, ev, u)

-----------------------------------------------------------------------------
(* The terminals.  A terminal record carries the captured usage and ends   *)
(* the session in memory; the snapshot after it clears it on disk.         *)

Terminated(session, kind, cost) ==
    [session EXCEPT !.ends = IF kind = "session_ended" THEN @ + 1 ELSE @,
                    !.fails = IF kind = "session_failed" THEN @ + 1 ELSE @,
                    !.cost = cost]

TerminalRecord(here, next, kind) ==
    /\ pc = here /\ pc' = next
    /\ sessions' = [sessions EXCEPT ![sid] = Terminated(@, kind, usage)]
    /\ spent' = spent + usage
    /\ cp' = SessionTerminal(cp)
    /\ UNCHANGED <<snap, accepts, visit, turn, life>>

TerminalSnapshot(here, next) ==
    /\ pc = here /\ pc' = next
    /\ snap' = cp
    /\ UNCHANGED <<sessions, accepts, spent, cp, visit, sid, usage, recover, event, life>>

FailRecord == TerminalRecord("failRec", "failSnap", "session_failed")
FailSnapshot == TerminalSnapshot("failSnap", "settled") /\ UNCHANGED why

\* persistAcceptedTransition: the accepted record, its snapshot, then the
\* session's end and the snapshot that clears it.
AcceptRecord ==
    /\ pc = "acceptRec" /\ pc' = "acceptSnap"
    /\ accepts' = Append(accepts, AcceptRecordOf(sid, event))
    /\ UNCHANGED <<snap, sessions, spent, cp, visit, turn, life>>

AcceptSnapshot ==
    /\ pc = "acceptSnap" /\ pc' = "endRec"
    /\ cp' = Reduce(cp, event) /\ snap' = cp'
    /\ CommitLast
    /\ UNCHANGED <<sessions, spent, visit, turn, life>>

EndRecord == TerminalRecord("endRec", "endSnap", "session_ended")

EndSnapshot ==
    /\ TerminalSnapshot("endSnap", "settled")
    /\ why' = IF cp.role = Done THEN "done" ELSE "advance"

\* forceRunCostCapEnd: with a live session its terminal comes first.
CapEndRecord == TerminalRecord("capEndRec", "capEndSnap", "session_ended")
CapEndSnapshot == TerminalSnapshot("capEndSnap", "capRec") /\ UNCHANGED why

CapRecord ==
    /\ pc = "capRec" /\ pc' = "capSnap"
    /\ accepts' = Append(accepts, AcceptRecordOf(NoSession, End("run_cost_cap")))
    /\ UNCHANGED <<snap, sessions, spent, cp, visit, turn, life>>

CapSnapshot ==
    /\ pc = "capSnap" /\ pc' = "settled"
    /\ cp' = Reduce(cp, End("run_cost_cap")) /\ snap' = cp'
    /\ CommitLast
    /\ why' = "done"
    /\ UNCHANGED <<sessions, spent, visit, sid, usage, recover, event, life>>

-----------------------------------------------------------------------------
(* After the session: finalizeSession, the fallback decision, the outcome. *)

\* A retained context that cannot be captured, disposed or committed.
FinalizeFails == pc = "settled" /\ sid # NoSession /\ Leave("session_failed")

RunEnds ==
    /\ pc = "settled"
    /\ \/ why \in {"done", "aborted"} /\ Leave(why)
       \/ why \in SessionFailures \ {"model_error"} /\ Leave("session_failed")
       \/ why = "model_error" /\ spent >= RunCap /\ Leave("session_failed")

NextAttempt(next) ==
    /\ pc = "settled" /\ why = "model_error" /\ spent < RunCap
    /\ pc' = "spawn"
    /\ attempt' = next
    /\ ForgetTurn
    /\ UNCHANGED <<durable, cp, visitIx, forced, life>>

\* Mutant: one retry too many.
RetryOffByOne ==
    /\ attempt.retry <= Retries
    /\ NextAttempt([attempt EXCEPT !.retry = @ + 1])

ModelRetry ==
    /\ attempt.retry < Retries
    /\ NextAttempt([attempt EXCEPT !.retry = @ + 1])

ModelFallback ==
    /\ attempt.retry = Retries
    /\ NextAttempt([model |-> attempt.model + 1, retry |-> 0])

NextVisit ==
    /\ pc = "settled" /\ why = "advance"
    /\ pc' = "outer"
    /\ visitIx' = [visitIx EXCEPT ![sessions[sid].role] = @ + 1]
    /\ ForgetTurn
    /\ UNCHANGED <<durable, cp, attempt, forced, life>>

-----------------------------------------------------------------------------
(* resumeRun: the latest snapshot, reconcileCrash, nextVisitIndexes.       *)

\* Mutant: a resumed run always starts at the hub.
ResumeAtHub ==
    /\ pc \in Down /\ restarts < MaxRestarts
    /\ pc' = "reconcile" /\ exit' = "none"
    /\ restarts' = restarts + 1
    /\ cp' = [snap EXCEPT !.role = Orchestrator]
    /\ UNCHANGED <<durable, visit, turn>>

Resume ==
    /\ pc \in Down /\ restarts < MaxRestarts
    /\ pc' = "reconcile" /\ exit' = "none"
    /\ restarts' = restarts + 1
    /\ cp' = snap
    /\ UNCHANGED <<durable, visit, turn>>

\* Mutant: only a session_ended record counts as a terminal.
HasEnded(s) == sessions[s].ends > 0

HasTerminal(s) == sessions[s].ends + sessions[s].fails > 0

\* 1 + the highest index a session_started record of the role carries.
NextVisitIndex(r) ==
    LET used == {0} \cup {sessions[s].visit : s \in {s \in DOMAIN sessions : sessions[s].role = r}}
    IN  1 + CHOOSE top \in used : \A v \in used : v <= top

NextVisitIndexes == [r \in Roles |-> NextVisitIndex(r)]

EnterLoop == pc' = "outer" /\ visitIx' = NextVisitIndexes

ReconcileSettled ==
    /\ pc = "reconcile" /\ cp.active = NoSession
    /\ EnterLoop
    /\ UNCHANGED <<durable, cp, attempt, forced, turn, life>>

\* Mutant: the terminated session stays the active one.
ReconcileKeepsActive ==
    /\ pc = "reconcile" /\ cp.active # NoSession /\ HasTerminal(cp.active)
    /\ pc' = "reconcileSnap"
    /\ UNCHANGED <<durable, cp, visit, turn, life>>

ReconcileTerminated ==
    /\ pc = "reconcile" /\ cp.active # NoSession /\ HasTerminal(cp.active)
    /\ pc' = "reconcileSnap"
    /\ cp' = SessionTerminal(cp)
    /\ UNCHANGED <<durable, visit, turn, life>>

\* The crashed session's real cost is unknown: its terminal carries zero.
ReconcileCrashed ==
    /\ pc = "reconcile" /\ cp.active # NoSession /\ ~HasTerminal(cp.active)
    /\ pc' = "reconcileSnap"
    /\ sessions' = [sessions EXCEPT ![cp.active] = Terminated(@, "session_failed", 0)]
    /\ cp' = SessionTerminal(cp)
    /\ UNCHANGED <<snap, accepts, spent, visit, turn, life>>

ReconcileSnapshot ==
    /\ pc = "reconcileSnap"
    /\ snap' = cp
    /\ EnterLoop
    /\ UNCHANGED <<sessions, accepts, spent, cp, attempt, forced, turn, life>>

-----------------------------------------------------------------------------
\* Every step of the loop itself, the agent's turns excluded.
LoopStep ==
    \/ LoopDone \/ ForcedEnd \/ BeginVisit
    \/ Spawn \/ SpawnFails \/ NoMoreModelsAtHub \/ NoMoreModels
    \/ UnavailableRecord \/ UnavailableSnapshot
    \/ StartRecord \/ StartSnapshot
    \/ FailRecord \/ FailSnapshot
    \/ AcceptRecord \/ AcceptSnapshot \/ EndRecord \/ EndSnapshot
    \/ CapEndRecord \/ CapEndSnapshot \/ CapRecord \/ CapSnapshot
    \/ FinalizeFails \/ RunEnds \/ ModelRetry \/ ModelFallback \/ NextVisit
    \/ ReconcileSettled \/ ReconcileTerminated \/ ReconcileCrashed \/ ReconcileSnapshot

\* Nobody resumes the run any more.
Abandoned == pc \in Down /\ restarts = MaxRestarts /\ UNCHANGED vars

Next == LoopStep \/ Turn \/ Crash \/ Resume \/ Abandoned

Spec == Init /\ [][Next]_vars

-----------------------------------------------------------------------------
(* Properties.                                                             *)

TypeOK ==
    /\ snap \in Checkpoints /\ cp \in Checkpoints
    /\ sessions \in Seq(SessionRecords) /\ accepts \in Seq(AcceptRecords)
    /\ spent \in Nat
    /\ pc \in Steps \cup Down
    /\ visitIx \in [Roles -> Nat]
    /\ attempt \in [model : Nat, retry : Nat]
    /\ forced \in BOOLEAN
    /\ sid \in Nat /\ usage \in Nat /\ recover \in Nat
    /\ event \in Events /\ why \in Outcomes
    /\ exit \in ExitReasons /\ restarts \in Nat

Sessions == DOMAIN sessions
AcceptsBy(s) == {i \in DOMAIN accepts : accepts[i].by = s}
DispatchesTo(w) == {i \in DOMAIN accepts : accepts[i].to = w}
Open(s) == sessions[s].ends + sessions[s].fails = 0

\* The errors the loop and the reducers throw on host logic bugs
\* (ReduceInvariantError, ReduceLifecycleError and the two defensive throws
\* at the top of runLoop) are unreachable, after a crash and a resume too.
ReducersNeverThrow ==
    /\ pc = "outer" => cp.active = NoSession /\ (forced => cp.role = Orchestrator)
    /\ pc = "start" => MayStart(cp, cp.role)
    /\ pc \in {"failRec", "endRec", "capEndRec"} => MayTerminate(cp, sid)
    /\ pc \in {"prompt", "acceptRec"} => sessions[sid].role = cp.role
    /\ pc = "acceptRec" => Accepts(cp, event)
    /\ pc = "unavailRec" => Accepts(cp, Unavailable)
    /\ pc = "capRec" => Accepts(cp, End("run_cost_cap"))

\* availableTargets and reduce decide legality separately: what a rejection
\* reports back to the role as available is what the reducer would accept.
ReportedTargetsAreLegal ==
    /\ \A r \in Roles : r \in AvailableTargets(cp).handoff <=> Accepts(cp, Handoff(r, FALSE))
    /\ AvailableTargets(cp).end <=> Accepts(cp, End("role"))

\* session_ended and session_failed are mutually exclusive terminals of a
\* role invocation, and neither is ever recorded twice, although the
\* reconciliation of a crash writes terminals for sessions it did not run.
TerminatesOnce == \A s \in Sessions : sessions[s].ends + sessions[s].fails <= 1

\* A session commits at most one transition, and no two transition_accepted
\* records ever name the same session: a crash never replays one.
OneTransitionPerSession == \A s \in Sessions : Cardinality(AcceptsBy(s)) <= 1

\* A session_ended record tells its reader that control moved: its
\* transition is committed, or the run cost cap is closing the run.
EndedSessionsHandedOver ==
    \A s \in Sessions : sessions[s].ends > 0 =>
        \/ \E i \in AcceptsBy(s) : accepts[i].committed
        \/ sessions[s].role = Orchestrator /\ spent >= RunCap

\* The visit counters of the durable checkpoint are the committed dispatch
\* records; a crash between the record and its snapshot leaves a record
\* that counts for nothing, and each process leaves at most one.
VisitsMatchDispatches ==
    \A w \in Workers :
        /\ snap.visits[w] = Cardinality({i \in DispatchesTo(w) : accepts[i].committed})
        /\ Cardinality(DispatchesTo(w)) <= MaxVisits[w] + restarts

\* A (role, visit_index) pair names one visit: sessions that share it are
\* model attempts of one process between two transitions, never a visit of
\* before a restart and one of after it.
VisitIndexesAreFresh ==
    \A s, t \in Sessions :
        sessions[s].role = sessions[t].role /\ sessions[s].visit = sessions[t].visit
        => sessions[s].life = sessions[t].life /\ sessions[s].after = sessions[t].after

\* A visit runs at most one session per model and retry.
AttemptsAreBounded ==
    \A s \in Sessions :
        Cardinality({t \in Sessions : /\ sessions[t].role = sessions[s].role
                                      /\ sessions[t].visit = sessions[s].visit})
        <= Models * (Retries + 1)

\* A session without a terminal is the live one, or the one the next resume
\* reconciles, or a start whose snapshot a crash prevented; there is at most
\* one of these per crash.
OnlyCrashesLoseSessions ==
    Cardinality({s \in Sessions : Open(s) /\ s # sid /\ s # snap.active})
    <= restarts + (IF pc = "crashed" THEN 1 ELSE 0)

\* The log tells the run as it was, wherever a crash fell between two of its
\* appends: what a transition, a session, a visit counter and a visit index
\* record agrees with what the others record.
LogTellsTheRun ==
    /\ OneTransitionPerSession
    /\ EndedSessionsHandedOver
    /\ VisitsMatchDispatches
    /\ VisitIndexesAreFresh
    /\ OnlyCrashesLoseSessions

\* Once the checkpoint is at done nothing is started or accepted any more,
\* however often the run is resumed.
DoneIsFinal ==
    [][snap.role = Done => /\ Len(sessions') = Len(sessions)
                           /\ Len(accepts') = Len(accepts)]_vars

\* Once a process has deferred the forced end it starts no other session:
\* the worker's hand-back is followed by the synthesized end.
DeferredEndStartsNothing == [][forced => Len(sessions') = Len(sessions)]_vars

\* The durable checkpoints implement the abstract run: crashes, resumes and
\* the in-memory checkpoint that runs ahead of the log never show.
Abstract ==
    INSTANCE HubRun WITH role <- snap.role, visits <- snap.visits, asker <- snap.endReq

Promise == Abstract!Spec

-----------------------------------------------------------------------------
(* The inductive invariant of the proofs in RunLoopProofs.                 *)

\* The process holds a live session; it has just lost it or has none.
Live == {"startSnap", "prompt", "failRec", "acceptRec", "acceptSnap", "endRec", "capEndRec"}
Between == (Steps \ Live) \ {"reconcile"}

\* A session of the role in control is about to run or runs.
InVisit ==
    {"spawn", "start", "startSnap", "prompt", "failRec", "failSnap", "acceptRec", "acceptSnap",
     "unavailRec", "unavailSnap"}

\* The checkpoint in memory and the one on disk differ in the active session only.
SameControl == cp.role = snap.role /\ cp.visits = snap.visits /\ cp.endReq = snap.endReq

LiveSession ==
    /\ pc \in Live => /\ sid \in Sessions /\ cp.active = sid /\ Open(sid)
                      /\ pc # "endRec" => sessions[sid].role = cp.role
    /\ pc \in Between => cp.active = NoSession
    /\ pc \in Down \cup {"reconcile"} => cp = snap
    /\ snap.active \in Sessions \cup {NoSession}

RoleInControl ==
    /\ pc \in InVisit => cp.role \in Roles
    /\ pc \in {"unavailRec", "unavailSnap"} => cp.role \in Workers
    /\ pc \in {"failRec", "failSnap"} => why # "advance"
    /\ pc = "settled" /\ why = "model_error" => cp.role \in Roles

PendingCommit ==
    pc \in {"acceptRec", "acceptSnap"} =>
        /\ Accepts(cp, event) /\ event \in RoleEvents
        /\ cp.role = Orchestrator => ~Capped(usage)

PendingCapClose ==
    /\ pc = "capEndRec" => cp.role = Orchestrator /\ Capped(usage)
    /\ pc \in {"capEndSnap", "capRec", "capSnap"} => cp.role = Orchestrator /\ spent >= RunCap

DeferralHolds ==
    forced =>
        /\ pc \in {"prompt", "failRec", "acceptRec", "acceptSnap"} =>
             cp.role \in Workers /\ Capped(usage)
        /\ pc = "endRec" => cp.role = Orchestrator /\ Capped(usage)
        /\ pc \in {"failSnap", "endSnap", "settled"} => spent >= RunCap
        /\ pc \in {"endSnap", "outer"} => cp.role = Orchestrator
        /\ pc = "settled" /\ why = "advance" => cp.role = Orchestrator
        /\ pc = "outer" => spent >= RunCap
        /\ pc \in {"prompt", "failRec", "failSnap", "acceptRec", "acceptSnap", "endRec",
                   "endSnap", "settled", "outer", "capRec", "capSnap"}

IndInv ==
    /\ TypeOK /\ SameControl /\ LiveSession /\ RoleInControl
    /\ PendingCommit /\ PendingCapClose /\ DeferralHolds /\ TerminatesOnce

-----------------------------------------------------------------------------
\* The loop keeps running, and a role that is prompted again and again
\* emits, in the end, an event the machine can act on.
Fairness ==
    /\ WF_vars(LoopStep)
    /\ SF_vars(\E u \in 0..MaxUsage : CapClose(u) \/ \E ev \in RoleEvents : Accept(ev, u))

FairSpec == Spec /\ Fairness

\* A run always comes to rest: the visit caps, the model lists and the retry
\* counts leave no infinite run of dispatches, fallbacks or retries.
ComesToRest == []<>(pc \in Down)
=============================================================================
