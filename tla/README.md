# pi-conductor in TLA+

Models, model-checking configurations and machine-checked proofs about
pi-conductor, the program that drives a hub-and-spoke team of language-model
roles: one orchestrator and a set of workers that hand control back and forth,
under a guarded finite-state machine whose every transition is written to an
append-only record log before it takes effect.

Everything here is translated from the source. Line numbers refer to the
repository at the commit these files sit beside.

## 1. The system and its parts

| Part | State it keeps | Operations | Talks to |
|---|---|---|---|
| Core machine (`src/core`) | none: a checkpoint goes in and comes out | `reduce`, `reduceLifecycle`, `declaredTargets`, `availableTargets` | called by the run loop and the resume path |
| Run loop (`src/host/loop*.ts`) | the checkpoint in memory, visit indexes, model and retry counters, the deferred forced end, the live session | outer loop, role visit, session bracket, turn classification, persistence of an accepted transition, cap close | reducers, record log, host (spawn, dispose), run control, end guard, delegation |
| Resume (`src/host/api*.ts`) | execution lease of the run: the loopback port it listens on | `startRun`, `resumeRun`, `reconcileCrash`, `reconcileLostChildren`, visit indexes from the log | record log, run loop |
| Record log (`src/persistence/log.ts`, `src/host/log-file.ts`) | append-only JSONL, one file per run | append, latest checkpoint, reconstruction of every timeline | everything durable |
| Costs (`src/cost`, `src/host/cost.ts`) | usage of a session, terminal reason | accumulate, cap checks, roll-up | event handler, run loop |
| Run control (`src/host/run-control.ts`, `run-handle.ts`) | guidance mailbox, active session, dispatched steers, abort reason | `steer`, `followUp`, seal, reclaim, release, drain, abort, close | the operator's calls race the loop and the session's callbacks |
| Session seam (`src/host/seam.ts`, `tools.ts`, `src/seam`) | capture buffer, seal, validation failures | `handoff` and `end` tools, `validateEmission`, reset | the model calls the tools, the loop reads the buffer |
| End guard (`end-guard-loop.ts`, `end-guard-runner.ts`, `src/persistence/end-guard.ts`) | durable attempts per end request, the one running process | attempt, budget, abort, resume gate | run loop, supervised processes |
| Review gates (`review-loop.ts`, `review-recovery.ts`, `review-routing.ts`) | review records, decision captures | decision, synthetic hops, recovery | run loop, reducers |
| Delegation (`src/host/delegation`) | per parent invocation: submissions, queue, running children, waiters | submit, drain, wait, cancel, close, replay | parent's tools, child sessions, record log, settlement before a transition |
| Tool execution (`src/host/execution`) | attempts with their records, timeout budget, supervised process groups | run, deadline, abort, close, reconcile | tools of roles and children, resume gate |
| Sandbox (`src/host/execution/sandbox`) | admission metadata, runtime, projections, output spools | probe, prepare, launch, observe, retrieve | tool execution |
| Controller (`src/host/controller`) | activation fence, action receipts, effect journal, artifacts, source workspaces | decision, dispatch, effect broker, recovery, publication | run loop (as a non-SDK role session), delegation, Git and remote effects |
| Isolated roles (`src/host/rpc`, `isolated-role-spawn.ts`) | JSONL child process, pending turn, bridges | prompt, steer, abort, delegate and execution bridges | run loop, child process |
| Orchestrator context (`orchestrator-context-*.ts`) | epochs and boundaries of the retained conversation | prepare, start, commit, capture, restore, compact | session bracket, record log |
| Workspaces and artifacts (`src/host/workspace`, `artifacts`) | snapshots, worktrees, collected artifacts, delivery route | provision, confine, collect, route | session bracket |
| Continuity, packets and enrichment (`src/persistence/continuity*`, `phase-work-packet*`, `work-observation*`, `src/host/context-enrichment`, `jev-assessment`, `delegation-advisory`, `handoff-evidence`) | records derived from other records; one HTTP attempt per transition | materialize, rank, render, advise | seeds of the next role |
| Manifest (`src/manifest`) | none | parse, validate, pin, derive the machine definition | start and resume |
| Role turns and telemetry (`role-turn*`, `file-mutation`, `reconstruction*`) | counters and bounds | capture, validate | record log |
| Host assembly, stub host, CLI and extension (`production-host*`, `stub-*`, `src/bin`, `src/extension`) | wiring, UI slots | construct, notify | all of the above |

### What is hard in it, and what makes a part correct

* **Crash between two appends.** A transition is four appends (accepted,
  snapshot, session terminal, snapshot) with awaits in between. Nothing is
  atomic across them; the resume path has only the log. Correct: one terminal
  per session, no transition twice, visit counters equal to the committed
  dispatches, a run that is done stays done.
* **The in-memory checkpoint runs ahead of the durable one.** Correct: what a
  reader of the log sees is a legal run of the abstract machine.
* **Host logic errors throw.** The reducers throw when a session is started
  twice or a terminal does not match. Correct: no order of crashes, resumes,
  caps and fallbacks reaches such a call.
* **The run cost cap.** Noticed while a worker is current it must be deferred
  one hop. Correct: nothing is dispatched once the cap is reached.
* **Retries, fallbacks, recovery prompts, re-prompts.** Correct: each is
  bounded, and the run comes to rest.
* **The operator races the loop.** Guidance and aborts arrive at any instant
  between a seal, a reset, a commit and the close of the run. Correct: guidance
  is delivered once, in order, and an abort reaches whatever runs next.
* **Children race their parent.** Submission, completion, cancellation and
  closing interleave. Correct: the allowance and the parallelism are respected,
  every accepted child is settled once, closing waits for all of them, no
  waiter is left behind.
* **Processes outlive what is known about them.** Deadlines, aborts and closes
  race the end of a process. Correct: one terminal per execution, no new
  execution after a fatal one, resume refuses unresolved ownership.

PROJECT.json lists each hazard with the line where it bites and the property
that covers it.

## 2. Modules

| Module | Models | Kind |
|---|---|---|
| `ConductorFsm` | `src/core`: both reducers, their rejections and the calls on which they throw, legal targets | operators on checkpoints |
| `HubRun` | what a run promises to a reader of its checkpoints | abstract specification |
| `RunLoop` | the loop of one run over its log, with crashes, exits and the resume path | detailed specification, implements `HubRun` |
| `RunClaims` | a comment that `RunLoop` contradicts | property |
| `RunLoopProofs` | theorems about `RunLoop` | proofs |
| `RunControl` | the operator's mailbox, steering, seal, reclaim, abort, and the loop steps that use them | specification |
| `DelegationScheduler` | the scheduler of a parent's delegated children, its replacement, and the reconciliation of a resume | specification |
| `SessionSeam` | one role session between the SDK agent and the loop: events, cap, emission tools, seal, what the loop makes of them | specification |
| `SessionSeamProofs` | theorems about `SessionSeam` | proofs |
| `ToolExecution` | the executable tools of a role: admission, deadline, abort, close, record, and the gate of a resume | specification |
| `EndGuard` | the command that must pass before the run ends: attempts, budget, epochs, abort | specification |
| `ControllerEffects` | the writes of a controller: lanes, journal, receipts, recovery | specification |
| `ReviewRoute` | the outcome of a review and its way through the hub to the phase owner, with recovery | specification |
| `RunLease` | the lease of a run by loopback ports | specification |
| `DelegationProofs`, `ToolExecutionProofs`, `EndGuardProofs`, `ControllerEffectsProofs`, `ReviewRouteProofs` | theorems about the module each is named after (`DelegationProofs`: `DelegationScheduler`) | proofs |
| `HostProofs` | theorems about `RunControl` and `RunLease`, which share no state | proofs |
| `MCRunLoop`, `MCRunControl`, `MCDelegation`, `MCSessionSeam`, `MCToolExecution`, `MCEndGuard`, `MCReviewRoute`, `MCControllerEffects`, `MCRunLease` | instances | model checking |

How they fit. `RunLoop` is the whole run at the level of its log; a turn of a
session, the end guard, the settlement of children and the lease are single
choices in it. `SessionSeam` says how a turn comes to its outcome, `RunControl`
what the operator can do beside it, `ReviewRoute` what becomes of a reviewer's
turn, `DelegationScheduler` what settling the
children means, `EndGuard` what stands behind an accepted end, `ToolExecution`
and `ControllerEffects` what happens inside the calls of a turn, and `RunLease`
why one `RunLoop` at a time works on a log, and when that fails.

### RunLoop

The log is kept as what its readers compute from it: `snap` is the latest
`checkpoint_snapshot`, `sessions` the `session_started` records with the number
of terminals written for each, `accepts` the `transition_accepted` records and
`spent` the cost roll-up. The variables of the process (`cp`, `visitIx`,
`attempt`, `forced`, the live session and its turn) are lost by `Crash`, by
every exit, and by anything thrown past the loop; only the log survives, and
`Resume` starts from it. Every append is an action of its own, and `pc` names
the next one, so a crash can fall between any two. A turn of a role is one of
its outcomes (`UserAbort`, `NoEmissionRecovery`, `Breach`, `CapClose`,
`Superseded`, `Reprompt`, `EndGuardFails`, `Reject`, `Accept`), in the order in
which `loop-session-turn.ts` looks at them. The mutable checkpoint in memory
runs ahead of `snap` between an append and its snapshot, as it does in the code.

`RunLoop` INSTANCEs `HubRun` with `role`, `visits` and `asker` read from
`snap` and `spent` from the log: the property `Promise` says that the durable
checkpoints alone are a legal run of the hub, whatever happened underneath.

### RunControl

The loop is reduced to the awaits between which an operator's call can fall
(`pc`); the mailbox is a bag of message ids because `takePendingGuidance` sorts
what it drains. `queue` is the steering queue of the SDK and `known` the copy
that `clearQueue` returns; with `remote` every session of the run is in a child process,
steers answer late (`flying`) and clearing the host's copy does not empty the
child's queue. `cause` is a terminal reason other than the operator's on the live
session: an abort that finds one (`AbortMarks`) leaves no mark, and a retry may
clear it again. `heard`, `refused`, `missed` and `decided` are history: what a
role was shown, what the caller was told had failed, which sessions an abort left
unmarked, and how many messages had been sent when a role's end was decided.

### DelegationScheduler

`owner` and `terminal` are the log; everything else is the memory of one
`DelegationScheduler` object and dies with the process. An append can succeed,
throw without having written, or throw after having written, and the log refuses
a second terminal of a child (`persistence/delegation-task.ts`). `RunEnds` has
the three ways in which `run` can end (a result, a `DelegationChildSafetyError`,
anything else), each with the outcome of its append. `close` is cut at its
awaits: the admission queue, each queued child, the running ones. `live` is not
cleared when a scope is replaced, so `LimitsHold` speaks about the children that
really run and not about the counter of the newest scheduler.

### SessionSeam

The agent is the SDK's, and its steps are what the code relies on: messages
end, their tools run beside one another, a failed message is retried or not, a
prompt can throw, and an abort can deliver the last message a second time.
`Handled` is the event handler with its order of usage, cap and provider error;
`ReasonAfter` is the precedence of `setTerminalReason`; `Emits` and
`LetsThrough` are the checks of the emission tools and of the wrapper around all
the others. The loop's steps are the ones of `runSessionTurn` after a prompt, in
their order. `spent`, `faults`, `asked` and `late` are history: what was really
charged, which fatal errors the tools reported, whether the operator aborted,
and whether a tool ran that should not have.

### ToolExecution

`log` is what the records say of an execution and `op` what its processes really
do; `att` is the attempt in memory, with everything that has woken its race. The
race of the operation against the deadline, the abort signal and the close is
continued in one step (`Return`, `Fail`, `Settle`) whose append can be written,
lost, or written and thrown. Sessions of a visit follow one another on one log,
a crash leaves processes behind, and a resume is refused while the log has an
execution nobody knows the end of, until the operator has reconciled it.

### EndGuard

`attempts` are the durable records, `proc` the processes they started. The turn
is cut at the awaits of the guard and of the settling of the children (`settling`),
so aborts and the cost cap fall before, beside and after the guard, and between an
end that is decided and its record, where nobody looks at them: the loop asks for
the abort before it settles the children and not after
(`loop-session-turn.ts:169`, `:331`, `:538`). `mark` is what the abort left on the
session. One that left none meets the guard of a role that goes on: its runner is
closed, the attempt is rejected with its start on disk, and its cleanup counts as
unconfirmed. The budget is counted from the log as `endGuardFailureCount` does;
`epoch` is the reset that a resume of an ungated run writes once per exhaustion.

### ReviewRoute

`outcomes`, `pendings` and `routes` are the review records, `snap` the latest
snapshot. It EXTENDS `ConductorFsm`, so both hops go through `reduce` and can be
refused by it. `completeReview` is one action per append, and
`resumePendingReviewRoute` is read off the checkpoint as the code does: whichever
hop the role in control shows to be missing is taken next. `back` and `out` count
the hops whose snapshot was written, and `life` numbers the processes: they are
history. A visit of another role is one step, because `RunLoop` has its inside.

### ControllerEffects

The journal is `intents`, `prepared`, `settlement` and the receipts of actions;
`ref` and `alive` are the world. Lanes are queues of operations in memory, and
the journal's own rule keeps them across processes. A write can land and its
answer be lost, an observation can come before or after it, and recovery asks
the world about every operation it finds unsettled.

### RunLease

`port` is what the kernel knows. A claim listens on a candidate, probes whoever
keeps it when it is busy, and goes on to the next when it is not told the run's
identity. Other programs come and go, and a holder can be too slow to answer.

Properties with several parts. So that a run asks one question once, some
properties are conjunctions of named parts: `RunLoop!LogTellsTheRun`,
`RunControl!GuidanceIsKept`, `DelegationScheduler!LimitsHold` and
`EndsAreDurable`, `ToolExecution!LogIsTrue` and `NothingGoesUnnoticed`,
`EndGuard!AttemptsAreLegal`, `ReviewRoute!RoutesAreTaken`,
`ControllerEffects!RecordsAreTrue`,
`SessionSeam!CostIsCharged`. Each part has a name and a comment of its own.

## 3. Runs

`tlc -config <cfg> <module>`; each finishes in a minute or two with two workers.

| Run | Instance | Asks |
|---|---|---|
| `MCCrash` | one worker with two visits and the authority to ask for the end, run and session caps of one, two resumes; 1.9 million states | Is the log consistent with itself when a crash falls between any two appends; is done final; are the reducers ever called where they throw; is the cap obeyed, deferral included; is what is on disk a run of `HubRun`? |
| `MCFallback` | two models with a retry each, recovery prompts, no crash | Is a visit bounded by its model list, and does the run come to rest? |
| `MCMailbox` | three messages, three sessions of the shared SDK, or two and two in child processes; 912,172 states | Is a message heard, refused or where a role will find it, except what lands in a released child and what the mailbox of a run that is over holds (both); is none in two places, and does a sealed role hear nothing more (shared SDK); is the mailbox drained, and does an abort end the run wherever it falls, but on a session on which another reason stands (both)? |
| `MCDelegation` | a controller with two batches of two and a single task, two workers, allowance three, two lives; 312,310 states | Do counts, allowance, ends, closing, replay and starts hold under every interleaving with failing and torn appends; does closing end, and is every waiter answered? |
| `MCSeam` | four messages and compactions with two tool calls each, a cap of two, a recovery prompt, a discarded capture; 2.6 million states | Is every message charged once, is the next model tried only for a provider error that stands, and is only a clean emission accepted? |
| `MCTools` | two executions, no recoverable timeout, two sessions, two lives; 122,853 states | Does the log say what became of the processes, do sessions not overlap, does nothing start past the budget, and does every attempt end? |
| `MCEndGuard` | a budget of three, five attempts, two requests, three lives; 930,260 states | Does one guard run at a time over crashes, is the end the fruit of the attempt just before it, and which ends does an abort stop? |
| `MCReview` | a reviewer and an author with two visits each, every phase owner a gate can name, three review sessions, three resumes; 369,720 states | Has an outcome one route at most, wherever a crash falls in it, and is the run where the route left it; does a phase advance only on a verified approval; does a process leave a route it can take? |
| `MCEffects` | six operations over five lanes (an integration, a promotion, a program, its retry, another program, a delivery), two actions, three lives; 332,823 states | Is an effect applied once and recorded as what it was, do lanes exclude one another over restarts, and does the broker drain? |
| `MCLease` | three hosts with two claims each, three ports, other programs, slow holders; symmetry of hosts; 239,075 states | Has a race one winner while nobody lets go, no other program leaves and no live holder is silent, and is a refusal always about a lease that was held? |

Bounds. Restarts: two are needed for a crash during the reconciliation of a
crash. Visits: two show both a legal and a capped re-entry. A cost of one
against a cap of one distinguishes below and at the cap, and `>=` is all the code
asks; in `MCSeam` two of four messages reach it, before and after retries. Two models with one
retry each contain every switch of the fallback loop. Three messages are needed
for one to be queued, one dispatched and one in the mailbox together, and three
sessions for a reopened, an advanced and a fallback session. Five children
over two workers and an allowance of three leave something running, queued and
refused at once. Two executions share a budget, one may start while the other
times out, and a second session and a second life see both; a budget of zero
makes the first timeout exhaust it. Two visits of the phase owner are one that
is dispatched and one that a route takes, so that the next route finds none; three
resumes interrupt an outcome, its route and the recovery of that route. Five attempts leave one after a budget of
three was spent and one for another request. Six operations contain each pair
the lanes tell apart: the same resource, a shared one of several, none. A third
host can be refused, or win, while two others race.

Larger instances, checked by hand: `DelegationScheduler` for a role
(`Controller` false, batches of three and one, two visits, two lives; 554,256
states, liveness included) and for three calls (1.5 million);
`ToolExecution` with three executions and one timeout (2.4 million);
`ControllerEffects` with five operations, three actions and two lives (6.1
million), and with four, four and two (8.5 million).

The proofs remove the bounds for every safety property of every passing run.

Deadlock is checked in every run but `MCEffects`, where a lane that an uncertain
operation keeps may leave nothing to do. Each other specification has one stuttering
disjunct for the place where the system may really stop, whose guard says
what must be over by then; none states more than that.

### Where the code contradicts what is said of it

Each of these runs checks one property that states a sentence of the
repository, and TLC finds it violated. PROJECT.json quotes the sentences.

| Run | Behaviour |
|---|---|
| `MCDeferral` | The deferred end is a local variable; a crash after the capped worker's hand-back makes the resumed run start an orchestrator session at the run cap. |
| `MCLeaseClaim` | A holder releases its port between another host's failed `listen` and its probe; that host takes the next port, a third the first one, and both execute the run. |

Seen in the code while modelling, and not given a run:

* a fallback attempt gets the whole session cap again
  (`shared-sdk-role-spawn.ts:279`), where `src/src/cost/caps.ts:13-15` says "The
  host accumulates usage across all fallback attempts of one invocation into a
  single UsageAggregate";
* a steer that the role has read already comes back with the prompt after its
  emission: it is still dispatched, and the terminal reclaim puts it back
  (`run-control.ts:239`; `src/docs/run-operator-controls/spec.md:201`: "Messages
  already consumed by the active role are not replayed");
* the end is committed over guidance accepted while the children settle for it
  (`loop-session-turn.ts:424`, `loop-session-accepted.ts:91`; `spec.md:71-72`: "A
  user message accepted before the terminal commit must not be silently lost"):
  the exception `decided` marks in `RunControl!GuidanceIsKept`;
* a finished child is an unknown handle in the role's next visit
  (`production-host-delegation.ts:379`; `src/docs/delegation.md:371-372`:
  "Completed results remain retrievable by the same parent role after fallback,
  handoff and resume.");
* an abort that falls between a failed message and the announcement of its retry
  finds `model_error` standing and leaves no mark (`production-session-state.ts:39`);
  the announcement then clears it (`cost.ts:245-248`), the SDK gives up the retry
  because of the abort, and the loop prompts the session again: `setActiveSession`
  returns early for a session it knows (`run-control.ts:140`), and nobody aborts it
  a second time. `run-handle.ts:171-172` says "The loop notices on its next
  prompt-resolution path and exits with `exitReason: "aborted"`"; it does, but for
  the exception `missed` marks in `RunControl!AbortEndsTheRun`;
* an abort that lands while the children settle for an end, at the cap or after a
  guard, is overruled by that end (`loop-session-turn.ts:331`,
  `loop-session-accepted.ts:91`): the run is `done`; and one that left no mark makes
  the next guard attempt fail with its cleanup unconfirmed, which no resume
  accepts, although nothing was started (`end-guard-runner.ts:98`,
  `end-guard-loop.ts:72`);
* a compaction that reaches the cap puts its cause over an operator's abort
  (`shared-sdk-compaction-wiring.ts:48-51` does not ask whether the session was
  aborted), so the session is recorded as failed at the cap;
* after an ambiguous append the other attempts of a controller are rejected and
  leave its tracker, so `close` can resolve while an operation still runs
  (`tool-execution-controller.ts:149`: "Permanently seal admission and await every
  owned execution cleanup");
* an approval whose invalidation is in the log ("a fresh review is required",
  `review-loop.ts:78`) advances the phase all the same when a crash falls before
  its intent and the revision is back, or its provider, when the next process
  takes it up (`review-loop.ts:51`); `AdvancesAreEarned` therefore speaks of the
  invalidations of earlier processes only as of something that may be overruled;
* a reviewer that runs again after such a crash is asked again, and its new
  decision is dropped for the old one (`review-loop.ts:53`);
* a route whose phase owner has no visit left is rejected at the second hop, and
  again at the top of every resumed loop (`review-recovery.ts:84`), so the run can
  neither go on nor end; the decision record says "Resume completes any
  interrupted hop" (`src/docs/decisions/ADR-004-host-owned-review-gates.md:27`);
* the turn of a reviewer is completed before the run cap is looked at
  (`loop-session-turn.ts:219`, `:314`), so at the cap its route still dispatches
  the phase owner; `HubRun` has no such step and `RunLoop` leaves the branch out;
* two hosts also hold a lease when another program leaves an earlier port, or when
  a holder is silent for 100 ms;
* with `end_request_roles`, every worker capped out and no pending request, no
  event of the orchestrator is legal; after a rejected transition the loop does
  not call `reopenActiveSession`, so steers of the working role wait for the next
  prompt; a steer under way to a child process whose session failed can be
  accepted while the process is disposed. With the mailbox of a run that is over,
  this is what `RunControl!GuidanceIsKept` excepts: when a role ended the run, only
  what was sent after its end was decided; when it failed, was
  aborted or was closed at the cap, everything that was waiting.

## 4. Fairness

* `RunLoop!FairSpec`: the process keeps executing (`WF` of the steps of the
  loop), and a role that is prompted again and again eventually emits something
  the machine can act on (`SF` of `CapClose` and `Accept`). The second is an
  assumption about models: a rejection has no bound of its own in the code.
  Crashes and resumes are not fair. `ComesToRest` says the caps leave no other
  way to run for ever.
* `RunControl!FairSpec`: the loop's steps, the answers of requests, the marking
  of an aborted session, the return of a terminating tool, and the end of a
  prompt. The last is the SDK's: an aborted or terminated agent loop resolves its
  promise. Nothing the operator does is fair.
* `DelegationScheduler!FairSpec`: timers fire, promises are continued, a
  preparation ends, and a child that was aborted ends. A child that was not
  aborted may run for as long as it likes: the code gives it no deadline, so no
  liveness property depends on one.
* `ToolExecution!FairSpec`: timers fire and promises are continued. Nothing is
  assumed of an operation, which may never settle: the cleanup of a supervised
  process is bounded by the code's own timers.
* `ControllerEffects!FairSpec`: some operation takes its next step; requests to
  Git, to services and to programs have deadlines.
* `ReviewRoute!FairSpec`: a process goes on with a route it has begun or found
  (`WF` of the appends of a route). Neither crashes nor resumes are fair, and a
  run whose host is down owes nothing.
* `SessionSeam`, `EndGuard` and `RunLease` state safety only.

## 5. Proofs

`RunLoopProofs` proves, for any workers, visit caps, models, retries, cost
bounds and number of restarts: `TypeCorrect`, `OneTerminal`, `NoReducerThrows`,
`TargetsAgree`, `DeferralStartsNothing`, `DoneStaysDone`, `Refinement`,
`LogTellsIt`, `VisitsAreBoundedByAttempts`. They rest on the assumptions named in `ConductorFsm` and `RunLoop` (the parts of a
manifest that validation guarantees, and natural-number bounds) and on nothing
else.

All but the last two follow from the theorem `Invariant`, that `IndInv` holds always. None of the
properties is inductive by itself: that a session gets one terminal depends on
the live session being open, which depends on the checkpoint in memory naming
it, which depends on where the loop is. The conjuncts are

* `SameControl`: the checkpoints in memory and on disk differ only in the active
  session. This is what makes a crash harmless: what is forgotten was not yet
  promised;
* `LiveSession`: in the steps of a session the checkpoint names it and it has no
  terminal; between sessions no session is active;
* `RoleInControl`, `PendingCommit`, `PendingCapClose`: what was decided before an
  append still holds when its snapshot is written;
* `DeferralHolds`: a deferred end and the spend that caused it are carried
  through each step up to the top of the loop;
* `TerminatesOnce`.

There is one lemma per action (`...Step`), so a change of one action breaks one
lemma. `NextVisitIndexIsFresh` needs a maximum of a set given by a
comprehension: it takes the least upper bound (`LeastElement`, from the
well-foundedness of the naturals) and shows that it is a member. The refinement
has one lemma for commits, one for events of the host, and `StepIsAbstract`
combines them.

`LogTellsIt` and `VisitsAreBoundedByAttempts` need a second invariant, `LogInv`,
which is inductive in states of `IndInv` (`LogInvariant`). It relates the records
to each other and to what the process is doing; TLC has checked it on the
instance of `MCCrash` and on one with two models, a retry and a resume. Beside
the properties themselves its parts are

* `SessionInHand`: the session the process holds is over once its terminal is
  written, and no other open session is named by the durable checkpoint, so that
  a crash loses one session at most (`LossesFit`);
* `HandOversFit`: no record names a session before its acceptance, and the one
  that does is committed before the session ends. This is why an ended session
  has handed over, and has done so once;
* `CountsFit`: the record to be committed is the last one, it was accepted of the
  checkpoint in memory, and a process leaves at most one that is not. A worker's
  counter and the uncommitted records beside it stay within its cap and one
  dispatch for each restart;
* `IndexesFit`: no visit index of the log is above the one in memory, and the
  sessions that carry that one are those of the visit under way, of this process
  and after the same transitions. Fresh indexes depend on it, and it on
  `NextVisitIndexIsFresh` after a resume;
* `AttemptsFit`: the sessions of the visit under way are at most the attempts so
  far, counted in the order the fallback loop takes them (`Rank`). The bound of a
  visit is the rank of the last retry of the last model (`RankArithmetic`).

Here the lemmas go by part and not by action: `SessionsOnlyGrow`, `RecordShape`,
`CommitKeeps` and `AcceptsStay` say once what any step does to the log, and each
part has a lemma that says what it makes of that.

`SessionSeamProofs` proves, for any cap, number of messages, tool calls, recovery
prompts and discarded captures: `CostIsCounted`, `VerdictStands` and
`CleanCommits`, which state the three invariants of its run. Its only assumption
is `SeamAssumption` (natural numbers, and a cap above zero). The outcome of a
session is decided from what earlier events left behind, so the inductive
invariant `IInv` says what they leave:

* `CostCounted`: the usage is what the messages cost, and the last message, if it
  was priced, has been seen, so that its second delivery adds nothing;
* `CauseStands`: an aborted session, and one at its cap, has a cause of the host;
  the faults reported so far determine the reason that stands for them;
* `ErrorIsLast`: a provider error stands only between its message and the
  announcement of its retry; without it, a signal has a cause, or came from the
  operator over such an error. This conjunct is where the exception in
  `VerdictIsRight` comes from: it is not inductive without `asked`;
* `AgentRests`: no tool runs when the loop decides, and none before a prompt;
* `SealIsValid` and `Decided`: the seal is the first capture, and what was decided
  still holds when the transition is accepted.

`HostProofs` proves about `RunControl`, for any number of messages and sessions, in
both kinds of host, from `ControlAssumption` alone: `GuidanceStaysKept`,
`SealedRolesHearNothing` and `AbortReachesTheSession`. That a message is somewhere
is not inductive: a place can be cleared at any reclaim, and what keeps the message
is that the reclaim finds it. `IInv` says that it does.

* `ActiveIsLive` and `SealCloses`: the active session is the one the loop works
  on, from its installation to its release, and a sealed one is closed;
* `FreshIsEmpty`: a session not yet installed holds nothing, so that installing it,
  which forgets what was dispatched, forgets nothing;
* `QueueIsKept` and `CallsAreKept`: what the active session queues is known to
  the host and dispatched, what is under way is dispatched, and anything else is
  safe, unless it landed in a child that was released while it could be steered;
* `SharedQueue`: with shared sessions the host's copy is the queue, what is
  dispatched is not in the mailbox, and a closed session queues nothing. The
  last is why a sealed role hears nothing.

A second invariant, `EndInv`, says what the end of a run was decided on, for the
exception of a run that is over: `EmittedIsReclaimed` (once the result of an
emission is delivered nothing is dispatched to its session any more),
`CallsAreLive` (a session is not gone before its calls are answered) and
`EndIsAnswered` (all that was sent before the decision has been heard, refused or
taken by a released child).

With child processes an envelope can be in two places, because a reclaim empties
only the host's copy of the queue: a role can then hear it twice, and
`SealedHearsNothing` does not hold either. `AbortReachesTheSession` is proved from an
invariant of its own, `AbortIsTold`; it is the safety half of `AbortEndsTheRun`, with
the same exception of a session on which another reason stood.

The same module extends `RunLease` and proves about it, with `LeaseInv`; the names of
`RunLease` are chosen so that the two can stand beside each other.

The other proof modules are built alike: an inductive invariant `IInv` out of
named parts, a lemma for each action or group of actions that disturbs the same
parts, and theorems that read the properties off `IInv` or off its step. TLC has
checked each `IInv` as an invariant of the instance of its run (the one of
`DelegationScheduler` for a role as well as for a controller).

| Module | Theorems | What the property lacks to be inductive |
|---|---|---|
| `DelegationProofs` | `LimitsAreKept`, `EndsAreWritten`, `CloseLeavesNothing`, `ChildrenStartOnce` | where a child is that has no end yet: queued, in the hands of a close, or at work, and nowhere else unless the ownership of a worker is unknown (`ChildFits`); that no child is in the queue twice (`ClosureFits`); that a submission under preparation is still unknown when it is admitted (`AdmissionFits`) |
| `ToolExecutionProofs` | `LogTellsTheTruth`, `SessionsFollowEachOther`, `UnsettledIsNoticed`, `BudgetIsKept` | that whatever won a race did happen (`RaceFits`); to which session an execution belongs and who is waiting for it (`Told`); that open admission means budget left (`BudgetLeft`) |
| `EndGuardProofs` | `AttemptsStayLegal`, `GuardsRunAlone`, `EndsAreGuarded` | that a process is left only of an attempt without a settled record (`ProcessesAreUnsettled`), that an attempt starts only while the budget has room for its failure (`BudgetIsKept`), that the result at hand, and what an end was decided on, is the last attempt (`LastIsCurrent`), and that an abort is due on a session or has reached it (`AbortIsTracked`) |
| `ControllerEffectsProofs` | `RecordsTellTheTruth`, `EffectsHappenOnce`, `LanesExclude` | what an intent found in the journal: the operations on its lanes settled for certain, the earlier ones of its own effect not applied (`OrderFits`); that a write which may have landed can be told by the value of its ref (`RefFits`); that nothing not applied is still able to land (`WorldFits`) |
| `ReviewRouteProofs` | `RoutesAreTakenOnce`, `AdvancesNeedAnApproval` | how far the hops of a route have come and which role is in control by then (`HopsFit`); that only the newest intent is open (`LogFits`); that what invalidates a revision is written before its intent is (`ApprovalsFit`) |
| `HostProofs` (`RunLease`) | `RaceHasOneWinner`, `RefusalsHold` | that the ports a claim has passed stay busy while nobody lets go, no other program leaves and no probe goes unanswered (`PassedStayBusy`), so that two claims meet at the first free one |

Assumptions. Each proof module rests on the named assumptions of the module it is
about: natural numbers as bounds, at least one worker, process and visit, and the
shape of the constants. `ControllerEffects` has two that say more. A value
`Foreign` that a ref can be given by somebody else is neither the value an
operation expects nor the one it writes; the code takes a ref that has the new
value for its own. `LaneOfRefAssumption`: two operations on one ref share a lane,
because `effectLane` (`effect-broker-support.ts:139`) derives the lane from the
ref. Without it two writes
of one ref could be under way together, and `RefFits` would not hold.

What the proofs changed in the models. Three operators were written with
`SelectSeq`, which is recursive; they are now the loop the code has (`Drain`
takes children from the front of the queue until the workers are taken, `Released`
takes the front of a lane). Two `CASE`s of `ToolExecution` had guards that overlap,
in which TLA+ leaves the choice open where the code is a chain of `if`; TLC takes
the first, a proof may not.

Only model-checked: all liveness
(`ComesToRest`, `GuidanceIsDrained`, `AbortEndsTheRun`, `CloseEnds`,
`WaitersAreAnswered`, `AttemptsEnd`, `BrokerDrains`, `PendingIsRouted`), which is beyond TLAPS.

## 6. Not modelled

`PROJECT.json` lists every part with its status. Text is never modelled:
prompts, seeds, packets, diagnostics and rendering decide no transition. The
manifest appears as constants. Git, files, sandboxes and processes are inputs and
outputs of the operating system; where they decide control (the outcome of an end
guard, a child, an append) the outcome is a choice. In `RunLoop` artifact
routing, handoff evidence, trajectory and controller sessions and the review
branch (`ReviewRoute`) are left out, and their failures are crashes of the loop. Redelivery of a
submission with other inputs, and waits that a parent gives up, change nothing
and are left out of `DelegationScheduler`.
`ReviewRoute` leaves out gates that no manifest declares or that only a resume
supplies. `SessionSeam` leaves out review decisions and the records of corrected handoffs,
`ToolExecution` the sandbox behind an operation, `ControllerEffects` the planner
and the sandboxed adapters that ask for effects, `RunLease` other machines: a
loopback port says nothing to them. The parser of the log and its torn last line
are not modelled; a torn append is, as one that throws with its record written.

## 7. Plan

Done: the core machine, the run loop with crash recovery and its refinement and
proofs, run control, delegation, tool execution, the end guard, the effects of a
controller, the lease, the session seam, the review route. Left, in this order:

1. `OrchestratorContext`: epochs and boundaries of the retained conversation.
2. The parser of the log: torn last lines.
3. The validation of the manifest as operators, checked against a definition by
   enumeration; it discharges the assumptions of `ConductorFsm`.

Theorems to prove then: that the operators of the manifest's validation give the
assumptions of `ConductorFsm`.
