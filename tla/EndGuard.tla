------------------------------ MODULE EndGuard ------------------------------
(***************************************************************************)
(* The command that must pass before the orchestrator may end the run:     *)
(* one durable attempt (host/end-guard-loop.ts), the process it supervises *)
(* (host/end-guard-runner.ts), the budget of failures read from the log    *)
(* (persistence/end-guard.ts), what the turn of the session does with the  *)
(* result, and the gate and the reset of a resume (host/api.ts).           *)
(*                                                                         *)
(* An attempt is one process at most; a crash of the host leaves it        *)
(* running.  "failed" stands for failed, timed out, spawn error and        *)
(* interrupted, which the budget counts alike.  The enhanced tier is       *)
(* modelled: cleanup is confirmed or it is not.                            *)
(*                                                                         *)
(* An end is decided, the children are settled, and only then is the end   *)
(* recorded; an abort may fall between any two of these.  The records of   *)
(* the end are one step here; RunLoop takes them apart.                    *)
(***************************************************************************)
EXTENDS Naturals, Sequences, FiniteSets, SequencesExt

CONSTANTS Budget,         \* failures of one request that exhaust it: 3 in the code
          MaxAttempts, MaxRequests, MaxLives          \* bounds

ASSUME Bounds == /\ Budget \in Nat \ {0} /\ MaxAttempts \in Nat \ {0}
                 /\ MaxRequests \in Nat /\ MaxLives \in Nat \ {0}

Outcomes == {"passed", "failed", "aborted", "cleanup_unconfirmed"}

VARIABLES
    gated,       \* the manifest has end_request_roles
    attempts,    \* the log: [request, outcome, life] in the order of their starts
    epoch,       \* 1 and the end_guard_budget_reset records
    requests,    \* transition_accepted records with request_end
    pending,     \* the checkpoint holds an end request
    ended,       \* how the run was ended, if it was
    proc,        \* the process of each attempt, as it really is
    up, lives, pc,
    outcome,     \* of the attempt that was just settled
    decision,    \* the end that is carried out while the children settle
    runner,      \* admission of the runner
    abort,       \* an abort was requested
    mark,        \* what the abort left on the session
    capped       \* the run cost cap is reached

durable == <<gated, attempts, epoch, requests, pending, ended>>
turn == <<pc, outcome, decision>>
aborts == <<runner, abort, mark>>
vars == <<durable, proc, up, lives, turn, aborts, capped>>

Indices == 1..Len(attempts)
Alive(i) == proc[i] \in {"running", "left"}

(***************************************************************************)
(* What is read from the log.  A gated request is identified by its number *)
(* among the accepted ones, an ungated one by the epoch alone.             *)
(***************************************************************************)
RequestId(e) == <<e, IF pending THEN requests ELSE 0>>

Failures(id) ==
    Cardinality({i \in Indices : attempts[i].request = id /\ attempts[i].outcome = "failed"})

\* Mutant: one failure more.
ExhaustedLate(id) == Failures(id) > Budget

Exhausted(id) == Failures(id) >= Budget

\* Mutant: only what was recorded is uncertain.
SettledRecorded == \A i \in Indices : attempts[i].outcome # "cleanup_unconfirmed"

\* endGuardFailureCount throws, and resumeRun refuses, while this is false
Settled == \A i \in Indices : attempts[i].outcome \notin {"open", "cleanup_unconfirmed"}

Init ==
    /\ gated \in BOOLEAN
    /\ attempts = <<>> /\ epoch = 1 /\ requests = 0 /\ pending = FALSE /\ ended = "no"
    /\ proc = <<>>
    /\ up = TRUE /\ lives = 1 /\ pc = "role" /\ outcome = "none" /\ decision = "no"
    /\ runner = "open" /\ abort = FALSE /\ mark = "none" /\ capped = FALSE

\* The run stops without an end of its own: pc, outcome and decision are gone.
Stop ==
    /\ up' = FALSE /\ pc' = "down" /\ outcome' = "none" /\ decision' = "no"
    /\ runner' = "closed" /\ UNCHANGED <<lives, abort, mark, capped>>

(***************************************************************************)
(* The turn of the orchestrator's session.                                 *)
(***************************************************************************)
\* the session installed after a transition is told of the abort as well
TellNext == mark' = (IF abort THEN "due" ELSE mark)

\* a worker visit in between: an accepted end request, or one that the hub
\* answered with a dispatch
Authorize ==
    /\ pc = "role" /\ mark # "set" /\ gated /\ ~pending /\ requests < MaxRequests
    /\ requests' = requests + 1 /\ pending' = TRUE
    /\ TellNext
    /\ UNCHANGED <<gated, attempts, epoch, ended, proc, up, lives, turn, runner, abort, capped>>

Redirect ==
    /\ pc = "role" /\ mark # "set" /\ pending
    /\ pending' = FALSE
    /\ TellNext
    /\ UNCHANGED <<gated, attempts, epoch, requests, ended, proc, up, lives, turn, runner, abort, capped>>

\* a session that failed is replaced by one of a fallback model
Replace ==
    /\ pc = "role" /\ mark = "missed" /\ mark' = "due"
    /\ UNCHANGED <<durable, proc, up, lives, turn, runner, abort, capped>>

CostGrows ==
    /\ up /\ ~capped /\ capped' = TRUE
    /\ UNCHANGED <<durable, proc, up, lives, turn, aborts>>

\* whatever the role emitted, its end included, is superseded at the cap: the
\* end is forced, no guard is run and the gate is not asked
CapForcesEnd ==
    /\ pc = "role" /\ mark # "set" /\ capped
    /\ pc' = "settling" /\ decision' = "capped"
    /\ UNCHANGED <<durable, proc, up, lives, outcome, aborts, capped>>

Legal == pc = "role" /\ mark # "set" /\ (gated => pending)

EndsExhausted ==
    /\ Legal /\ ~capped /\ Settled /\ Exhausted(RequestId(epoch))
    /\ Stop
    /\ UNCHANGED <<durable, proc>>

\* the start is on disk before anything is spawned; the append may fail,
\* and the run with it, before or after it wrote
Attempt == [request |-> RequestId(epoch), outcome |-> "open", life |-> lives]
MayAttempt ==
    /\ Legal /\ ~capped /\ Settled /\ ~Exhausted(RequestId(epoch))
    /\ Len(attempts) < MaxAttempts

\* a runner that an abort closed rejects the attempt, whose start is on disk
StartGuard ==
    /\ MayAttempt
    /\ attempts' = Append(attempts, Attempt)
    /\ proc' = Append(proc, IF runner = "open" THEN "running" ELSE "none")
    /\ pc' = "guard"
    /\ UNCHANGED <<gated, epoch, requests, pending, ended, up, lives, outcome, decision, aborts, capped>>

StartFails ==
    /\ MayAttempt
    /\ \/ attempts' = Append(attempts, Attempt) /\ proc' = Append(proc, "none")
       \/ UNCHANGED <<attempts, proc>>
    /\ Stop
    /\ UNCHANGED <<gated, epoch, requests, pending, ended>>

(***************************************************************************)
(* runEndGuardAttempt after the start: the process comes to an end, the    *)
(* runner classifies it, and the terminal is appended before anything is   *)
(* decided.  Of an attempt that was rejected nothing is known.             *)
(***************************************************************************)
Classified(rest) ==
    IF rest = "stopped" THEN {"passed", "failed"} \cup (IF abort THEN {"aborted"} ELSE {})
    ELSE {"cleanup_unconfirmed"}

Rests == IF Last(proc) = "none" THEN {"none"} ELSE {"stopped", "left"}

GuardEnds(rest, how) ==
    /\ pc = "guard" /\ rest \in Rests /\ how \in Classified(rest)
    /\ proc' = [proc EXCEPT ![Len(proc)] = rest]
    /\ attempts' = [attempts EXCEPT ![Len(attempts)].outcome = how]
    /\ pc' = "result" /\ outcome' = how
    /\ runner' = IF rest = "left" THEN "closed" ELSE runner
    /\ UNCHANGED <<gated, epoch, requests, pending, ended, up, lives, decision, abort, mark, capped>>

FinishFails(rest, how) ==
    /\ pc = "guard" /\ rest \in Rests /\ how \in Classified(rest)
    /\ proc' = [proc EXCEPT ![Len(proc)] = rest]
    /\ \/ attempts' = [attempts EXCEPT ![Len(attempts)].outcome = how]
       \/ UNCHANGED attempts
    /\ Stop
    /\ UNCHANGED <<gated, epoch, requests, pending, ended>>

OrphanEnds(i) ==
    /\ Alive(i) /\ (pc = "guard" => i # Len(proc))
    /\ proc' = [proc EXCEPT ![i] = "stopped"]
    /\ UNCHANGED <<durable, up, lives, turn, aborts, capped>>

(***************************************************************************)
(* What runSessionTurn does with the result, in the order of its tests.    *)
(***************************************************************************)
StoppedByGuard == outcome \in {"cleanup_unconfirmed", "aborted"} \/ abort

Unresumed == /\ pc = "result" /\ StoppedByGuard
             /\ Stop
             /\ UNCHANGED <<durable, proc>>

CapAfterGuard ==
    /\ pc = "result" /\ ~StoppedByGuard /\ capped
    /\ pc' = "settling" /\ decision' = "capped"
    /\ UNCHANGED <<durable, proc, up, lives, outcome, aborts, capped>>

ExhaustedByGuard ==
    /\ pc = "result" /\ ~StoppedByGuard /\ ~capped
    /\ outcome = "failed" /\ Exhausted(RequestId(epoch))
    /\ Stop
    /\ UNCHANGED <<durable, proc>>

\* back to the role: to repair what failed, or to hear guidance that came in
Retry ==
    /\ pc = "result" /\ ~StoppedByGuard /\ ~capped
    /\ outcome = "passed" \/ ~Exhausted(RequestId(epoch))
    /\ pc' = "role" /\ outcome' = "none"
    /\ UNCHANGED <<durable, proc, up, lives, decision, aborts, capped>>

\* Mutant: a request whose guard has passed before is not guarded again.
AcceptCached ==
    /\ pc = "result" /\ ~StoppedByGuard /\ ~capped
    /\ \E i \in Indices : attempts[i].request = RequestId(epoch) /\ attempts[i].outcome = "passed"
    /\ pc' = "settling" /\ decision' = "guarded"
    /\ UNCHANGED <<durable, proc, up, lives, outcome, aborts, capped>>

Accept ==
    /\ pc = "result" /\ ~StoppedByGuard /\ ~capped /\ outcome = "passed"
    /\ pc' = "settling" /\ decision' = "guarded"
    /\ UNCHANGED <<durable, proc, up, lives, outcome, aborts, capped>>

\* the children are settled; nobody asks for an abort any more
End ==
    /\ pc = "settling"
    /\ ended' = decision /\ Stop
    /\ UNCHANGED <<gated, attempts, epoch, requests, pending, proc>>

(***************************************************************************)
(* The operator, the crash and the resume.                                 *)
(***************************************************************************)
\* the runner refuses the session from now on and signals the running guard
RequestAbort ==
    /\ up /\ ~abort
    /\ abort' = TRUE /\ runner' = "closed" /\ mark' = "due"
    /\ UNCHANGED <<durable, proc, up, lives, turn, capped>>

\* the session is marked unless another reason stands on it, which a retry may
\* clear again; a guard under way is awaited first, and what follows a guard
\* does not ask for the mark
Mark ==
    /\ pc = "role" /\ mark = "due"
    /\ mark' \in {"set", "missed"}
    /\ UNCHANGED <<durable, proc, up, lives, turn, runner, abort, capped>>

FinishUserAbort ==
    /\ pc = "role" /\ mark = "set"
    /\ Stop
    /\ UNCHANGED <<durable, proc>>

\* also a loop that throws, and a session that fails the run
Crash ==
    /\ up /\ Stop
    /\ UNCHANGED <<durable, proc>>

ResetDue == ~gated /\ Exhausted(RequestId(epoch))

Resume ==
    /\ ~up /\ ended = "no" /\ lives < MaxLives /\ Settled
    /\ epoch' = IF ResetDue THEN epoch + 1 ELSE epoch
    /\ up' = TRUE /\ lives' = lives + 1 /\ pc' = "role"
    /\ runner' = "open" /\ abort' = FALSE /\ mark' = "none"
    /\ UNCHANGED <<gated, attempts, requests, pending, ended, proc, outcome, decision, capped>>

\* over, or not to be resumed
Over == ~up /\ (ended # "no" \/ lives = MaxLives \/ ~Settled) /\ UNCHANGED vars

Next ==
    \/ Authorize \/ Redirect \/ Replace \/ CostGrows
    \/ CapForcesEnd \/ EndsExhausted \/ StartGuard \/ StartFails
    \/ \E rest \in {"none", "stopped", "left"}, how \in Outcomes :
         GuardEnds(rest, how) \/ FinishFails(rest, how)
    \/ \E i \in Indices : OrphanEnds(i)
    \/ Unresumed \/ CapAfterGuard \/ ExhaustedByGuard \/ Retry \/ Accept \/ End
    \/ RequestAbort \/ Mark \/ FinishUserAbort \/ Crash \/ Resume \/ Over

Spec == Init /\ [][Next]_vars

-----------------------------------------------------------------------------
(* What has to hold.                                                       *)

TypeOK ==
    /\ gated \in BOOLEAN /\ pending \in BOOLEAN
    /\ attempts \in Seq([request : (1..MaxLives) \X (0..MaxRequests),
                         outcome : Outcomes \cup {"open"}, life : 1..MaxLives])
    /\ Len(attempts) <= MaxAttempts
    /\ epoch \in 1..MaxLives /\ requests \in 0..MaxRequests
    /\ ended \in {"no", "guarded", "capped"}
    /\ proc \in Seq({"none", "running", "stopped", "left"}) /\ Len(proc) = Len(attempts)
    /\ up \in BOOLEAN /\ lives \in 1..MaxLives
    /\ pc \in {"role", "guard", "result", "settling", "down"} /\ (pc = "down") = ~up
    /\ outcome \in Outcomes \cup {"none"} /\ decision \in {"no", "guarded", "capped"}
    /\ runner \in {"open", "closed"} /\ abort \in BOOLEAN /\ capped \in BOOLEAN
    /\ mark \in {"none", "due", "set", "missed"}

\* A guard starts only while no process of an earlier attempt is left, not
\* even one that outlived its host and that nobody can ask any more.
StartsAlone ==
    [][Len(attempts') > Len(attempts) => \A i \in Indices : ~Alive(i)]_vars

\* The run is ended by the role only on the strength of the attempt before,
\* which passed in this process and for this request: a pass is never cached,
\* not over a re-prompt, another request or a resume, nor while the children
\* settle.  An abort that falls before the guard is asked for or beside it wins
\* over its result, a pass and the forced end of the cost cap included.  It wins
\* over the end that the cap forces without a guard only when the prompt's end
\* finds its mark on the session, and never over an end already decided.
EndIsGuarded ==
    [][/\ pc' = "settling" /\ pc # "settling" /\ abort =>
            decision' = "capped" /\ pc = "role" /\ mark \in {"due", "missed"}
       /\ ended' = "guarded" /\ ended # "guarded" =>
            Last(attempts) = [request |-> RequestId(epoch), outcome |-> "passed",
                              life |-> lives]]_vars

\* One request is given Budget failures, whatever restarts come between; only
\* an operator's resume of an ungated run opens another epoch.
FailuresAreBounded == \A i \in Indices : Failures(attempts[i].request) <= Budget

\* The attempts on disk are attempts of the code and within its budget.
AttemptsAreLegal == TypeOK /\ FailuresAreBounded
=============================================================================
