--------------------------- MODULE ToolExecution ----------------------------
(***************************************************************************)
(* The executable tools of a role: admission, deadline, abort, close and   *)
(* the record of each execution (host/execution/                           *)
(* tool-execution-controller.ts), the sessions and resumes that follow     *)
(* each other over one log, and the operator's reconciliation.             *)
(*                                                                         *)
(* An execution races the end of its operation against its deadline, an    *)
(* abort and the close of its controller.  The continuation of the race is *)
(* one synchronous step that appends the terminal record; an append can    *)
(* succeed, throw without having written, or throw after having written.   *)
(*                                                                         *)
(* Simplified: one logical session (a visit of the role) at a time; an     *)
(* operation that ends with a process it cannot account for has "left" it, *)
(* whatever error carried that news; the evidence of a sandbox terminal is *)
(* always well formed.                                                     *)
(***************************************************************************)
EXTENDS Naturals, Sequences, FiniteSets, SequencesExt

CONSTANTS MaxExecutions,   \* bound: executions that are called
          MaxTimeouts,     \* policy.max_recoverable_timeouts
          MaxSessions,     \* bound: role sessions
          MaxLives         \* bound: processes of the host

ASSUME Bounds == /\ MaxExecutions \in Nat \ {0} /\ MaxTimeouts \in Nat
                 /\ MaxSessions \in Nat \ {0} /\ MaxLives \in Nat \ {0}

Executions == 1..MaxExecutions
Outcomes == {"completed", "failed", "timed_out", "aborted", "cleanup_unconfirmed"}
Appends == {"ok", "lost", "torn"}                \* what one call of persist does

VARIABLES
    log,       \* [started, ends, confirmed, visit] of each execution
    op,        \* the processes of the operation, as they really are
    att,       \* the attempt in memory: where it is and what woke it
    up, lives, session, visit,
    closed, fatal, closing, awaited              \* the controller of the session

memory == <<att, closed, fatal, closing, awaited>>
place == <<up, lives, session, visit>>
vars == <<log, op, memory, place>>

Unused == [pc |-> "idle", won |-> "none", of |-> 0, late |-> FALSE, fired |-> FALSE,
           aborted |-> FALSE, woken |-> FALSE, timed |-> FALSE]
Over(e, end) == [Unused EXCEPT !.pc = "over", !.of = att[e].of, !.won = end]

In(pc) == {e \in Executions : att[e].pc = pc}
Registered == In("racing") \cup In("settling")   \* those close and a fatal error reach
\* Mutant: what is being cleaned up is no longer awaited.
PendingRacing == In("admitting") \cup In("racing")

Pending == In("admitting") \cup Registered       \* the promises in the tracker's work
Alive(e) == op[e] \in {"running", "left"}        \* a process of the tool may exist

\* Mutant: only a recorded failure of the cleanup is unresolved.
UnresolvedRecorded(e) == ~log[e].confirmed /\ log[e].ends = <<"cleanup_unconfirmed">>

Unresolved(e) ==
    /\ log[e].started /\ ~log[e].confirmed
    /\ ToSet(log[e].ends) \subseteq {"cleanup_unconfirmed"}
TimedOutIn(v) ==
    Cardinality({e \in Executions : log[e].visit = v /\ Contains(log[e].ends, "timed_out")})

Init ==
    /\ log = [e \in Executions |->
                [started |-> FALSE, ends |-> <<>>, confirmed |-> FALSE, visit |-> 0]]
    /\ op = [e \in Executions |-> "none"]
    /\ att = [e \in Executions |-> Unused]
    /\ up = TRUE /\ lives = 1 /\ session = 1 /\ visit = 1
    /\ closed = FALSE /\ fatal = "none" /\ closing = "none" /\ awaited = {}

(***************************************************************************)
(* A fatal error closes admission for good, tells the host and wakes every *)
(* other attempt with that error; once closed it does nothing.  An attempt *)
(* woken by an ambiguous append rethrows it without waiting for anything.  *)
(***************************************************************************)
Woken(a, by) ==
    IF a.pc = "racing" THEN [a EXCEPT !.woken = TRUE, !.won = IF @ = "none" THEN by ELSE @]
    ELSE a

CloseOnFatal(kind, next) ==
    IF closed
    THEN att' = next /\ UNCHANGED <<closed, fatal>>
    ELSE /\ closed' = TRUE
         /\ fatal' = kind
         /\ att' = [e \in Executions |->
                      Woken(next[e], IF kind = "ambiguous" THEN "ambiguous" ELSE "close")]

\* append of a terminal, and the error the attempt then ends with
Finish(e, outcome, fate) ==
    LET error == IF fate # "ok" THEN "ambiguous"
                 ELSE IF outcome = "cleanup_unconfirmed" THEN "unconfirmed"
                 ELSE IF outcome = "timed_out" /\ TimedOutIn(visit) >= MaxTimeouts THEN "exhausted"
                 ELSE "none"
        ended == [att EXCEPT ![e] = Over(e, IF error \in {"ambiguous", "unconfirmed"}
                                            THEN "unrecoverable" ELSE "plain")]
    IN /\ log' = IF fate = "lost" THEN log ELSE [log EXCEPT ![e].ends = Append(@, outcome)]
       /\ IF error = "none" THEN att' = ended /\ UNCHANGED <<closed, fatal>>
                            ELSE CloseOnFatal(error, ended)

(***************************************************************************)
(* runAttempt up to the race.  captureAdmission is awaited between the two *)
(* looks at closed; the operation starts only after its start is recorded. *)
(***************************************************************************)
Call(e) ==
    /\ up /\ ~closed /\ e \in In("idle") /\ e - 1 \notin In("idle")
    /\ TimedOutIn(visit) <= MaxTimeouts
    /\ att' = [att EXCEPT ![e] = [Unused EXCEPT !.pc = "admitting", !.of = session]]
    /\ UNCHANGED <<log, op, closed, fatal, closing, awaited, place>>

StartRefused(e) ==
    /\ up /\ e \in In("admitting") /\ closed
    /\ att' = [att EXCEPT ![e] = Over(e, "plain")]
    /\ UNCHANGED <<log, op, closed, fatal, closing, awaited, place>>

\* Mutant: closed is not read again after the admission.
StartUnchecked(e, fate) ==
    /\ up /\ e \in In("admitting") /\ fate = "ok"
    /\ log' = [log EXCEPT ![e].started = TRUE, ![e].visit = visit]
    /\ att' = [att EXCEPT ![e].pc = "racing"]
    /\ op' = [op EXCEPT ![e] = "running"]
    /\ UNCHANGED <<closed, fatal, closing, awaited, place>>

Start(e, fate) ==
    /\ up /\ e \in In("admitting") /\ ~closed
    /\ log' = IF fate = "lost" THEN log
              ELSE [log EXCEPT ![e].started = TRUE, ![e].visit = visit]
    /\ IF fate = "ok"
       THEN /\ att' = [att EXCEPT ![e].pc = "racing"]
            /\ op' = [op EXCEPT ![e] = "running"]
            /\ UNCHANGED <<closed, fatal>>
       ELSE /\ CloseOnFatal("ambiguous", [att EXCEPT ![e] = Over(e, "unrecoverable")])
            /\ UNCHANGED op
    /\ UNCHANGED <<closing, awaited, place>>

\* the caller's signal was aborted, or the deadline passed, during the admission
StartTooLate(e, fate) ==
    /\ up /\ e \in In("admitting") /\ ~closed
    /\ log' = IF fate = "lost"
              THEN [log EXCEPT ![e].started = TRUE, ![e].visit = visit]
              ELSE [log EXCEPT ![e].started = TRUE, ![e].visit = visit, ![e].ends = <<"aborted">>]
    /\ IF fate = "ok"
       THEN att' = [att EXCEPT ![e] = Over(e, "plain")] /\ UNCHANGED <<closed, fatal>>
       ELSE CloseOnFatal("ambiguous", [att EXCEPT ![e] = Over(e, "unrecoverable")])
    /\ UNCHANGED <<op, closing, awaited, place>>

(***************************************************************************)
(* What may win the race, in any order.                                    *)
(***************************************************************************)
Wakes(e, field, by) ==
    /\ up /\ e \in In("racing") /\ ~att[e][field]
    /\ att' = [att EXCEPT ![e][field] = TRUE, ![e].won = IF @ = "none" THEN by ELSE @]
    /\ UNCHANGED <<log, op, closed, fatal, closing, awaited, place>>

DeadlinePasses(e) ==
    /\ up /\ e \in In("racing") /\ ~att[e].late
    /\ att' = [att EXCEPT ![e].late = TRUE]
    /\ UNCHANGED <<log, op, closed, fatal, closing, awaited, place>>

TimerFires(e) == att[e].late /\ Wakes(e, "fired", "timer")
ExternalAbort(e) == Wakes(e, "aborted", "abort")

\* the operation settles, with a process left or with none; only a race that
\* it wins looks at more than that.  After a crash the processes end alone.
OperationEnds(e, how, rest) ==
    /\ op[e] = "running"
    /\ how = "ok" => rest = "stopped"
    /\ how = "timeout" => att[e].late
    /\ LET wins == att[e].pc = "racing" /\ att[e].won = "none" IN
       /\ wins \/ how = "failed"
       /\ att' = IF wins THEN [att EXCEPT ![e].won = how] ELSE att
    /\ op' = [op EXCEPT ![e] = rest]
    /\ UNCHANGED <<log, closed, fatal, closing, awaited, place>>

OrphanEnds(e) ==
    /\ op[e] = "left" /\ e \in In("over")
    /\ op' = [op EXCEPT ![e] = "stopped"]
    /\ UNCHANGED <<log, memory, place>>

\* the sandbox of a running operation is ready and the append of that record
\* throws: every attempt is woken, this one's own race too
ReadyFails(e) ==
    /\ up /\ e \in In("racing") /\ op[e] = "running" /\ ~closed
    /\ CloseOnFatal("ambiguous", att)
    /\ UNCHANGED <<log, op, closing, awaited, place>>

(***************************************************************************)
(* The continuation of the race: the catch of runAttempt in the order of   *)
(* its tests.                                                              *)
(***************************************************************************)
Rethrow(e) ==
    /\ up /\ e \in In("racing") /\ att[e].won = "ambiguous"
    /\ att' = [att EXCEPT ![e] = Over(e, "unrecoverable")]
    /\ UNCHANGED <<log, op, closed, fatal, closing, awaited, place>>

Return(e, fate) ==
    /\ up /\ e \in In("racing") /\ att[e].won = "ok"
    /\ Finish(e, IF att[e].late \/ att[e].fired THEN "timed_out"
                 ELSE IF att[e].aborted THEN "aborted" ELSE "completed", fate)
    /\ UNCHANGED <<op, closing, awaited, place>>

TimedOut(e) == att[e].fired \/ att[e].won = "timeout"
Aborted(e) == att[e].woken \/ att[e].aborted
Failing(e) ==
    /\ up /\ e \in In("racing") /\ att[e].won \notin {"none", "ok", "ambiguous"}

Fail(e, fate) ==
    /\ Failing(e) /\ ~TimedOut(e) /\ ~Aborted(e)
    /\ Finish(e, IF op[e] = "left" THEN "cleanup_unconfirmed" ELSE "failed", fate)
    /\ UNCHANGED <<op, closing, awaited, place>>

Await(e) ==
    /\ Failing(e) /\ (TimedOut(e) \/ Aborted(e))
    /\ att' = [att EXCEPT ![e] = [Unused EXCEPT !.pc = "settling", !.of = att[e].of,
                                              !.timed = TimedOut(e)]]
    /\ UNCHANGED <<log, op, closed, fatal, closing, awaited, place>>

\* Mutant: the end of the cleanup window counts as the end of the process.
SettleAnyhow(e, fate) ==
    /\ up /\ e \in In("settling")
    /\ Finish(e, IF att[e].timed THEN "timed_out" ELSE "aborted", fate)
    /\ UNCHANGED <<op, closing, awaited, place>>

\* Mutant: the cleanup has no window.
SettleUnbounded(e, fate) ==
    /\ up /\ e \in In("settling") /\ op[e] # "running"
    /\ Finish(e, CASE Alive(e) -> "cleanup_unconfirmed"
                   [] ~Alive(e) /\ att[e].timed -> "timed_out"
                   [] OTHER -> "aborted", fate)
    /\ UNCHANGED <<op, closing, awaited, place>>

\* the operation has settled, or the cleanup window expires while it runs
Settle(e, fate) ==
    /\ up /\ e \in In("settling")
    /\ Finish(e, CASE Alive(e) -> "cleanup_unconfirmed"
                   [] ~Alive(e) /\ att[e].timed -> "timed_out"
                   [] OTHER -> "aborted", fate)
    /\ UNCHANGED <<op, closing, awaited, place>>

(***************************************************************************)
(* close of the controller: what is awaited is what is pending now.        *)
(***************************************************************************)
Close ==
    /\ up /\ closing = "none"
    /\ closed' = TRUE /\ closing' = "waiting" /\ awaited' = Pending
    /\ att' = [e \in Executions |-> Woken(att[e], "close")]
    /\ UNCHANGED <<log, op, fatal, place>>

CloseSettled ==
    /\ up /\ closing = "waiting" /\ awaited \cap Pending = {}
    /\ closing' = IF \E e \in awaited : att[e].won = "unrecoverable" THEN "rejected" ELSE "resolved"
    /\ UNCHANGED <<log, op, att, closed, fatal, awaited, place>>

(***************************************************************************)
(* The next session of the run, in this process or after a resume, passes  *)
(* the gate on the log.  A resumed role is in a visit of its own.          *)
(***************************************************************************)
NoUnfinished == \A e \in Executions : ~Unresolved(e)

Construct(v) ==
    /\ session < MaxSessions /\ session' = session + 1 /\ visit' = v
    /\ closed' = (TimedOutIn(v) > MaxTimeouts)
    /\ fatal' = "none" /\ closing' = "none" /\ awaited' = {}

NextSession ==
    /\ up /\ Pending = {} /\ closing \in {"none", "resolved"} /\ NoUnfinished
    /\ \E v \in {visit, visit + 1} : Construct(v)
    /\ UNCHANGED <<log, op, att, up, lives>>

Crash ==
    /\ up /\ up' = FALSE
    /\ att' = [e \in Executions |-> IF e \in In("idle") THEN Unused ELSE Over(e, "plain")]
    /\ closed' = TRUE /\ fatal' = "none" /\ closing' = "none" /\ awaited' = {}
    /\ UNCHANGED <<log, op, lives, session, visit>>

\* reconcile-tools: under the lease of the run, so no host is up
Reconcile(e) ==
    /\ ~up /\ Unresolved(e) /\ ~Alive(e)
    /\ log' = [log EXCEPT ![e].confirmed = TRUE]
    /\ UNCHANGED <<op, memory, place>>

Resume ==
    /\ ~up /\ lives < MaxLives /\ NoUnfinished
    /\ up' = TRUE /\ lives' = lives + 1
    /\ Construct(visit + 1)
    /\ UNCHANGED <<log, op, att>>

\* a host that is down stays down when nobody resumes it, or may not
Stopped ==
    /\ ~up /\ (lives = MaxLives \/ session = MaxSessions \/ ~NoUnfinished)
    /\ UNCHANGED vars

Next ==
    \/ \E e \in Executions :
         \/ Call(e) \/ StartRefused(e)
         \/ DeadlinePasses(e) \/ TimerFires(e) \/ ExternalAbort(e)
         \/ \E how \in {"ok", "failed", "timeout"}, rest \in {"stopped", "left"} :
                OperationEnds(e, how, rest)
         \/ OrphanEnds(e) \/ ReadyFails(e)
         \/ Rethrow(e) \/ Await(e) \/ Reconcile(e)
         \/ \E fate \in Appends : \/ Start(e, fate) \/ StartTooLate(e, fate)
                                   \/ Return(e, fate) \/ Fail(e, fate) \/ Settle(e, fate)
    \/ Close \/ CloseSettled \/ NextSession \/ Crash \/ Resume \/ Stopped

Spec == Init /\ [][Next]_vars

(***************************************************************************)
(* Timers fire and promises are continued.  Nothing is assumed of the      *)
(* operation itself: it may run for ever.                                  *)
(***************************************************************************)
FairSpec ==
    /\ Spec
    /\ \A e \in Executions :
         /\ WF_vars(DeadlinePasses(e)) /\ WF_vars(TimerFires(e))
         /\ WF_vars(StartRefused(e) \/ \E fate \in Appends : Start(e, fate))
         /\ WF_vars(\/ Rethrow(e) \/ Await(e)
                    \/ \E fate \in Appends : Return(e, fate) \/ Fail(e, fate) \/ Settle(e, fate))
    /\ WF_vars(CloseSettled)

-----------------------------------------------------------------------------
(* What has to hold.                                                       *)

TypeOK ==
    /\ log \in [Executions -> [started : BOOLEAN, ends : Seq(Outcomes),
                               confirmed : BOOLEAN, visit : 0..MaxSessions]]
    /\ op \in [Executions -> {"none", "running", "left", "stopped"}]
    /\ att \in [Executions ->
                 [pc : {"idle", "admitting", "racing", "settling", "over"},
                  won : {"none", "ok", "failed", "timeout", "timer", "abort", "close",
                         "ambiguous", "plain", "unrecoverable"},
                  of : 0..MaxSessions, late : BOOLEAN, fired : BOOLEAN, aborted : BOOLEAN,
                  woken : BOOLEAN, timed : BOOLEAN]]
    /\ up \in BOOLEAN /\ lives \in 1..MaxLives
    /\ session \in 1..MaxSessions /\ visit \in 1..MaxSessions
    /\ closed \in BOOLEAN /\ fatal \in {"none", "exhausted", "unconfirmed", "ambiguous"}
    /\ closing \in {"none", "waiting", "resolved", "rejected"}
    /\ awaited \in SUBSET Executions

\* cleanup: "confirmed" in a terminal, and the confirmation of an operator, are
\* what the resume gate relies on: whenever the log says so, by whichever of
\* deadline, abort, close and end came first, no process of that tool is left.
ConfirmedMeansStopped ==
    \A e \in Executions :
        \/ ~Alive(e) \/ ~log[e].started
        \/ /\ ~log[e].confirmed
           /\ log[e].ends \in {<<>>, <<"cleanup_unconfirmed">>}

\* reconstructToolExecutionTimeline throws on a second terminal and on a
\* confirmation of what had ended: a log nobody could resume from.
LogIsReadable ==
    \A e \in Executions :
        /\ Len(log[e].ends) <= 1
        /\ log[e].ends # <<>> => log[e].started
        /\ log[e].confirmed => log[e].ends \in {<<>>, <<"cleanup_unconfirmed">>}

\* What the log says of an execution can be read back and is so, whatever
\* came first of its deadline, an abort, a close and its own end.
LogIsTrue == TypeOK /\ ConfirmedMeansStopped /\ LogIsReadable

\* A session of a role never runs beside a process of the session, or of the
\* host, before it.
SessionsDoNotOverlap ==
    up => \A e \in Executions : Alive(e) => att[e].of = session

\* The budget of timeouts belongs to the visit of a role, whatever sessions and
\* resumes it takes: nothing starts when it is spent, the executions whose
\* admission was under way when the last timeout was recorded included.
StartsWithinBudget ==
    [][\A e \in Executions :
         log'[e].started /\ ~log[e].started => TimedOutIn(visit) <= MaxTimeouts]_vars

\* close() returns normally, and no fatal error was reported before, only when
\* every execution of the session is over, stopped and settled in the log.
CloseSettles ==
    closing = "resolved" /\ fatal = "none" =>
        \A e \in Executions : att[e].of = session =>
            e \notin Pending /\ ~Alive(e) /\ ~Unresolved(e)

\* What a session leaves unresolved does not go unnoticed in the process: the
\* host was told of a fatal error or the close does not return normally.
UnresolvedIsTold ==
    \A e \in Executions :
        up /\ att[e].pc = "over" /\ att[e].of = session /\ Unresolved(e)
        => fatal # "none" \/ closing \in {"waiting", "rejected"}

\* Between them the fatal error and the close tell of all that is not settled.
NothingGoesUnnoticed == CloseSettles /\ UnresolvedIsTold

\* Whatever the operation does, a call that was admitted comes to an end.
AttemptsEnd == \A e \in Executions : e \in Pending ~> e \notin Pending
=============================================================================
