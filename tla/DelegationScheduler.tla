------------------------- MODULE DelegationScheduler -------------------------
(***************************************************************************)
(* The delegation scheduler of one parent                                  *)
(* (src/host/delegation/scheduler.ts) with the coordinator that replaces   *)
(* it (production-delegation.ts) and the reconciliation of a resume        *)
(* (reconcile.ts).                                                         *)
(*                                                                         *)
(* The parent of a controller keeps its identity over a resume; that of a  *)
(* role is the role's visit, and a handoff or a resume begins another one. *)
(* The run log keeps what was accepted and what has ended; everything else *)
(* is the memory of one scheduler.                                         *)
(*                                                                         *)
(* An append may succeed, throw without writing, or throw after writing,   *)
(* and the log refuses a second terminal of a child.  An action runs from  *)
(* one await to the next: finish has none, so a terminal is written and    *)
(* its waiters are answered in one step.                                   *)
(*                                                                         *)
(* Left out: redelivery with other inputs (refused, nothing changes), the  *)
(* waits a parent gives up, a cancel of several children (it is a cancel   *)
(* of each), and what a result says.                                       *)
(***************************************************************************)
EXTENDS Naturals, Sequences, FiniteSets

CONSTANTS
    Batches,      \* how many tasks each submission has
    MaxParallel, MaxChildren,
    Controller,   \* the parent is a controller
    MaxCalls,     \* bound: submissions and redeliveries
    MaxVisits,    \* bound: visits of the role
    MaxLives      \* bound: processes that work on the run

ASSUME SchedulerAssumption ==
    /\ Batches \in Seq(Nat \ {0})
    /\ MaxParallel \in Nat \ {0} /\ MaxChildren \in Nat
    /\ Controller \in BOOLEAN /\ {MaxCalls, MaxVisits, MaxLives} \subseteq Nat \ {0}

Subs == DOMAIN Batches
Children == UNION {{<<s, i>> : i \in 1..Batches[s]} : s \in Subs}

VARIABLES
    \* The run log.
    owner,      \* the parent that a submission was accepted for, 0 for none
    terminal,   \* children with a terminal record
    \* The run.
    visit, lives,
    place,      \* up, down, or refused by the constructor
    exhausted,  \* isBudgetExhausted
    \* The scheduler.
    status,     \* unknown, queued, running or settled
    fatal,      \* children with a fatalError
    queue, running,
    live,       \* children whose runTask has not returned
    aborted,    \* children whose controller was aborted
    calls,      \* submissions in the admission queue
    admitting,  \* the submission that is being prepared, 0 for none
    closed, failure, timer,
    settling,   \* how far close has come
    closing,    \* queued children that close has still to cancel
    waiting,    \* children somebody waits for
    cancels,    \* cancel calls that wait for a running child
    \* History.
    started,    \* children whose runTask was called
    made        \* submissions and redeliveries so far

disk == <<owner, terminal>>
run == <<visit, lives, place>>
tasks == <<status, fatal, queue, running, live, aborted>>
admission == <<calls, admitting, made>>
closure == <<closed, failure, timer, settling, closing>>
asking == <<waiting, cancels>>
vars == <<disk, run, exhausted, tasks, admission, closure, asking, started>>

Of(s) == {c \in Children : c[1] = s}
Accepted == {c \in Children : owner[c[1]] # 0}
Mine(v) == {c \in Children : owner[c[1]] = v}

Init ==
    /\ owner = [s \in Subs |-> 0] /\ terminal = {}
    /\ visit = 1 /\ lives = 1 /\ place = "up" /\ exhausted = FALSE
    /\ status = [c \in Children |-> "unknown"] /\ fatal = {}
    /\ queue = <<>> /\ running = 0 /\ live = {} /\ aborted = {}
    /\ calls = <<>> /\ admitting = 0 /\ made = 0
    /\ closed = FALSE /\ failure = "none" /\ timer = FALSE
    /\ settling = "none" /\ closing = <<>>
    /\ waiting = {} /\ cancels = {}
    /\ started = {}

-----------------------------------------------------------------------------
(* The scheduler's private operations.                                     *)

\* Mutant: what has ended is refunded.
SpentRefunding(v) == Cardinality(Mine(v) \ terminal)

\* spentDelegationSlots.
Spent(v) == Cardinality(Mine(v))

\* The outcomes of appending a child's terminal record.
Appends(c) == IF c \in terminal THEN {"refused"} ELSE {"ok", "lost", "torn"}

Write(c, how) == terminal' = IF how \in {"ok", "torn"} THEN terminal \cup {c} ELSE terminal

\* Mutant: the last failure is the one that close reports.
WorseLast(old, new) == new

\* A failure that is not a child's safety error replaces one that is.
Worse(old, new) == IF old = "none" \/ new = "other" THEN new ELSE old

\* Mutant: the waiters of the child are left alone.
FailSilently(kind, cs) ==
    /\ closed' = TRUE /\ timer' = TRUE
    /\ failure' = Worse(failure, kind)
    /\ fatal' = fatal \cup cs
    /\ UNCHANGED <<waiting, settling>>

\* fail, for the children cs if it is about one.
Fail(kind, cs) ==
    /\ closed' = TRUE /\ timer' = TRUE
    /\ failure' = Worse(failure, kind)
    /\ fatal' = fatal \cup cs /\ waiting' = waiting \ cs
    /\ UNCHANGED settling

\* Mutant: a child that was cancelled in the queue is run all the same.
CanRunCancelled(state) == TRUE

\* Whether a child from the queue is run: the others are passed over.
CanRun(state) == state = "queued"

\* The children that run when the first k of the queue q are shifted from it.
Shifted(q, st, k) == {q[i] : i \in {j \in 1..k : CanRun(st[q[j]])}}

Quiet(q, st, l, n) ==
    /\ queue' = q /\ status' = st /\ live' = l /\ running' = n
    /\ UNCHANGED started

\* drain, from the queue q, the states st, the live children l, of which n
\* are counted, and the budget e: it closes an exhausted scheduler, or shifts
\* children until every worker is taken or the queue is empty.
Drain(q, st, l, n, e) ==
    IF closed \/ e
    THEN /\ Quiet(q, st, l, n)
         /\ closed' = TRUE
         /\ settling' = IF e /\ settling = "none" THEN "admission" ELSE settling
    ELSE \E k \in 0..Len(q) :
         LET starting == Shifted(q, st, k)
             free == MaxParallel - n
         IN  /\ Cardinality(starting) <= free
             /\ k = Len(q) \/ Cardinality(starting) = free
             /\ k = 0 \/ Cardinality(Shifted(q, st, k - 1)) < free
             /\ queue' = SubSeq(q, k + 1, Len(q))
             /\ status' = [c \in Children |-> IF c \in starting THEN "running" ELSE st[c]]
             /\ live' = l \cup starting /\ running' = n + Cardinality(starting)
             /\ started' = started \cup starting
             /\ UNCHANGED <<closed, settling>>

-----------------------------------------------------------------------------
(* Submissions.                                                            *)

\* A tool call or controller action, or its redelivery; the calls of an
\* earlier visit are never made again.
Submit(s) ==
    /\ place = "up" /\ made < MaxCalls /\ owner[s] \in {0, visit}
    /\ calls' = Append(calls, s) /\ made' = made + 1
    /\ UNCHANGED <<disk, run, exhausted, tasks, admitting, closure, asking, started>>

Known(s) == \E c \in Of(s) : status[c] # "unknown"

\* The first half of submitOne: a redelivery is answered, a closed
\* scheduler refuses, and otherwise the batch is prepared.
Admit ==
    /\ calls # <<>> /\ admitting = 0
    /\ calls' = Tail(calls)
    /\ LET s == Head(calls)
       IN  admitting' = IF Known(s) \/ closed \/ exhausted THEN 0 ELSE s
    /\ UNCHANGED <<disk, run, exhausted, tasks, made, closure, asking, started>>

\* The preparation failed, or the host or the allowance refuses the batch.
Refuse ==
    /\ admitting # 0 /\ admitting' = 0
    /\ UNCHANGED <<disk, run, exhausted, tasks, calls, made, closure, asking, started>>

Admissible ==
    /\ admitting # 0 /\ ~closed /\ ~exhausted
    /\ Spent(visit) + Batches[admitting] <= MaxChildren

Enqueue(s) ==
    LET st == [c \in Children |-> IF c[1] = s THEN "queued" ELSE status[c]]
    IN  Drain(queue \o [i \in 1..Batches[s] |-> <<s, i>>], st, live, running, exhausted)

Accept ==
    /\ Admissible
    /\ admitting' = 0
    /\ owner' = [owner EXCEPT ![admitting] = visit]
    /\ Enqueue(admitting)
    /\ UNCHANGED <<terminal, run, exhausted, fatal, aborted, calls, made, failure, timer, closing,
                   asking>>

\* The acceptance could not be written, or nobody knows whether it was.
AcceptFails ==
    /\ Admissible
    /\ admitting' = 0
    /\ owner' \in {owner, [owner EXCEPT ![admitting] = visit]}
    /\ Fail("other", {})
    /\ UNCHANGED <<terminal, run, exhausted, status, queue, running, live, aborted, calls, made,
                   closing, cancels, started>>

-----------------------------------------------------------------------------
(* Running children.                                                       *)

\* Mutant: a result whose terminal could not be written is kept.
SettledAnyhow(c, how) == [status EXCEPT ![c] = "settled"]

\* finish: the state of the child after its terminal was appended.
Settled(c, how) == IF how = "ok" THEN [status EXCEPT ![c] = "settled"] ELSE status

\* The task returned, with whatever result; its usage may spend the budget.
RunReturns(c) ==
    \E how \in Appends(c), e \in {exhausted, TRUE} :
        /\ Write(c, how) /\ exhausted' = e
        /\ IF how # "ok"
           THEN Fail("other", {c}) /\ Quiet(queue, status, live \ {c}, running - 1)
           ELSE /\ waiting' = waiting \ {c}
                /\ IF e \/ closed
                   THEN /\ Quiet(queue, Settled(c, how), live \ {c}, running - 1)
                        /\ timer' = (timer \/ e)
                        /\ UNCHANGED <<closed, settling>>
                   ELSE /\ Drain(queue, Settled(c, how), live \ {c}, running - 1, e)
                        /\ UNCHANGED timer
                /\ UNCHANGED <<failure, fatal>>
        /\ UNCHANGED <<owner, run, aborted, admission, closing, cancels>>

\* A DelegationChildSafetyError: the child has ended, its cleanup has not.
RunIsUnsafe(c) ==
    \E how \in Appends(c) :
        /\ Write(c, how)
        /\ closed' = TRUE /\ timer' = TRUE /\ waiting' = waiting \ {c}
        /\ failure' = IF how = "ok" THEN Worse(failure, "safety")
                      ELSE Worse(Worse(failure, "safety"), "other")
        /\ fatal' = IF how = "ok" THEN fatal ELSE fatal \cup {c}
        /\ Quiet(queue, Settled(c, how), live \ {c}, running - 1)
        /\ UNCHANGED <<owner, run, exhausted, aborted, admission, settling, closing, cancels>>

\* Any other error: who owns the child, if it ever started, is not known.
RunIsUnknown(c) ==
    /\ Fail("other", {c})
    /\ Quiet(queue, status, live \ {c}, running - 1)
    /\ UNCHANGED <<disk, run, exhausted, aborted, admission, closing, cancels>>

RunEnds(c) == c \in live /\ (RunReturns(c) \/ RunIsUnsafe(c) \/ RunIsUnknown(c))

\* The usage of the parent spends the run's budget.
SpendBudget ==
    /\ ~exhausted /\ exhausted' = TRUE
    /\ UNCHANGED <<disk, run, tasks, admission, closure, asking, started>>

-----------------------------------------------------------------------------
(* Waiting and cancelling.                                                 *)

Unanswered(c) == status[c] \in {"queued", "running"} /\ c \notin fatal

Wait(c) ==
    /\ Unanswered(c) /\ waiting' = waiting \cup {c}
    /\ UNCHANGED <<disk, run, exhausted, tasks, admission, closure, cancels, started>>

\* A queued child is finished at once, even one whose terminal failed.
CancelQueued(c) ==
    /\ status[c] = "queued"
    /\ \E how \in Appends(c) :
        /\ Write(c, how)
        /\ IF how = "ok"
           THEN /\ waiting' = waiting \ {c}
                /\ Drain(queue, Settled(c, how), live, running, exhausted)
                /\ UNCHANGED <<failure, fatal, timer>>
           ELSE Fail("other", {c}) /\ Quiet(queue, Settled(c, how), live, running)
    /\ UNCHANGED <<owner, run, exhausted, aborted, admission, closing, cancels>>

CancelRunning(c) ==
    /\ c \in live
    /\ aborted' = aborted \cup {c} /\ cancels' = cancels \cup {c}
    /\ UNCHANGED <<disk, run, exhausted, status, fatal, queue, running, live, admission, closure,
                   waiting, started>>

CancelReturns(c) ==
    /\ c \in cancels \ live
    /\ cancels' = cancels \ {c}
    /\ Drain(queue, status, live, running, exhausted)
    /\ UNCHANGED <<disk, run, exhausted, fatal, aborted, admission, failure, timer, closing,
                   waiting>>

-----------------------------------------------------------------------------
(* Closing.                                                                *)

\* close, of the host, of a replacement or of a timer; a second call gets
\* the promise of the first.
Close ==
    /\ place = "up" /\ settling = "none"
    /\ closed' = TRUE /\ settling' = "admission"
    /\ UNCHANGED <<disk, run, exhausted, tasks, admission, failure, timer, closing, asking, started>>

CloseTimer ==
    /\ timer /\ timer' = FALSE
    /\ settling' = IF settling = "none" THEN "admission" ELSE settling
    /\ closed' = TRUE
    /\ UNCHANGED <<disk, run, exhausted, tasks, admission, failure, closing, asking, started>>

\* admissionTail: whatever else waits in it will be refused.
CloseAdmission ==
    /\ settling = "admission" /\ admitting = 0
    /\ settling' = "cancelling" /\ closing' = queue /\ queue' = <<>>
    /\ UNCHANGED <<disk, run, exhausted, status, fatal, running, live, aborted, admission, closed,
                   failure, timer, asking, started>>

CloseCancel ==
    /\ settling = "cancelling" /\ closing # <<>>
    /\ closing' = Tail(closing)
    /\ LET c == Head(closing)
       IN  IF status[c] = "settled" \/ c \in fatal
           THEN UNCHANGED <<terminal, status, fatal, waiting, failure, timer, closed, settling>>
           ELSE \E how \in Appends(c) :
                    /\ Write(c, how) /\ status' = Settled(c, how)
                    /\ IF how = "ok"
                       THEN /\ waiting' = waiting \ {c}
                            /\ UNCHANGED <<failure, fatal, timer, closed, settling>>
                       ELSE Fail("other", {c})
    /\ UNCHANGED <<owner, run, exhausted, queue, running, live, aborted, admission, cancels, started>>

\* Mutant: close waits for running children without stopping them.
CloseAbortNobody ==
    /\ settling = "cancelling" /\ closing = <<>>
    /\ settling' = "waiting"
    /\ UNCHANGED <<disk, run, exhausted, tasks, admission, closed, failure, timer, closing, asking,
                   started>>

CloseAbort ==
    /\ settling = "cancelling" /\ closing = <<>>
    /\ settling' = "waiting" /\ aborted' = aborted \cup live
    /\ UNCHANGED <<disk, run, exhausted, status, fatal, queue, running, live, admission, closed,
                   failure, timer, closing, asking, started>>

AllSettled == \A c \in Children : status[c] \in {"unknown", "settled"} /\ c \notin fatal

CloseDone ==
    /\ settling = "waiting" /\ live = {}
    /\ settling' = IF failure = "other" \/ (failure = "safety" /\ ~AllSettled)
                   THEN "rejected" ELSE "resolved"
    /\ UNCHANGED <<disk, run, exhausted, tasks, admission, closed, failure, timer, closing, asking,
                   started>>

-----------------------------------------------------------------------------
(* Schedulers follow one another.                                          *)

\* The constructor: what the log holds of this parent is restored, and a
\* child without a terminal is not.
Construct(v) ==
    /\ status' = [c \in Children |-> IF c \in Mine(v) \cap terminal THEN "settled" ELSE "unknown"]
    /\ place' = IF Mine(v) \subseteq terminal THEN "up" ELSE "refused"
    /\ fatal' = {} /\ queue' = <<>> /\ running' = 0 /\ aborted' = {}
    /\ calls' = <<>> /\ admitting' = 0
    /\ closed' = FALSE /\ failure' = "none" /\ timer' = FALSE /\ settling' = "none"
    /\ closing' = <<>> /\ waiting' = {} /\ cancels' = {}
    /\ visit' = v

Following == IF Controller THEN {visit} ELSE {visit, visit + 1} \cap (1..MaxVisits)

\* getOrCreateScope, for the model that follows in a visit and for the
\* role's next visit: a scope that ever failed is never replaced.
Replace ==
    /\ place = "up" /\ failure = "none" /\ settling = "resolved" /\ admitting = 0
    /\ \E v \in Following : Construct(v)
    /\ UNCHANGED <<disk, lives, exhausted, live, made, started>>

\* The process ends, and with it everything the scheduler knew.
Crash ==
    /\ place = "up" /\ lives < MaxLives /\ (Controller \/ visit < MaxVisits)
    /\ lives' = lives + 1 /\ place' = "down"
    /\ status' = [c \in Children |-> "unknown"] /\ fatal' = {} /\ queue' = <<>> /\ running' = 0
    /\ live' = {} /\ aborted' = {} /\ calls' = <<>> /\ admitting' = 0
    /\ closed' = TRUE /\ failure' = "none" /\ timer' = FALSE /\ settling' = "none"
    /\ closing' = <<>> /\ waiting' = {} /\ cancels' = {}
    /\ UNCHANGED <<disk, visit, exhausted, made, started>>

\* What reconcileDelegationChildren cancels.
Lost == Accepted \ terminal

Reconcile(c) ==
    /\ place = "down" /\ c \in Lost
    /\ terminal' = terminal \cup {c}
    /\ UNCHANGED <<owner, run, exhausted, tasks, admission, closure, asking, started>>

Resume ==
    /\ place = "down" /\ Lost = {}
    /\ Construct(IF Controller THEN visit ELSE visit + 1)
    /\ UNCHANGED <<disk, lives, exhausted, live, made, started>>

Closing == CloseAdmission \/ CloseCancel \/ CloseAbort \/ CloseDone

Rest ==
    /\ place = "up" /\ calls = <<>> /\ admitting = 0 /\ live = {} /\ cancels = {}
    /\ settling \in {"none", "resolved", "rejected"}
    /\ UNCHANGED vars

Next ==
    \/ \E s \in Subs : Submit(s)
    \/ Admit \/ Refuse \/ Accept \/ AcceptFails \/ SpendBudget
    \/ \E c \in Children :
        RunEnds(c) \/ Wait(c) \/ CancelQueued(c) \/ CancelRunning(c) \/ CancelReturns(c)
        \/ Reconcile(c)
    \/ Close \/ CloseTimer \/ Closing \/ Replace \/ Crash \/ Resume \/ Rest

Spec == Init /\ [][Next]_vars

\* Timers fire and promises are settled; a preparation ends, and so does a
\* child that was aborted, but a child may work for as long as it likes.
FairSpec ==
    /\ Spec
    /\ WF_vars(CloseTimer) /\ WF_vars(Closing) /\ WF_vars(Admit) /\ WF_vars(Refuse \/ Accept \/ AcceptFails)
    /\ \A c \in Children :
        WF_vars(c \in aborted /\ RunEnds(c)) /\ WF_vars(CancelReturns(c))

-----------------------------------------------------------------------------
(* Properties.                                                             *)

States == {"unknown", "queued", "running", "settled"}

TypeOK ==
    /\ owner \in [Subs -> 0..MaxVisits] /\ terminal \subseteq Children
    /\ visit \in 1..MaxVisits /\ lives \in 1..MaxLives /\ place \in {"up", "down", "refused"}
    /\ exhausted \in BOOLEAN
    /\ status \in [Children -> States] /\ fatal \subseteq Children
    /\ queue \in Seq(Children) /\ closing \in Seq(Children)
    /\ running \in Nat /\ live \subseteq Children /\ aborted \subseteq Children
    /\ calls \in Seq(Subs) /\ admitting \in Subs \cup {0} /\ made \in Nat
    /\ closed \in BOOLEAN /\ failure \in {"none", "safety", "other"} /\ timer \in BOOLEAN
    /\ settling \in {"none", "admission", "cancelling", "waiting", "resolved", "rejected"}
    /\ waiting \subseteq Children /\ cancels \subseteq Children /\ started \subseteq Children

\* No more children work than a parent may have, those of a scheduler that
\* was replaced counted, and the scheduler's count is right.
WorkersAreCounted == running = Cardinality(live) /\ running <= MaxParallel

\* The allowance of a parent holds over fallbacks, failures and resumes.
AllowanceHolds == \A v \in 1..MaxVisits : Cardinality(Mine(v)) <= MaxChildren

\* Both limits of a parent hold, the one on its workers at any instant and
\* the one on its children over its whole life.
LimitsHold == TypeOK /\ WorkersAreCounted /\ AllowanceHolds

\* Whatever a waiter or a status is told has ended has ended in the log.
AnswersAreDurable == \A c \in Children : status[c] = "settled" => c \in terminal

\* A close that returns normally has settled everything accepted: nothing
\* runs, nothing is queued and the log has an end for every child.
CloseSettles ==
    settling = "resolved" =>
        /\ live = {} /\ Mine(visit) \subseteq terminal
        /\ \A i \in DOMAIN queue : ~CanRun(status[queue[i]])

\* A child starts once in its life, over redeliveries and resumes, after its
\* acceptance is in the log and before its end is, and only while admission
\* is open and the budget holds.
StartsAreLegal ==
    [][\A c \in live' \ live :
        c \in Accepted' \ (terminal \cup started) /\ ~closed /\ ~exhausted']_vars

\* A resume and a replacement leave nothing that the constructor refuses.
ReplayIsComplete == place # "refused"

\* The log has every end anybody was told of, and enough of them for the
\* scheduler of the next session or life to take over from it.
EndsAreDurable == AnswersAreDurable /\ ReplayIsComplete

\* The end of the scope is waited for until it comes.
CloseEnds == settling = "admission" ~> settling \in {"none", "resolved", "rejected"}

\* Once admission is closed by a failure, or by a spent budget with nobody
\* at work, everybody who waits for a child is answered.
WaitersAreAnswered ==
    waiting # {} /\ (settling # "none" \/ failure # "none" \/ (exhausted /\ live = {}))
        ~> waiting = {}
=============================================================================
