------------------------ MODULE ToolExecutionProofs -------------------------
(***************************************************************************)
(* TLAPS proofs about ToolExecution, for any number of executions,         *)
(* recoverable timeouts, sessions and processes of the host.               *)
(***************************************************************************)
EXTENDS ToolExecution, FiniteSetTheorems, TLAPS

Places == {"idle", "admitting", "racing", "settling", "over"}
Winners == {"none", "ok", "failed", "timeout", "timer", "abort", "close",
            "ambiguous", "plain", "unrecoverable"}
Attempts == [pc : Places, won : Winners, of : 0..MaxSessions, late : BOOLEAN,
             fired : BOOLEAN, aborted : BOOLEAN, woken : BOOLEAN, timed : BOOLEAN]
Logs == [started : BOOLEAN, ends : Seq(Outcomes), confirmed : BOOLEAN,
         visit : 0..MaxSessions]
Fatal == {"exhausted", "unconfirmed", "ambiguous"}

\* What the log says of an execution, where its attempt is, and what is left of
\* its processes.
LogFits(e) ==
    /\ att[e].pc \in {"idle", "admitting"} =>
         log[e].started = FALSE /\ log[e].ends = <<>> /\ log[e].confirmed = FALSE
         /\ op[e] = "none"
    /\ att[e].pc \in {"racing", "settling"} =>
         log[e].started = TRUE /\ log[e].ends = <<>> /\ log[e].confirmed = FALSE
    /\ op[e] \in {"running", "left"} =>
         /\ log[e].started = TRUE /\ log[e].confirmed = FALSE
         /\ log[e].ends \in {<<>>, <<"cleanup_unconfirmed">>}
    /\ log[e].ends \in {<<>>} \cup {<<o>> : o \in Outcomes}
    /\ log[e].ends # <<>> => log[e].started = TRUE
    /\ log[e].confirmed = TRUE => log[e].ends \in {<<>>, <<"cleanup_unconfirmed">>}

\* What won the race of an execution did happen.
RaceFits(e) ==
    /\ att[e].pc = "admitting" => att[e].won = "none"
    /\ att[e].pc = "racing" =>
         /\ att[e].won = "ok" => op[e] \notin {"running", "left"}
         /\ att[e].won \in {"failed", "timeout"} => op[e] # "running"
         /\ att[e].won = "timer" => att[e].fired = TRUE
         /\ att[e].won = "abort" => att[e].aborted = TRUE
         /\ att[e].won = "close" => att[e].woken = TRUE
         /\ att[e].won = "ambiguous" => closed = TRUE
         /\ att[e].won \notin {"plain", "unrecoverable"}

\* To which session an execution belongs, and who is told when its end is not
\* in the log.
Told(e) ==
    /\ att[e].of <= session /\ (att[e].pc = "idle" => att[e].of = 0)
    /\ att[e].pc \in {"admitting", "racing", "settling"} =>
         /\ up = TRUE /\ att[e].of = session
         /\ closing \in {"none", "waiting"} /\ (closing # "none" => e \in awaited)
    /\ up = TRUE /\ closed = TRUE /\ fatal = "none" /\ closing = "none" => att[e].of # session
    /\ up = TRUE /\ op[e] \in {"running", "left"} => att[e].of = session
    /\ up = TRUE /\ att[e].pc = "over" /\ att[e].of = session =>
         /\ log[e].started = TRUE /\ log[e].confirmed = FALSE
            /\ log[e].ends \in {<<>>, <<"cleanup_unconfirmed">>} => att[e].won = "unrecoverable"
         /\ att[e].won = "unrecoverable" =>
              fatal # "none" \/ (closing \in {"waiting", "rejected"} /\ e \in awaited)

\* The controller of the session.
ControllerFits ==
    /\ visit <= session
    /\ up = FALSE => closed = TRUE /\ closing = "none"
    /\ closing # "none" => closed = TRUE
    /\ fatal # "none" => closed = TRUE

\* While admission is open the visit has budget left.
BudgetLeft == closed = FALSE => TimedOutIn(visit) <= MaxTimeouts

IInv ==
    /\ TypeOK /\ ControllerFits /\ BudgetLeft
    /\ \A e \in Executions : LogFits(e) /\ RaceFits(e) /\ Told(e)

-----------------------------------------------------------------------------
(* Lemmas about the operators of the model.                                *)

LEMMA Types ==
    TypeOK <=>
      /\ log \in [Executions -> Logs] /\ op \in [Executions -> {"none", "running", "left", "stopped"}]
      /\ att \in [Executions -> Attempts]
      /\ up \in BOOLEAN /\ lives \in 1..MaxLives
      /\ session \in 1..MaxSessions /\ visit \in 1..MaxSessions
      /\ closed \in BOOLEAN /\ fatal \in {"none"} \cup Fatal
      /\ closing \in {"none", "waiting", "resolved", "rejected"}
      /\ awaited \in SUBSET Executions
BY Zenon DEF TypeOK, Logs, Attempts, Places, Winners, Fatal

LEMMA TypesNext ==
    TypeOK' <=>
      /\ log' \in [Executions -> Logs] /\ op' \in [Executions -> {"none", "running", "left", "stopped"}]
      /\ att' \in [Executions -> Attempts]
      /\ up' \in BOOLEAN /\ lives' \in 1..MaxLives
      /\ session' \in 1..MaxSessions /\ visit' \in 1..MaxSessions
      /\ closed' \in BOOLEAN /\ fatal' \in {"none"} \cup Fatal
      /\ closing' \in {"none", "waiting", "resolved", "rejected"}
      /\ awaited' \in SUBSET Executions
BY Zenon DEF TypeOK, Logs, Attempts, Places, Winners, Fatal

LEMMA UnusedType ==
    Unused \in Attempts /\ Unused.pc = "idle" /\ Unused.of = 0
BY Bounds DEF Unused, Attempts, Places, Winners

LEMMA OverShape ==
    ASSUME TypeOK, NEW e \in Executions, NEW end \in {"plain", "unrecoverable"}
    PROVE  /\ Over(e, end) \in Attempts /\ Over(e, end).pc = "over"
           /\ Over(e, end).of = att[e].of /\ Over(e, end).won = end
<1>1. att[e] \in Attempts BY Types
<1>2. att[e].of \in 0..MaxSessions BY <1>1 DEF Attempts
<1>. QED BY <1>2 DEF Over, Unused, Attempts, Places, Winners

\* Being woken changes what a race knows and nothing else of an attempt.
LEMMA WokenShape ==
    ASSUME NEW a \in Attempts, NEW by \in {"close", "ambiguous"}
    PROVE  /\ Woken(a, by) \in Attempts
           /\ Woken(a, by).pc = a.pc /\ Woken(a, by).of = a.of
           /\ a.pc # "racing" => Woken(a, by) = a
           /\ Woken(a, by).fired = a.fired /\ Woken(a, by).aborted = a.aborted
           /\ a.woken = TRUE => Woken(a, by).woken = TRUE
           /\ Woken(a, by).won # a.won => Woken(a, by).won = by
           /\ a.pc = "racing" => Woken(a, by).woken = TRUE
BY DEF Woken, Attempts, Places, Winners

\* The executions of a visit that the log says timed out.
TimedOutOf(v) == {e \in Executions : log[e].visit = v /\ Contains(log[e].ends, "timed_out")}

LEMMA TimedOutIsNatural ==
    ASSUME NEW v
    PROVE  /\ IsFiniteSet(TimedOutOf(v)) /\ TimedOutIn(v) \in Nat
           /\ TimedOutIn(v) = Cardinality(TimedOutOf(v))
<1>1. IsFiniteSet(Executions)
  <2>1. 1 \in Int /\ MaxExecutions \in Int BY Bounds
  <2>. QED BY <2>1, FS_Interval DEF Executions
<1>2. TimedOutOf(v) \in SUBSET Executions BY DEF TimedOutOf
<1>3. IsFiniteSet(TimedOutOf(v)) BY <1>1, <1>2, FS_Subset
<1>. QED BY <1>3, FS_CardinalityType DEF TimedOutOf, TimedOutIn

LEMMA TimedOutIsNaturalNext ==
    ASSUME NEW v
    PROVE  /\ IsFiniteSet(TimedOutOf(v)') /\ TimedOutIn(v)' \in Nat
           /\ TimedOutIn(v)' = Cardinality(TimedOutOf(v)')
<1>1. IsFiniteSet(Executions)
  <2>1. 1 \in Int /\ MaxExecutions \in Int BY Bounds
  <2>. QED BY <2>1, FS_Interval DEF Executions
<1>2. TimedOutOf(v)' \in SUBSET Executions BY DEF TimedOutOf
<1>3. IsFiniteSet(TimedOutOf(v)') BY <1>1, <1>2, FS_Subset
<1>. QED BY <1>3, FS_CardinalityType DEF TimedOutOf, TimedOutIn

\* A step that changes the log of one execution adds one timeout at most, and
\* none if that execution has not timed out after it.
LEMMA TimeoutsGrowByOne ==
    ASSUME NEW e \in Executions, NEW v,
           \A f \in Executions \ {e} : log'[f] = log[f]
    PROVE  /\ TimedOutIn(v)' <= TimedOutIn(v) + 1
           /\ ~Contains(log'[e].ends, "timed_out") => TimedOutIn(v)' <= TimedOutIn(v)
<1>1. IsFiniteSet(TimedOutOf(v)) /\ TimedOutIn(v) \in Nat
      /\ TimedOutIn(v) = Cardinality(TimedOutOf(v))
  BY TimedOutIsNatural
<1>2. IsFiniteSet(TimedOutOf(v)') /\ TimedOutIn(v)' \in Nat
      /\ TimedOutIn(v)' = Cardinality(TimedOutOf(v)')
  BY TimedOutIsNaturalNext
<1>3. TimedOutOf(v)' \in SUBSET (TimedOutOf(v) \cup {e})
  BY Zenon DEF TimedOutOf
<1>4. /\ IsFiniteSet(TimedOutOf(v) \cup {e})
      /\ Cardinality(TimedOutOf(v) \cup {e}) =
           IF e \in TimedOutOf(v) THEN Cardinality(TimedOutOf(v))
           ELSE Cardinality(TimedOutOf(v)) + 1
  BY <1>1, FS_AddElement
<1>5. Cardinality(TimedOutOf(v)') <= Cardinality(TimedOutOf(v) \cup {e})
  BY <1>3, <1>4, FS_Subset
<1>6. ASSUME ~Contains(log'[e].ends, "timed_out")
      PROVE  TimedOutIn(v)' <= TimedOutIn(v)
  <2>1. TimedOutOf(v)' \in SUBSET TimedOutOf(v)
    BY <1>6, Zenon DEF TimedOutOf
  <2>2. Cardinality(TimedOutOf(v)') <= Cardinality(TimedOutOf(v))
    BY <1>1, <2>1, FS_Subset
  <2>. QED BY <1>1, <1>2, <2>2
<1>. QED BY <1>1, <1>2, <1>4, <1>5, <1>6

\* UnresolvedIs: the gate on the log, read off the record.
LEMMA UnresolvedIs ==
    ASSUME IInv, NEW e \in Executions
    PROVE  Unresolved(e) <=>
             /\ log[e].started = TRUE /\ log[e].confirmed = FALSE
             /\ log[e].ends \in {<<>>, <<"cleanup_unconfirmed">>}
<1>1. log[e] \in Logs BY Types DEF IInv
<1>2. log[e].started \in BOOLEAN /\ log[e].confirmed \in BOOLEAN BY <1>1 DEF Logs
<1>3. ToSet(log[e].ends) \subseteq {"cleanup_unconfirmed"} <=>
        log[e].ends \in {<<>>, <<"cleanup_unconfirmed">>}
  <2>1. CASE log[e].ends = <<>> BY <2>1 DEF ToSet
  <2>2. ASSUME NEW o \in Outcomes, log[e].ends = <<o>>
        PROVE  /\ ToSet(log[e].ends) = {o}
               /\ log[e].ends \in {<<>>, <<"cleanup_unconfirmed">>} <=> o = "cleanup_unconfirmed"
    BY <2>2 DEF ToSet
  <2>. QED BY <2>1, <2>2 DEF IInv, LogFits
<1>. QED BY <1>2, <1>3 DEF Unresolved

-----------------------------------------------------------------------------
(* A step of one execution leaves the others where they are, or wakes them *)
(* with a fatal error.                                                     *)

\* The controller as it was, or closed by a fatal error.
ClosesAtMost ==
    \/ UNCHANGED <<closed, fatal>>
    \/ closed = FALSE /\ closed' = TRUE /\ fatal' \in Fatal

OthersWokenAtMost(e) ==
    \A f \in Executions \ {e} :
        \/ att'[f] = att[f]
        \/ closed' = TRUE /\ \E by \in {"close", "ambiguous"} : att'[f] = Woken(att[f], by)

OneStep(e) ==
    /\ UNCHANGED <<place, closing, awaited>>
    /\ ClosesAtMost /\ OthersWokenAtMost(e)
    /\ \A f \in Executions \ {e} : log'[f] = log[f] /\ op'[f] = op[f]

LEMMA WokenKeepsFit ==
    ASSUME IInv, UNCHANGED <<place, closing, awaited>>, ClosesAtMost,
           NEW f \in Executions, log'[f] = log[f], op'[f] = op[f],
           \/ att'[f] = att[f]
           \/ closed' = TRUE /\ \E by \in {"close", "ambiguous"} : att'[f] = Woken(att[f], by)
    PROVE  LogFits(f)' /\ RaceFits(f)' /\ Told(f)'
<1>1. att[f] \in Attempts BY Types DEF IInv
<1>2. /\ att'[f].pc = att[f].pc /\ att'[f].of = att[f].of
      /\ att[f].pc # "racing" => att'[f] = att[f]
      /\ att'[f].fired = att[f].fired /\ att'[f].aborted = att[f].aborted
      /\ att[f].woken = TRUE => att'[f].woken = TRUE
      /\ att'[f].won # att[f].won =>
           closed' = TRUE /\ att'[f].won \in {"close", "ambiguous"} /\ att'[f].woken = TRUE
  <2>1. CASE att'[f] = att[f] BY <2>1
  <2>2. ASSUME NEW by \in {"close", "ambiguous"}, att'[f] = Woken(att[f], by),
               closed' = TRUE
        PROVE  /\ att'[f].pc = att[f].pc /\ att'[f].of = att[f].of
               /\ att[f].pc # "racing" => att'[f] = att[f]
               /\ att'[f].fired = att[f].fired /\ att'[f].aborted = att[f].aborted
               /\ att[f].woken = TRUE => att'[f].woken = TRUE
               /\ att'[f].won # att[f].won =>
                    closed' = TRUE /\ att'[f].won \in {"close", "ambiguous"}
                    /\ att'[f].woken = TRUE
    <3>1. /\ Woken(att[f], by).pc = att[f].pc /\ Woken(att[f], by).of = att[f].of
          /\ att[f].pc # "racing" => Woken(att[f], by) = att[f]
          /\ Woken(att[f], by).fired = att[f].fired
          /\ Woken(att[f], by).aborted = att[f].aborted
          /\ att[f].woken = TRUE => Woken(att[f], by).woken = TRUE
          /\ Woken(att[f], by).won # att[f].won => Woken(att[f], by).won = by
          /\ att[f].pc = "racing" => Woken(att[f], by).woken = TRUE
      BY <1>1, WokenShape, Zenon
    <3>2. Woken(att[f], by).won # att[f].won => att[f].pc = "racing" BY <3>1, Zenon
    <3>. QED BY <2>2, <3>1, <3>2, Zenon
  <2>. QED BY <2>1, <2>2
<1>3. LogFits(f)' BY <1>2 DEF IInv, LogFits
<1>4. RaceFits(f)' BY <1>2 DEF IInv, RaceFits, ClosesAtMost
<1>5. Told(f)'
  BY <1>2 DEF IInv, Told, ControllerFits, ClosesAtMost, Fatal, place
<1>. QED BY <1>3, <1>4, <1>5

LEMMA OneStepKeeps ==
    ASSUME IInv, NEW e \in Executions, OneStep(e),
           TypeOK', BudgetLeft', LogFits(e)', RaceFits(e)', Told(e)'
    PROVE  IInv'
<1>1. ASSUME NEW f \in Executions PROVE LogFits(f)' /\ RaceFits(f)' /\ Told(f)'
  <2>1. CASE f = e BY <2>1
  <2>2. CASE f # e BY <2>2, WokenKeepsFit DEF OneStep, OthersWokenAtMost
  <2>. QED BY <2>1, <2>2
<1>2. ControllerFits'
  BY DEF IInv, ControllerFits, OneStep, ClosesAtMost, Fatal, place
<1>. QED BY <1>1, <1>2 DEF IInv

\* The types of one step: what it does to its own execution, and a function.
LEMMA OneStepType ==
    ASSUME IInv, NEW e \in Executions, OneStep(e),
           log' = [log EXCEPT ![e] = log'[e]], log'[e] \in Logs,
           op' = [op EXCEPT ![e] = op'[e]], op'[e] \in {"none", "running", "left", "stopped"},
           att' = [f \in Executions |-> att'[f]], att'[e] \in Attempts
    PROVE  TypeOK'
<1>1. log' \in [Executions -> Logs] BY Types DEF IInv
<1>2. op' \in [Executions -> {"none", "running", "left", "stopped"}]
  BY Types DEF IInv
<1>3. ASSUME NEW f \in Executions PROVE att'[f] \in Attempts
  <2>1. att[f] \in Attempts BY Types DEF IInv
  <2>2. CASE f = e BY <2>2
  <2>3. CASE f # e
    <3>1. \/ att'[f] = att[f]
          \/ \E by \in {"close", "ambiguous"} : att'[f] = Woken(att[f], by)
      BY <2>3, Zenon DEF OneStep, OthersWokenAtMost
    <3>2. \A by \in {"close", "ambiguous"} : Woken(att[f], by) \in Attempts
      BY <2>1, WokenShape, Zenon
    <3>. QED BY <2>1, <3>1, <3>2, Zenon
  <2>. QED BY <2>2, <2>3
<1>4. att' \in [Executions -> Attempts] BY <1>3
<1>5. /\ closed' \in BOOLEAN /\ fatal' \in {"none"} \cup Fatal
  BY Types DEF IInv, OneStep, ClosesAtMost
<1>6. /\ up' \in BOOLEAN /\ lives' \in 1..MaxLives
      /\ session' \in 1..MaxSessions /\ visit' \in 1..MaxSessions
      /\ closing' \in {"none", "waiting", "resolved", "rejected"}
      /\ awaited' \in SUBSET Executions
  BY Types DEF IInv, OneStep, place
<1>. QED BY <1>1, <1>2, <1>4, <1>5, <1>6, TypesNext

\* A step after which its execution has not timed out costs no budget.
LEMMA BudgetStays ==
    ASSUME IInv, NEW e \in Executions, OneStep(e),
           ~Contains(log'[e].ends, "timed_out") \/ closed' = TRUE
    PROVE  BudgetLeft'
<1>1. CASE closed' = TRUE BY <1>1 DEF BudgetLeft
<1>2. CASE closed' # TRUE
  <2>1. closed = FALSE BY <1>2 DEF IInv, TypeOK, OneStep, ClosesAtMost
  <2>2. TimedOutIn(visit) <= MaxTimeouts BY <2>1 DEF IInv, BudgetLeft
  <2>3. ASSUME NEW v PROVE TimedOutIn(v)' <= TimedOutIn(v)
    BY <1>2, TimeoutsGrowByOne DEF OneStep
  <2>4. /\ visit' = visit /\ TimedOutIn(visit) \in Nat /\ TimedOutIn(visit)' \in Nat
        /\ TimedOutIn(visit)' <= TimedOutIn(visit)
    <3>1. visit' = visit BY DEF OneStep, place
    <3>2. \A v : TimedOutIn(v) \in Nat /\ TimedOutIn(v)' \in Nat
      BY TimedOutIsNatural, TimedOutIsNaturalNext
    <3>. QED BY <2>3, <3>1, <3>2 DEF TimedOutIn
  <2>. QED BY <2>2, <2>4, Bounds DEF BudgetLeft
<1>. QED BY <1>1, <1>2

-----------------------------------------------------------------------------
(* The steps of a race that is not over.                                   *)

LEMMA CallStep == ASSUME IInv, NEW e \in Executions, Call(e) PROVE IInv'
<1>1. /\ up = TRUE /\ closed = FALSE /\ att[e].pc = "idle"
      /\ att' = [att EXCEPT ![e] = [Unused EXCEPT !.pc = "admitting", !.of = session]]
      /\ UNCHANGED <<log, op, closed, fatal, closing, awaited, place>>
  BY DEF Call, In, IInv, TypeOK
<1>2. /\ att'[e] \in Attempts /\ att'[e].pc = "admitting" /\ att'[e].of = session
      /\ att'[e].won = "none"
      /\ \A f \in Executions \ {e} : att'[f] = att[f]
      /\ att' = [f \in Executions |-> att'[f]]
  <2> DEFINE a == [Unused EXCEPT !.pc = "admitting", !.of = session]
  <2>1. session \in 0..MaxSessions BY Types, Bounds DEF IInv
  <2>2. a \in Attempts /\ a.pc = "admitting" /\ a.of = session /\ a.won = "none"
    BY <2>1 DEF Attempts, Unused, Places, Winners
  <2>3. att'[e] = a /\ (\A f \in Executions \ {e} : att'[f] = att[f])
        /\ att' = [f \in Executions |-> att'[f]]
    BY <1>1, Types DEF IInv
  <2>. QED BY <2>2, <2>3
<1>3. OneStep(e) BY <1>1, <1>2 DEF OneStep, ClosesAtMost, OthersWokenAtMost
<1>4. LogFits(e)' BY <1>1, <1>2 DEF IInv, LogFits
<1>5. RaceFits(e)' BY <1>2 DEF RaceFits
<1>6. Told(e)' BY <1>1, <1>2, Types, Bounds DEF IInv, Told, ControllerFits, LogFits, place
<1>7. TypeOK' BY <1>1, <1>2, <1>3, Types, OneStepType DEF IInv
<1>8. BudgetLeft'
  BY <1>1, <1>3, BudgetStays DEF IInv, BudgetLeft, TimedOutIn, place
<1>. QED BY <1>3, <1>4, <1>5, <1>6, <1>7, <1>8, OneStepKeeps

\* A change of an attempt in memory that keeps where it is and whose it is.
LEMMA MemoryStep ==
    ASSUME IInv, NEW e \in Executions, NEW a \in Attempts,
           a.pc = att[e].pc, a.of = att[e].of, att[e].pc = "racing",
           att' = [att EXCEPT ![e] = a],
           UNCHANGED <<log, closed, fatal, closing, awaited, place>>,
           op' = [op EXCEPT ![e] = op'[e]], op'[e] \in {"none", "running", "left", "stopped"},
           op'[e] \in {"running", "left"} => op[e] = "running" \/ op'[e] = op[e],
           RaceFits(e)'
    PROVE  IInv'
<1>1. /\ att'[e] = a /\ att' = [f \in Executions |-> att'[f]]
      /\ \A f \in Executions \ {e} : att'[f] = att[f] /\ op'[f] = op[f]
  BY Types DEF IInv
<1>2. OneStep(e) BY <1>1 DEF OneStep, ClosesAtMost, OthersWokenAtMost
<1>3. LogFits(e)' BY <1>1 DEF IInv, LogFits
<1>4. Told(e)' BY <1>1 DEF IInv, Told, place
<1>5. TypeOK' BY <1>1, <1>2, Types, OneStepType DEF IInv
<1>6. BudgetLeft' BY DEF IInv, BudgetLeft, TimedOutIn, place
<1>. QED BY <1>2, <1>3, <1>4, <1>5, <1>6, OneStepKeeps

LEMMA DeadlinePassesStep == ASSUME IInv, NEW e \in Executions, DeadlinePasses(e) PROVE IInv'
<1>1. /\ att[e].pc = "racing" /\ att[e] \in Attempts
      /\ att' = [att EXCEPT ![e] = [att[e] EXCEPT !.late = TRUE]]
      /\ UNCHANGED <<log, op, closed, fatal, closing, awaited, place>>
  BY Types DEF DeadlinePasses, In, IInv
<1>2. /\ [att[e] EXCEPT !.late = TRUE] \in Attempts
      /\ [att[e] EXCEPT !.late = TRUE].pc = att[e].pc
      /\ [att[e] EXCEPT !.late = TRUE].of = att[e].of
  BY <1>1 DEF Attempts
<1>3. RaceFits(e)'
  BY <1>1, Types DEF IInv, RaceFits, Attempts
<1>. QED BY <1>1, <1>2, <1>3, MemoryStep, Types DEF IInv

LEMMA WakesStep ==
    ASSUME IInv, NEW e \in Executions,
           TimerFires(e) \/ ExternalAbort(e)
    PROVE  IInv'
<1>1. CASE TimerFires(e)
  <2> DEFINE a == [att[e] EXCEPT !.fired = TRUE,
                                 !.won = IF att[e].won = "none" THEN "timer" ELSE att[e].won]
  <2>1. /\ att[e].pc = "racing" /\ att[e] \in Attempts
        /\ att' = [att EXCEPT ![e] = a]
        /\ UNCHANGED <<log, op, closed, fatal, closing, awaited, place>>
    BY <1>1, Types DEF TimerFires, Wakes, In, IInv, Attempts
  <2>2. /\ a \in Attempts /\ a.pc = att[e].pc /\ a.of = att[e].of /\ a.fired = TRUE
        /\ a.aborted = att[e].aborted /\ a.woken = att[e].woken
        /\ a.won \in {att[e].won, "timer"}
    BY <2>1 DEF Attempts, Winners
  <2>3. att'[e] = a BY <2>1, Types DEF IInv
  <2>4. RaceFits(e)' BY <2>1, <2>2, <2>3 DEF IInv, RaceFits
  <2>. QED BY <2>1, <2>2, <2>4, MemoryStep, Types DEF IInv
<1>2. CASE ExternalAbort(e)
  <2> DEFINE a == [att[e] EXCEPT !.aborted = TRUE,
                                 !.won = IF att[e].won = "none" THEN "abort" ELSE att[e].won]
  <2>1. /\ att[e].pc = "racing" /\ att[e] \in Attempts
        /\ att' = [att EXCEPT ![e] = a]
        /\ UNCHANGED <<log, op, closed, fatal, closing, awaited, place>>
    BY <1>2, Types DEF ExternalAbort, Wakes, In, IInv, Attempts
  <2>2. /\ a \in Attempts /\ a.pc = att[e].pc /\ a.of = att[e].of /\ a.aborted = TRUE
        /\ a.fired = att[e].fired /\ a.woken = att[e].woken
        /\ a.won \in {att[e].won, "abort"}
    BY <2>1 DEF Attempts, Winners
  <2>3. att'[e] = a BY <2>1, Types DEF IInv
  <2>4. RaceFits(e)' BY <2>1, <2>2, <2>3 DEF IInv, RaceFits
  <2>. QED BY <2>1, <2>2, <2>4, MemoryStep, Types DEF IInv
<1>. QED BY <1>1, <1>2

\* An operation that settles may win its race, and outlives a crash.
LEMMA OperationEndsStep ==
    ASSUME IInv, NEW e \in Executions, NEW how \in {"ok", "failed", "timeout"},
           NEW rest \in {"stopped", "left"}, OperationEnds(e, how, rest)
    PROVE  IInv'
<1>1. /\ op[e] = "running" /\ (how = "ok" => rest = "stopped")
      /\ op' = [op EXCEPT ![e] = rest]
      /\ UNCHANGED <<log, closed, fatal, closing, awaited, place>>
      /\ att[e] \in Attempts
  BY Types DEF OperationEnds, IInv
<1>2. op'[e] = rest /\ \A f \in Executions \ {e} : op'[f] = op[f]
  BY <1>1, Types DEF IInv
<1>3. CASE att[e].pc = "racing" /\ att[e].won = "none"
  <2>1. att' = [att EXCEPT ![e] = [att[e] EXCEPT !.won = how]]
    BY <1>3 DEF OperationEnds
  <2>2. /\ [att[e] EXCEPT !.won = how] \in Attempts
        /\ [att[e] EXCEPT !.won = how].pc = att[e].pc
        /\ [att[e] EXCEPT !.won = how].of = att[e].of
        /\ [att[e] EXCEPT !.won = how].won = how
    BY <1>1 DEF Attempts, Winners
  <2>3. att'[e] = [att[e] EXCEPT !.won = how] BY <2>1, Types DEF IInv
  <2>4. RaceFits(e)'
    <3>1. att'[e].won = how /\ att'[e].pc = "racing" BY <1>3, <2>2, <2>3
    <3>. QED BY <1>1, <1>2, <3>1 DEF RaceFits
  <2>. QED BY <1>1, <1>2, <1>3, <2>1, <2>2, <2>4, MemoryStep
<1>4. CASE ~(att[e].pc = "racing" /\ att[e].won = "none")
  <2>1. att' = att BY <1>4 DEF OperationEnds
  <2>2. OneStep(e) BY <1>1, <1>2, <2>1 DEF OneStep, ClosesAtMost, OthersWokenAtMost
  <2>3. LogFits(e)' BY <1>1, <1>2, <2>1 DEF IInv, LogFits
  <2>4. RaceFits(e)' BY <1>1, <1>2, <2>1 DEF IInv, RaceFits
  <2>5. Told(e)' BY <1>1, <1>2, <2>1 DEF IInv, Told, place
  <2>6. TypeOK' BY <1>1, <1>2, <2>1, <2>2, Types, OneStepType DEF IInv
  <2>7. BudgetLeft' BY <1>1 DEF IInv, BudgetLeft, TimedOutIn, place
  <2>. QED BY <2>2, <2>3, <2>4, <2>5, <2>6, <2>7, OneStepKeeps
<1>. QED BY <1>3, <1>4

LEMMA OrphanEndsStep == ASSUME IInv, NEW e \in Executions, OrphanEnds(e) PROVE IInv'
<1>1. /\ op' = [op EXCEPT ![e] = "stopped"]
      /\ UNCHANGED <<log, att, closed, fatal, closing, awaited, place>>
  BY DEF OrphanEnds, memory
<1>2. op'[e] = "stopped" /\ \A f \in Executions \ {e} : op'[f] = op[f]
  BY <1>1, Types DEF IInv
<1>3. att[e].pc = "over" BY DEF OrphanEnds, In
<1>4. OneStep(e) BY <1>1, <1>2 DEF OneStep, ClosesAtMost, OthersWokenAtMost
<1>5. LogFits(e)' BY <1>1, <1>2, <1>3 DEF IInv, LogFits
<1>6. RaceFits(e)' BY <1>1, <1>3 DEF RaceFits
<1>7. Told(e)' BY <1>1, <1>2 DEF IInv, Told, place
<1>8. TypeOK' BY <1>1, <1>2, <1>4, Types, OneStepType DEF IInv
<1>9. BudgetLeft' BY <1>1 DEF IInv, BudgetLeft, TimedOutIn, place
<1>. QED BY <1>4, <1>5, <1>6, <1>7, <1>8, <1>9, OneStepKeeps

LEMMA AwaitStep == ASSUME IInv, NEW e \in Executions, Await(e) PROVE IInv'
<1>1. /\ att[e].pc = "racing" /\ att[e] \in Attempts
      /\ att' = [att EXCEPT ![e] = [Unused EXCEPT !.pc = "settling", !.of = att[e].of,
                                                  !.timed = TimedOut(e)]]
      /\ UNCHANGED <<log, op, closed, fatal, closing, awaited, place>>
  BY Types DEF Await, Failing, In, IInv
<1>2. TimedOut(e) \in BOOLEAN
  <2>1. att[e].fired \in BOOLEAN BY <1>1 DEF Attempts
  <2>. QED BY <2>1, Zenon DEF TimedOut
<1>3. /\ att'[e] \in Attempts /\ att'[e].pc = "settling" /\ att'[e].of = att[e].of
      /\ \A f \in Executions \ {e} : att'[f] = att[f]
      /\ att' = [f \in Executions |-> att'[f]]
  <2> DEFINE a == [Unused EXCEPT !.pc = "settling", !.of = att[e].of, !.timed = TimedOut(e)]
  <2>1. att[e].of \in 0..MaxSessions BY <1>1 DEF Attempts
  <2>2. a \in Attempts /\ a.pc = "settling" /\ a.of = att[e].of
    BY <1>2, <2>1 DEF Attempts, Unused, Places, Winners
  <2>3. att'[e] = a /\ (\A f \in Executions \ {e} : att'[f] = att[f])
        /\ att' = [f \in Executions |-> att'[f]]
    BY <1>1, Types DEF IInv
  <2>. QED BY <2>2, <2>3
<1>4. OneStep(e) BY <1>1, <1>3 DEF OneStep, ClosesAtMost, OthersWokenAtMost
<1>5. LogFits(e)' BY <1>1, <1>3 DEF IInv, LogFits
<1>6. RaceFits(e)' BY <1>3 DEF RaceFits
<1>7. Told(e)' BY <1>1, <1>3 DEF IInv, Told, place
<1>8. TypeOK' BY <1>1, <1>3, <1>4, Types, OneStepType DEF IInv
<1>9. BudgetLeft' BY <1>1 DEF IInv, BudgetLeft, TimedOutIn, place
<1>. QED BY <1>4, <1>5, <1>6, <1>7, <1>8, <1>9, OneStepKeeps

-----------------------------------------------------------------------------
(* The steps that end an attempt.                                          *)

\* A fatal error closes the controller, unless it is closed, and reaches the
\* attempts beside the one that ends.
LEMMA FatalShape ==
    ASSUME IInv, NEW e \in Executions, NEW kind \in Fatal,
           NEW next \in [Executions -> Attempts],
           \A f \in Executions \ {e} : next[f] = att[f],
           CloseOnFatal(kind, next)
    PROVE  /\ ClosesAtMost /\ closed' = TRUE /\ OthersWokenAtMost(e)
           /\ att' = [f \in Executions |-> att'[f]]
           /\ next[e].pc # "racing" => att'[e] = next[e]
<1>1. CASE closed = TRUE
  <2>1. att' = next /\ UNCHANGED <<closed, fatal>> BY <1>1 DEF CloseOnFatal
  <2>. QED BY <1>1, <2>1 DEF ClosesAtMost, OthersWokenAtMost
<1>2. CASE closed = FALSE
  <2> DEFINE by == IF kind = "ambiguous" THEN "ambiguous" ELSE "close"
  <2>1. /\ closed' = TRUE /\ fatal' = kind
        /\ att' = [f \in Executions |-> Woken(next[f], by)]
    BY <1>2 DEF CloseOnFatal
  <2>2. by \in {"close", "ambiguous"} OBVIOUS
  <2> HIDE DEF by
  <2>3. \A f \in Executions : att'[f] = Woken(next[f], by) BY <2>1
  <2>4. OthersWokenAtMost(e) BY <2>1, <2>2, <2>3 DEF OthersWokenAtMost
  <2>5. next[e].pc # "racing" => att'[e] = next[e] BY <2>3 DEF Woken
  <2>. QED BY <1>2, <2>1, <2>4, <2>5 DEF ClosesAtMost
<1>. QED BY <1>1, <1>2 DEF IInv, TypeOK

\* An attempt that is over has settled, or the session is told.
LEMMA EndedIsTold ==
    ASSUME IInv, NEW e \in Executions, NEW end \in {"plain", "unrecoverable"},
           att[e].pc \in {"admitting", "racing", "settling"},
           UNCHANGED <<place, closing, awaited>>, ClosesAtMost,
           att'[e] = Over(e, end),
           end = "unrecoverable" => closed' = TRUE,
           end = "plain" =>
             ~(log'[e].started = TRUE /\ log'[e].confirmed = FALSE
               /\ log'[e].ends \in {<<>>, <<"cleanup_unconfirmed">>})
    PROVE  Told(e)'
<1>1. att'[e].pc = "over" /\ att'[e].of = att[e].of /\ att'[e].won = end
  BY OverShape DEF IInv
<1>2. /\ up = TRUE /\ att[e].of = session /\ closing \in {"none", "waiting"}
      /\ closing # "none" => e \in awaited
      /\ ~(closed = TRUE /\ fatal = "none" /\ closing = "none")
      /\ att[e].of <= session
  BY DEF IInv, Told
<1>3. end = "unrecoverable" => fatal' # "none" \/ closing # "none"
  BY <1>2 DEF ClosesAtMost, Fatal
<1>4. ~(closed' = TRUE /\ fatal' = "none" /\ closing = "none")
  BY <1>2 DEF ClosesAtMost, Fatal
<1>. QED BY <1>1, <1>2, <1>3, <1>4 DEF Told, place

\* Over attempts in place of the one that ends.
LEMMA EndedShape ==
    ASSUME IInv, NEW e \in Executions, NEW end \in {"plain", "unrecoverable"}
    PROVE  LET next == [att EXCEPT ![e] = Over(e, end)]
           IN  /\ next \in [Executions -> Attempts]
               /\ next[e] = Over(e, end) /\ next[e].pc = "over" /\ next[e].of = att[e].of
               /\ \A f \in Executions \ {e} : next[f] = att[f]
               /\ next = [f \in Executions |-> next[f]]
BY OverShape, Types DEF IInv

LEMMA StartRefusedStep == ASSUME IInv, NEW e \in Executions, StartRefused(e) PROVE IInv'
<1>1. /\ att[e].pc = "admitting" /\ att' = [att EXCEPT ![e] = Over(e, "plain")]
      /\ UNCHANGED <<log, op, closed, fatal, closing, awaited, place>>
  BY DEF StartRefused, In
<1>2. /\ att'[e] = Over(e, "plain") /\ att'[e] \in Attempts /\ att'[e].pc = "over"
      /\ \A f \in Executions \ {e} : att'[f] = att[f]
      /\ att' = [f \in Executions |-> att'[f]]
  BY <1>1, EndedShape, OverShape DEF IInv
<1>3. OneStep(e) BY <1>1, <1>2 DEF OneStep, ClosesAtMost, OthersWokenAtMost
<1>4. LogFits(e)' BY <1>1, <1>2 DEF IInv, LogFits
<1>5. RaceFits(e)' BY <1>2 DEF RaceFits
<1>6. Told(e)'
  <2>1. log'[e].started = FALSE BY <1>1 DEF IInv, LogFits
  <2>. QED BY <1>1, <1>2, <1>3, <2>1, EndedIsTold DEF OneStep
<1>7. TypeOK' BY <1>1, <1>2, <1>3, Types, OneStepType DEF IInv
<1>8. BudgetLeft' BY <1>1 DEF IInv, BudgetLeft, TimedOutIn, place
<1>. QED BY <1>3, <1>4, <1>5, <1>6, <1>7, <1>8, OneStepKeeps

LEMMA RethrowStep == ASSUME IInv, NEW e \in Executions, Rethrow(e) PROVE IInv'
<1>1. /\ att[e].pc = "racing" /\ att[e].won = "ambiguous"
      /\ att' = [att EXCEPT ![e] = Over(e, "unrecoverable")]
      /\ UNCHANGED <<log, op, closed, fatal, closing, awaited, place>>
  BY DEF Rethrow, In
<1>2. /\ att'[e] = Over(e, "unrecoverable") /\ att'[e] \in Attempts /\ att'[e].pc = "over"
      /\ \A f \in Executions \ {e} : att'[f] = att[f]
      /\ att' = [f \in Executions |-> att'[f]]
  BY <1>1, EndedShape, OverShape DEF IInv
<1>3. OneStep(e) BY <1>1, <1>2 DEF OneStep, ClosesAtMost, OthersWokenAtMost
<1>4. LogFits(e)' BY <1>1, <1>2 DEF IInv, LogFits
<1>5. RaceFits(e)' BY <1>2 DEF RaceFits
<1>6. closed' = TRUE BY <1>1 DEF IInv, RaceFits
<1>7. Told(e)' BY <1>1, <1>2, <1>3, <1>6, EndedIsTold DEF OneStep
<1>8. TypeOK' BY <1>1, <1>2, <1>3, Types, OneStepType DEF IInv
<1>9. BudgetLeft' BY <1>6 DEF BudgetLeft
<1>. QED BY <1>3, <1>4, <1>5, <1>7, <1>8, <1>9, OneStepKeeps

\* The start is recorded before anything runs; an append that throws is fatal.
LEMMA StartStep ==
    ASSUME IInv, NEW e \in Executions, NEW fate \in Appends, Start(e, fate)
    PROVE  IInv'
<1> DEFINE begun == [log[e] EXCEPT !.started = TRUE, !.visit = visit]
<1>1. /\ att[e].pc = "admitting" /\ log[e] \in Logs /\ att[e] \in Attempts
      /\ log[e].started = FALSE /\ log[e].ends = <<>> /\ log[e].confirmed = FALSE
      /\ op[e] = "none" /\ closed = FALSE
      /\ UNCHANGED <<closing, awaited, place>>
  BY Types DEF Start, In, IInv, LogFits, TypeOK
<1>2. /\ begun \in Logs /\ begun.started = TRUE /\ begun.ends = <<>>
      /\ begun.confirmed = FALSE
  <2>1. visit \in 0..MaxSessions BY Types, Bounds DEF IInv
  <2>. QED BY <1>1, <2>1 DEF Logs
<1>3. /\ log' = [log EXCEPT ![e] = log'[e]] /\ log'[e] \in {log[e], begun}
      /\ fate = "ok" => log'[e] = begun
      /\ \A f \in Executions \ {e} : log'[f] = log[f]
  <2>1. CASE fate = "lost"
    <3>1. log' = log BY <2>1 DEF Start
    <3>. QED BY <2>1, <3>1, Types DEF IInv
  <2>2. CASE fate # "lost"
    <3>1. log' = [log EXCEPT ![e] = begun] BY <2>2, Types DEF Start, IInv
    <3>. QED BY <3>1, Types DEF IInv
  <2>. QED BY <2>1, <2>2
<1> HIDE DEF begun
<1>4. ~Contains(log'[e].ends, "timed_out") /\ log'[e] \in Logs
  BY <1>1, <1>2, <1>3 DEF Contains
<1>5. CASE fate = "ok"
  <2>1. /\ att' = [att EXCEPT ![e] = [att[e] EXCEPT !.pc = "racing"]]
        /\ op' = [op EXCEPT ![e] = "running"] /\ UNCHANGED <<closed, fatal>>
    BY <1>5, Types DEF Start, IInv
  <2>2. /\ [att[e] EXCEPT !.pc = "racing"] \in Attempts
        /\ att'[e].pc = "racing" /\ att'[e].of = att[e].of /\ att'[e].won = att[e].won
        /\ att'[e] \in Attempts /\ op'[e] = "running"
        /\ \A f \in Executions \ {e} : att'[f] = att[f] /\ op'[f] = op[f]
        /\ att' = [f \in Executions |-> att'[f]]
    <3>1. [att[e] EXCEPT !.pc = "racing"] \in Attempts BY <1>1 DEF Attempts, Places
    <3>. QED BY <1>1, <2>1, <3>1, Types DEF IInv, Attempts
  <2>3. OneStep(e) BY <1>1, <1>3, <2>1, <2>2 DEF OneStep, ClosesAtMost, OthersWokenAtMost
  <2>4. LogFits(e)' BY <1>2, <1>3, <1>5, <2>2 DEF LogFits
  <2>5. RaceFits(e)' BY <1>1, <2>2 DEF IInv, RaceFits
  <2>6. Told(e)' BY <1>1, <2>1, <2>2 DEF IInv, Told, place
  <2>7. TypeOK' BY <1>3, <1>4, <2>1, <2>2, <2>3, OneStepType
  <2>8. BudgetLeft' BY <1>4, <2>3, BudgetStays
  <2>. QED BY <2>3, <2>4, <2>5, <2>6, <2>7, <2>8, OneStepKeeps
<1>6. CASE fate # "ok"
  <2>1. /\ CloseOnFatal("ambiguous", [att EXCEPT ![e] = Over(e, "unrecoverable")])
        /\ op' = op
    BY <1>6 DEF Start
  <2>2. /\ ClosesAtMost /\ closed' = TRUE /\ OthersWokenAtMost(e)
        /\ att' = [f \in Executions |-> att'[f]] /\ att'[e] = Over(e, "unrecoverable")
    BY <2>1, EndedShape, FatalShape DEF Fatal
  <2>3. att'[e] \in Attempts /\ att'[e].pc = "over" BY <2>2, OverShape DEF IInv
  <2>4. OneStep(e) BY <1>1, <1>3, <2>1, <2>2 DEF OneStep
  <2>5. LogFits(e)' BY <1>1, <1>2, <1>3, <2>1, <2>3 DEF LogFits
  <2>6. RaceFits(e)' BY <2>3 DEF RaceFits
  <2>7. Told(e)' BY <1>1, <2>2, EndedIsTold
  <2>8. TypeOK' BY <1>3, <1>4, <2>1, <2>2, <2>3, <2>4, Types, OneStepType DEF IInv
  <2>9. BudgetLeft' BY <2>2 DEF BudgetLeft
  <2>. QED BY <2>4, <2>5, <2>6, <2>7, <2>8, <2>9, OneStepKeeps
<1>. QED BY <1>5, <1>6

\* The deadline or an abort came during the admission: both records at once.
LEMMA StartTooLateStep ==
    ASSUME IInv, NEW e \in Executions, NEW fate \in Appends, StartTooLate(e, fate)
    PROVE  IInv'
<1> DEFINE begun == [log[e] EXCEPT !.started = TRUE, !.visit = visit]
           ended == [begun EXCEPT !.ends = <<"aborted">>]
<1>1. /\ att[e].pc = "admitting" /\ log[e] \in Logs
      /\ log[e].started = FALSE /\ log[e].ends = <<>> /\ log[e].confirmed = FALSE
      /\ op[e] = "none" /\ closed = FALSE
      /\ UNCHANGED <<op, closing, awaited, place>>
  BY Types DEF StartTooLate, In, IInv, LogFits, TypeOK
<1>2. begun \in Logs /\ begun.started = TRUE /\ begun.ends = <<>> /\ begun.confirmed = FALSE
  <2>1. visit \in 0..MaxSessions BY Types, Bounds DEF IInv
  <2>. QED BY <1>1, <2>1 DEF Logs
<1>3. ended \in Logs /\ ended.started = TRUE /\ ended.ends = <<"aborted">>
      /\ ended.confirmed = FALSE
  <2>1. <<"aborted">> \in Seq(Outcomes) BY DEF Outcomes
  <2>. QED BY <1>2, <2>1 DEF Logs
<1>4. /\ log' = [log EXCEPT ![e] = log'[e]] /\ log'[e] \in {begun, ended}
      /\ fate = "ok" => log'[e] = ended
      /\ \A f \in Executions \ {e} : log'[f] = log[f]
  <2>1. CASE fate = "lost"
    <3>1. log' = [log EXCEPT ![e] = begun] BY <2>1, Types DEF StartTooLate, IInv
    <3>. QED BY <2>1, <3>1, Types DEF IInv
  <2>2. CASE fate # "lost"
    <3>1. log' = [log EXCEPT ![e] = ended] BY <2>2, Types DEF StartTooLate, IInv
    <3>. QED BY <3>1, Types DEF IInv
  <2>. QED BY <2>1, <2>2
<1> HIDE DEF begun, ended
<1>5. ~Contains(log'[e].ends, "timed_out") /\ log'[e] \in Logs
  BY <1>2, <1>3, <1>4 DEF Contains
<1>6. PICK end \in {"plain", "unrecoverable"} :
        /\ end = "plain" <=> fate = "ok"
        /\ ClosesAtMost /\ OthersWokenAtMost(e) /\ (end = "unrecoverable" => closed' = TRUE)
        /\ att' = [f \in Executions |-> att'[f]] /\ att'[e] = Over(e, end)
  <2>1. CASE fate = "ok"
    <3>1. att' = [att EXCEPT ![e] = Over(e, "plain")] /\ UNCHANGED <<closed, fatal>>
      BY <2>1 DEF StartTooLate
    <3>2. /\ att'[e] = Over(e, "plain") /\ att' = [f \in Executions |-> att'[f]]
          /\ \A f \in Executions \ {e} : att'[f] = att[f]
      BY <3>1, EndedShape
    <3>. QED BY <2>1, <3>1, <3>2 DEF ClosesAtMost, OthersWokenAtMost
  <2>2. CASE fate # "ok"
    <3>1. CloseOnFatal("ambiguous", [att EXCEPT ![e] = Over(e, "unrecoverable")])
      BY <2>2 DEF StartTooLate
    <3>2. /\ ClosesAtMost /\ closed' = TRUE /\ OthersWokenAtMost(e)
          /\ att' = [f \in Executions |-> att'[f]] /\ att'[e] = Over(e, "unrecoverable")
      BY <3>1, EndedShape, FatalShape DEF Fatal
    <3>. QED BY <2>2, <3>2
  <2>. QED BY <2>1, <2>2
<1>7. att'[e] \in Attempts /\ att'[e].pc = "over" BY <1>6, OverShape DEF IInv
<1>8. OneStep(e) BY <1>1, <1>4, <1>6 DEF OneStep
<1>9. LogFits(e)'
  BY <1>1, <1>2, <1>3, <1>4, <1>7 DEF LogFits, Outcomes
<1>10. RaceFits(e)' BY <1>7 DEF RaceFits
<1>11. Told(e)'
  <2>1. end = "plain" => log'[e].ends = <<"aborted">> BY <1>3, <1>4, <1>6
  <2>2. <<"aborted">> \notin {<<>>, <<"cleanup_unconfirmed">>} OBVIOUS
  <2>. QED BY <1>1, <1>6, <2>1, <2>2, EndedIsTold
<1>12. TypeOK' BY <1>1, <1>4, <1>5, <1>6, <1>7, <1>8, Types, OneStepType DEF IInv
<1>13. BudgetLeft' BY <1>5, <1>8, BudgetStays
<1>. QED BY <1>8, <1>9, <1>10, <1>11, <1>12, <1>13, OneStepKeeps

\* The terminal of an attempt: it says that nothing is left only when nothing is.
LEMMA FinishStep ==
    ASSUME IInv, NEW e \in Executions, NEW fate \in Appends, NEW outcome \in Outcomes,
           att[e].pc \in {"racing", "settling"},
           op[e] \in {"running", "left"} => outcome = "cleanup_unconfirmed",
           Finish(e, outcome, fate), UNCHANGED <<op, closing, awaited, place>>
    PROVE  IInv'
<1> DEFINE ended == [log[e] EXCEPT !.ends = Append(@, outcome)]
           error == IF fate # "ok" THEN "ambiguous"
                    ELSE IF outcome = "cleanup_unconfirmed" THEN "unconfirmed"
                    ELSE IF outcome = "timed_out" /\ TimedOutIn(visit) >= MaxTimeouts
                         THEN "exhausted"
                    ELSE "none"
           end == IF error \in {"ambiguous", "unconfirmed"} THEN "unrecoverable" ELSE "plain"
           next == [att EXCEPT ![e] = Over(e, end)]
<1>1. /\ log[e] \in Logs /\ log[e].started = TRUE /\ log[e].ends = <<>>
      /\ log[e].confirmed = FALSE
  BY Types DEF IInv, LogFits
<1>2. /\ ended \in Logs /\ ended.started = TRUE /\ ended.ends = <<outcome>>
      /\ ended.confirmed = FALSE
  <2>1. Append(<<>>, outcome) = <<outcome>> /\ <<outcome>> \in Seq(Outcomes) OBVIOUS
  <2>2. ended = [log[e] EXCEPT !.ends = <<outcome>>] BY <1>1, <2>1 DEF Logs
  <2>. QED BY <1>1, <2>1, <2>2 DEF Logs
<1>3. /\ log' = [log EXCEPT ![e] = log'[e]] /\ log'[e] \in {log[e], ended}
      /\ fate = "ok" => log'[e] = ended
      /\ \A f \in Executions \ {e} : log'[f] = log[f]
  <2>1. CASE fate = "lost"
    <3>1. log' = log BY <2>1 DEF Finish
    <3>. QED BY <2>1, <3>1, Types DEF IInv
  <2>2. CASE fate # "lost"
    <3>1. log' = [log EXCEPT ![e] = ended] BY <2>2, Types DEF Finish, IInv
    <3>. QED BY <3>1, Types DEF IInv
  <2>. QED BY <2>1, <2>2
<1>4. /\ error = "none" => att' = next /\ UNCHANGED <<closed, fatal>>
      /\ error # "none" => CloseOnFatal(error, next)
  BY DEF Finish
<1>5. /\ fate # "ok" => error = "ambiguous"
      /\ fate = "ok" /\ outcome = "cleanup_unconfirmed" => error = "unconfirmed"
      /\ fate = "ok" /\ outcome = "timed_out" /\ TimedOutIn(visit) >= MaxTimeouts =>
           error = "exhausted"
      /\ error \in {"none"} \cup Fatal
  BY DEF Fatal
<1>6. /\ end \in {"plain", "unrecoverable"}
      /\ end = "plain" => fate = "ok" /\ outcome # "cleanup_unconfirmed"
      /\ end = "unrecoverable" => error # "none"
  BY <1>5
<1>7. /\ next \in [Executions -> Attempts] /\ next[e] = Over(e, end) /\ next[e].pc = "over"
      /\ \A f \in Executions \ {e} : next[f] = att[f]
      /\ next = [f \in Executions |-> next[f]]
  BY <1>6, EndedShape
<1> HIDE DEF ended, error, end, next
<1>8. /\ ClosesAtMost /\ OthersWokenAtMost(e) /\ (error # "none" => closed' = TRUE)
      /\ att' = [f \in Executions |-> att'[f]] /\ att'[e] = Over(e, end)
  <2>1. CASE error = "none" BY <1>4, <1>7, <2>1 DEF ClosesAtMost, OthersWokenAtMost
  <2>2. CASE error # "none" BY <1>4, <1>5, <1>7, <2>2, FatalShape
  <2>. QED BY <2>1, <2>2
<1>9. att'[e] \in Attempts /\ att'[e].pc = "over" BY <1>6, <1>8, OverShape DEF IInv
<1>10. OneStep(e) BY <1>3, <1>8 DEF OneStep
<1>11. LogFits(e)' BY <1>1, <1>2, <1>3, <1>9 DEF LogFits
<1>12. RaceFits(e)' BY <1>9 DEF RaceFits
<1>13. Told(e)'
  <2>1. end = "plain" => log'[e].ends = <<outcome>> BY <1>2, <1>3, <1>6
  <2>2. outcome # "cleanup_unconfirmed" =>
          <<outcome>> \notin {<<>>, <<"cleanup_unconfirmed">>}
    OBVIOUS
  <2>. QED BY <1>6, <1>8, <2>1, <2>2, EndedIsTold
<1>14. TypeOK' BY <1>1, <1>2, <1>3, <1>8, <1>9, <1>10, Types, OneStepType DEF IInv
<1>15. BudgetLeft'
  <2>1. CASE closed' = TRUE BY <2>1 DEF BudgetLeft
  <2>2. CASE closed' # TRUE /\ outcome # "timed_out"
    <3>1. ~Contains(log'[e].ends, "timed_out") BY <1>1, <1>2, <1>3, <2>2 DEF Contains
    <3>. QED BY <1>10, <3>1, BudgetStays
  <2>3. CASE closed' # TRUE /\ outcome = "timed_out"
    <3>1. fate = "ok" /\ ~(TimedOutIn(visit) >= MaxTimeouts) BY <1>5, <1>8, <2>3
    <3>2. TimedOutIn(visit)' <= TimedOutIn(visit) + 1
      <4>1. visit' = visit BY DEF place
      <4>2. \A v : TimedOutIn(v)' <= TimedOutIn(v) + 1 BY <1>3, TimeoutsGrowByOne
      <4>. QED BY <4>1, <4>2 DEF TimedOutIn
    <3>3. TimedOutIn(visit) \in Nat /\ TimedOutIn(visit)' \in Nat
      <4>1. visit' = visit BY DEF place
      <4>2. \A v : TimedOutIn(v) \in Nat /\ TimedOutIn(v)' \in Nat
        BY TimedOutIsNatural, TimedOutIsNaturalNext
      <4>. QED BY <4>1, <4>2 DEF TimedOutIn
    <3>. QED BY <3>1, <3>2, <3>3, Bounds DEF BudgetLeft
  <2>. QED BY <2>1, <2>2, <2>3
<1>. QED BY <1>10, <1>11, <1>12, <1>13, <1>14, <1>15, OneStepKeeps

LEMMA ReturnStep ==
    ASSUME IInv, NEW e \in Executions, NEW fate \in Appends, Return(e, fate)
    PROVE  IInv'
<1> DEFINE outcome == IF att[e].late \/ att[e].fired THEN "timed_out"
                      ELSE IF att[e].aborted THEN "aborted" ELSE "completed"
<1>1. /\ att[e].pc = "racing" /\ att[e].won = "ok" /\ Finish(e, outcome, fate)
      /\ UNCHANGED <<op, closing, awaited, place>>
  BY DEF Return, In
<1>2. outcome \in Outcomes BY DEF Outcomes
<1> HIDE DEF outcome
<1>3. op[e] \notin {"running", "left"} BY <1>1 DEF IInv, RaceFits
<1>. QED BY <1>1, <1>2, <1>3, FinishStep

\* Of all that can win a race only the failure of the operation itself is left
\* when neither the deadline nor an abort is known; it has ended then.
LEMMA FailStep ==
    ASSUME IInv, NEW e \in Executions, NEW fate \in Appends, Fail(e, fate)
    PROVE  IInv'
<1> DEFINE outcome == IF op[e] = "left" THEN "cleanup_unconfirmed" ELSE "failed"
<1>1. /\ att[e].pc = "racing" /\ att[e].won \notin {"none", "ok", "ambiguous", "timeout"}
      /\ att[e].fired # TRUE /\ att[e].woken # TRUE /\ att[e].aborted # TRUE
      /\ Finish(e, outcome, fate)
      /\ UNCHANGED <<op, closing, awaited, place>>
      /\ att[e].won \in Winners
  BY Types DEF Fail, Failing, TimedOut, Aborted, In, IInv, Attempts
<1>2. att[e].won = "failed" BY <1>1 DEF IInv, RaceFits, Winners
<1>3. op[e] # "running" BY <1>1, <1>2 DEF IInv, RaceFits
<1>4. outcome \in Outcomes /\ (op[e] \in {"running", "left"} => outcome = "cleanup_unconfirmed")
  BY <1>3 DEF Outcomes
<1> HIDE DEF outcome
<1>. QED BY <1>1, <1>4, FinishStep

LEMMA SettleStep ==
    ASSUME IInv, NEW e \in Executions, NEW fate \in Appends, Settle(e, fate)
    PROVE  IInv'
<1> DEFINE outcome == CASE Alive(e) -> "cleanup_unconfirmed"
                        [] ~Alive(e) /\ att[e].timed -> "timed_out"
                        [] OTHER -> "aborted"
<1>1. /\ att[e].pc = "settling" /\ Finish(e, outcome, fate)
      /\ UNCHANGED <<op, closing, awaited, place>>
  BY DEF Settle, In
<1>2. outcome \in Outcomes /\ (op[e] \in {"running", "left"} => outcome = "cleanup_unconfirmed")
  BY DEF Outcomes, Alive
<1> HIDE DEF outcome
<1>. QED BY <1>1, <1>2, FinishStep

-----------------------------------------------------------------------------
(* The steps of the session: a fatal error of the sandbox, its close, the  *)
(* next session, the end of the host and what comes after it.              *)

LEMMA ReadyFailsStep == ASSUME IInv, NEW e \in Executions, ReadyFails(e) PROVE IInv'
<1>1. /\ closed = FALSE /\ closed' = TRUE /\ fatal' = "ambiguous"
      /\ att' = [f \in Executions |-> Woken(att[f], "ambiguous")]
      /\ UNCHANGED <<log, op, closing, awaited, place>>
  BY DEF ReadyFails, CloseOnFatal, IInv, TypeOK
<1>2. ASSUME NEW f \in Executions PROVE LogFits(f)' /\ RaceFits(f)' /\ Told(f)'
  <2>1. att'[f] = Woken(att[f], "ambiguous") BY <1>1
  <2>. QED BY <1>1, <2>1, WokenKeepsFit DEF ClosesAtMost, Fatal
<1>3. TypeOK'
  <2>1. \A f \in Executions : Woken(att[f], "ambiguous") \in Attempts
    BY WokenShape, Types, Zenon DEF IInv
  <2>2. att' \in [Executions -> Attempts] BY <1>1, <2>1
  <2>. QED BY <1>1, <2>2, Types, TypesNext DEF IInv, place, Fatal
<1>4. ControllerFits' BY <1>1 DEF IInv, ControllerFits, place
<1>5. BudgetLeft' BY <1>1 DEF BudgetLeft
<1>. QED BY <1>2, <1>3, <1>4, <1>5 DEF IInv

\* From its close on a session waits for exactly what was pending.
LEMMA CloseStep == ASSUME IInv, Close PROVE IInv'
<1>1. /\ up = TRUE /\ closing = "none" /\ closed' = TRUE /\ closing' = "waiting"
      /\ awaited' = Pending
      /\ att' = [f \in Executions |-> Woken(att[f], "close")]
      /\ UNCHANGED <<log, op, fatal, place>>
  BY DEF Close, IInv, TypeOK
<1>2. \A f \in Executions : att'[f] = Woken(att[f], "close") /\ Woken(att[f], "close") \in Attempts
  BY <1>1, WokenShape, Types, Zenon DEF IInv
<1>3. ASSUME NEW f \in Executions PROVE LogFits(f)' /\ RaceFits(f)' /\ Told(f)'
  <2>1. att[f] \in Attempts BY Types DEF IInv
  <2>2. /\ att'[f].pc = att[f].pc /\ att'[f].of = att[f].of
        /\ att[f].pc # "racing" => att'[f] = att[f]
        /\ att'[f].fired = att[f].fired /\ att'[f].aborted = att[f].aborted
        /\ att[f].woken = TRUE => att'[f].woken = TRUE
        /\ att'[f].won # att[f].won => att'[f].won = "close" /\ att'[f].woken = TRUE
    <3>1. /\ Woken(att[f], "close").pc = att[f].pc /\ Woken(att[f], "close").of = att[f].of
          /\ att[f].pc # "racing" => Woken(att[f], "close") = att[f]
          /\ Woken(att[f], "close").fired = att[f].fired
          /\ Woken(att[f], "close").aborted = att[f].aborted
          /\ att[f].woken = TRUE => Woken(att[f], "close").woken = TRUE
          /\ Woken(att[f], "close").won # att[f].won => Woken(att[f], "close").won = "close"
          /\ att[f].pc = "racing" => Woken(att[f], "close").woken = TRUE
      BY <2>1, WokenShape, Zenon
    <3>2. Woken(att[f], "close").won # att[f].won => att[f].pc = "racing" BY <3>1, Zenon
    <3>. QED BY <1>2, <3>1, <3>2, Zenon
  <2>3. LogFits(f)' BY <1>1, <2>2 DEF IInv, LogFits
  <2>4. RaceFits(f)' BY <1>1, <2>2 DEF IInv, RaceFits
  <2>5. att[f].pc \in {"admitting", "racing", "settling"} => f \in Pending
    BY DEF Pending, Registered, In
  <2>6. Told(f)' BY <1>1, <2>2, <2>5 DEF IInv, Told, place
  <2>. QED BY <2>3, <2>4, <2>6
<1>4. TypeOK'
  <2>1. att' \in [Executions -> Attempts] BY <1>1, <1>2
  <2>2. Pending \in SUBSET Executions BY DEF Pending, Registered, In
  <2>. QED BY <1>1, <2>1, <2>2, Types, TypesNext DEF IInv, place
<1>5. ControllerFits' BY <1>1 DEF IInv, ControllerFits, place
<1>6. BudgetLeft' BY <1>1 DEF BudgetLeft
<1>. QED BY <1>3, <1>4, <1>5, <1>6 DEF IInv

LEMMA CloseSettledStep == ASSUME IInv, CloseSettled PROVE IInv'
<1>1. /\ up = TRUE /\ closing = "waiting" /\ awaited \cap Pending = {}
      /\ closing' \in {"rejected", "resolved"}
      /\ \A f \in awaited : att[f].won = "unrecoverable" => closing' = "rejected"
      /\ UNCHANGED <<log, op, att, closed, fatal, awaited, place>>
  BY DEF CloseSettled, IInv, TypeOK
<1>2. ASSUME NEW f \in Executions PROVE LogFits(f)' /\ RaceFits(f)' /\ Told(f)'
  <2>1. att[f].pc \notin {"admitting", "racing", "settling"}
    BY <1>1 DEF IInv, Told, Pending, Registered, In
  <2>2. LogFits(f)' /\ RaceFits(f)' BY <1>1 DEF IInv, LogFits, RaceFits
  <2>3. Told(f)' BY <1>1, <2>1 DEF IInv, Told, place
  <2>. QED BY <2>2, <2>3
<1>3. TypeOK' BY <1>1, Types, TypesNext DEF IInv, place
<1>4. ControllerFits' BY <1>1 DEF IInv, ControllerFits, place
<1>5. BudgetLeft' BY <1>1 DEF IInv, BudgetLeft, TimedOutIn, place
<1>. QED BY <1>2, <1>3, <1>4, <1>5 DEF IInv

\* The gate on the log lets a session in when no process of another can be left.
LEMMA ConstructStep ==
    ASSUME IInv, NEW v \in {visit, visit + 1}, Construct(v), NoUnfinished,
           \A f \in Executions : att[f].pc \in {"idle", "over"},
           up' = TRUE, lives' \in 1..MaxLives, UNCHANGED <<log, op, att>>
    PROVE  IInv'
<1>1. /\ session < MaxSessions /\ session' = session + 1 /\ visit' = v
      /\ closed' = (TimedOutIn(v) > MaxTimeouts)
      /\ fatal' = "none" /\ closing' = "none" /\ awaited' = {}
  BY DEF Construct
<1>2. session \in 1..MaxSessions /\ visit \in 1..MaxSessions /\ visit <= session
  BY Types DEF IInv, ControllerFits
<1>3. /\ session' \in 1..MaxSessions /\ visit' \in 1..MaxSessions /\ visit' <= session'
      /\ session < session'
  BY <1>1, <1>2, Bounds
<1>4. ASSUME NEW f \in Executions PROVE LogFits(f)' /\ RaceFits(f)' /\ Told(f)'
  <2>1. ~(op[f] \in {"running", "left"})
    BY UnresolvedIs DEF NoUnfinished, IInv, LogFits
  <2>2. att[f].of <= session BY DEF IInv, Told
  <2>3. att[f].of \in Nat BY Types DEF IInv, Attempts
  <2>4. att[f].of <= session' /\ att[f].of # session' BY <1>2, <1>3, <2>2, <2>3
  <2>5. att[f].pc \in {"idle", "over"} OBVIOUS
  <2>6. LogFits(f)' /\ RaceFits(f)' BY <2>5 DEF IInv, LogFits, RaceFits
  <2>7. Told(f)' BY <2>1, <2>4, <2>5 DEF IInv, Told
  <2>. QED BY <2>6, <2>7
<1>5. \/ closed' = FALSE /\ ~(TimedOutIn(v) > MaxTimeouts)
      \/ closed' = TRUE
  <2>1. CASE TimedOutIn(v) > MaxTimeouts BY <1>1, <2>1, Zenon
  <2>2. CASE ~(TimedOutIn(v) > MaxTimeouts)
    <3>1. (TimedOutIn(v) > MaxTimeouts) = FALSE BY <2>2
    <3>. QED BY <1>1, <2>2, <3>1, Zenon
  <2>. QED BY <2>1, <2>2
<1>6. TypeOK' BY <1>1, <1>3, <1>5, Types, TypesNext DEF IInv
<1>7. ControllerFits' BY <1>1, <1>3 DEF ControllerFits
<1>8. BudgetLeft'
  <2>1. TimedOutIn(visit)' = TimedOutIn(v) BY <1>1 DEF TimedOutIn
  <2>2. TimedOutIn(v) \in Nat BY TimedOutIsNatural
  <2>3. closed' = FALSE => TimedOutIn(v) <= MaxTimeouts BY <1>5, <2>2, Bounds
  <2>. QED BY <2>1, <2>3 DEF BudgetLeft
<1>. QED BY <1>4, <1>6, <1>7, <1>8 DEF IInv

LEMMA NextSessionStep == ASSUME IInv, NextSession PROVE IInv'
<1>1. PICK v \in {visit, visit + 1} : Construct(v) BY DEF NextSession
<1>2. /\ up = TRUE /\ Pending = {} /\ NoUnfinished /\ UNCHANGED <<log, op, att, up, lives>>
  BY DEF NextSession, IInv, TypeOK
<1>3. ASSUME NEW f \in Executions PROVE att[f].pc \in {"idle", "over"}
  BY <1>2, Types DEF IInv, Attempts, Places, Pending, Registered, In
<1>. QED BY <1>1, <1>2, <1>3, ConstructStep, Types DEF IInv

LEMMA ResumeStep == ASSUME IInv, Resume PROVE IInv'
<1>1. /\ up = FALSE /\ up' = TRUE /\ lives < MaxLives /\ lives' = lives + 1 /\ NoUnfinished
      /\ Construct(visit + 1) /\ UNCHANGED <<log, op, att>>
  BY DEF Resume, IInv, TypeOK
<1>2. ASSUME NEW f \in Executions PROVE att[f].pc \in {"idle", "over"}
  BY <1>1, Types DEF IInv, Attempts, Places, Told
<1>3. lives' \in 1..MaxLives BY <1>1, Types, Bounds DEF IInv
<1>. QED BY <1>1, <1>2, <1>3, ConstructStep

LEMMA CrashStep == ASSUME IInv, Crash PROVE IInv'
<1>1. /\ up' = FALSE /\ closed' = TRUE /\ fatal' = "none" /\ closing' = "none" /\ awaited' = {}
      /\ att' = [e \in Executions |-> IF e \in In("idle") THEN Unused ELSE Over(e, "plain")]
      /\ UNCHANGED <<log, op, lives, session, visit>>
  BY DEF Crash
<1>2. ASSUME NEW f \in Executions
      PROVE  /\ att'[f] \in Attempts
             /\ att[f].pc = "idle" => att'[f].pc = "idle" /\ att'[f].of = 0
             /\ att[f].pc # "idle" => att'[f].pc = "over" /\ att'[f].of = att[f].of
  <2>1. CASE att[f].pc = "idle"
    <3>1. att'[f] = Unused BY <1>1, <2>1 DEF In
    <3>. QED BY <2>1, <3>1, UnusedType
  <2>2. CASE att[f].pc # "idle"
    <3>1. att'[f] = Over(f, "plain") BY <1>1, <2>2 DEF In
    <3>. QED BY <2>2, <3>1, OverShape DEF IInv
  <2>. QED BY <2>1, <2>2
<1>3. ASSUME NEW f \in Executions PROVE LogFits(f)' /\ RaceFits(f)' /\ Told(f)'
  <2>1. LogFits(f)' BY <1>1, <1>2 DEF IInv, LogFits
  <2>2. RaceFits(f)' BY <1>2 DEF RaceFits
  <2>3. session \in 1..MaxSessions BY Types DEF IInv
  <2>4. Told(f)' BY <1>1, <1>2, <2>3, Bounds DEF IInv, Told
  <2>. QED BY <2>1, <2>2, <2>4
<1>4. TypeOK'
  <2>1. att' \in [Executions -> Attempts] BY <1>1, <1>2
  <2>. QED BY <1>1, <2>1, Types, TypesNext DEF IInv
<1>5. ControllerFits' BY <1>1 DEF IInv, ControllerFits
<1>6. BudgetLeft' BY <1>1 DEF BudgetLeft
<1>. QED BY <1>3, <1>4, <1>5, <1>6 DEF IInv

\* An operator confirms what ended with nobody there to record it.
LEMMA ReconcileStep == ASSUME IInv, NEW e \in Executions, Reconcile(e) PROVE IInv'
<1> DEFINE sure == [log[e] EXCEPT !.confirmed = TRUE]
<1>1. /\ up = FALSE /\ closed = TRUE /\ op[e] \notin {"running", "left"}
      /\ log[e].started = TRUE /\ log[e].ends \in {<<>>, <<"cleanup_unconfirmed">>}
      /\ log[e] \in Logs /\ att[e] \in Attempts
      /\ log' = [log EXCEPT ![e] = sure]
      /\ UNCHANGED <<op, att, closed, fatal, closing, awaited, place>>
  BY UnresolvedIs, Types DEF Reconcile, Alive, IInv, TypeOK, ControllerFits, memory
<1>2. att[e].pc = "over" BY <1>1 DEF IInv, Told, LogFits, Attempts, Places
<1>3. /\ sure \in Logs /\ sure.started = TRUE /\ sure.ends = log[e].ends
  BY <1>1 DEF Logs
<1> HIDE DEF sure
<1>4. /\ log'[e] = sure /\ log' = [log EXCEPT ![e] = log'[e]]
      /\ \A f \in Executions \ {e} : log'[f] = log[f]
  BY <1>1, Types DEF IInv
<1>5. OneStep(e) BY <1>1, <1>4 DEF OneStep, ClosesAtMost, OthersWokenAtMost
<1>6. LogFits(e)' BY <1>1, <1>2, <1>3, <1>4 DEF IInv, LogFits
<1>7. RaceFits(e)' BY <1>1, <1>2 DEF RaceFits
<1>8. Told(e)' BY <1>1, <1>2 DEF IInv, Told, place
<1>9. TypeOK' BY <1>1, <1>3, <1>4, <1>5, Types, OneStepType DEF IInv
<1>10. BudgetLeft' BY <1>1 DEF BudgetLeft
<1>. QED BY <1>5, <1>6, <1>7, <1>8, <1>9, <1>10, OneStepKeeps

-----------------------------------------------------------------------------
(* The invariant of the specification, and what it says.                   *)

LEMMA InitialInvariant == Init => IInv
<1> SUFFICES ASSUME Init PROVE IInv OBVIOUS
<1>1. <<>> \in Seq(Outcomes) OBVIOUS
<1>2. ASSUME NEW e \in Executions
      PROVE  /\ log[e] = [started |-> FALSE, ends |-> <<>>, confirmed |-> FALSE, visit |-> 0]
             /\ op[e] = "none" /\ att[e] = Unused
  BY DEF Init
<1>3. TypeOK
  <2>1. [started |-> FALSE, ends |-> <<>>, confirmed |-> FALSE, visit |-> 0] \in Logs
    BY <1>1, Bounds DEF Logs
  <2>2. /\ log \in [Executions -> Logs] /\ att \in [Executions -> Attempts]
        /\ op \in [Executions -> {"none", "running", "left", "stopped"}]
    BY <2>1, UnusedType DEF Init
  <2>3. 1 \in 1..MaxLives /\ 1 \in 1..MaxSessions BY Bounds
  <2>. QED BY <2>2, <2>3, Types, Zenon DEF Init
<1>4. ControllerFits BY DEF Init, ControllerFits
<1>5. BudgetLeft
  <2>1. TimedOutOf(visit) = {} BY <1>2 DEF TimedOutOf, Contains
  <2>2. TimedOutIn(visit) = 0 BY <2>1, TimedOutIsNatural, FS_EmptySet
  <2>. QED BY <2>2, Bounds DEF BudgetLeft
<1>6. ASSUME NEW e \in Executions PROVE LogFits(e) /\ RaceFits(e) /\ Told(e)
  BY <1>2, UnusedType DEF LogFits, RaceFits, Told, Init
<1>. QED BY <1>3, <1>4, <1>5, <1>6 DEF IInv

LEMMA InvariantStep == IInv /\ [Next]_vars => IInv'
<1> SUFFICES ASSUME IInv, [Next]_vars PROVE IInv' OBVIOUS
<1>1. CASE UNCHANGED vars
  BY <1>1 DEF vars, memory, place, IInv, TypeOK, ControllerFits, BudgetLeft, TimedOutIn,
              LogFits, RaceFits, Told
<1>2. ASSUME NEW e \in Executions,
             \/ Call(e) \/ StartRefused(e)
             \/ DeadlinePasses(e) \/ TimerFires(e) \/ ExternalAbort(e)
             \/ \E how \in {"ok", "failed", "timeout"}, rest \in {"stopped", "left"} :
                    OperationEnds(e, how, rest)
             \/ OrphanEnds(e) \/ ReadyFails(e)
             \/ Rethrow(e) \/ Await(e) \/ Reconcile(e)
      PROVE  IInv'
  BY <1>2, CallStep, StartRefusedStep, DeadlinePassesStep, WakesStep, OperationEndsStep,
     OrphanEndsStep, ReadyFailsStep, RethrowStep, AwaitStep, ReconcileStep
<1>3. ASSUME NEW e \in Executions, NEW fate \in Appends,
             \/ Start(e, fate) \/ StartTooLate(e, fate)
             \/ Return(e, fate) \/ Fail(e, fate) \/ Settle(e, fate)
      PROVE  IInv'
  BY <1>3, StartStep, StartTooLateStep, ReturnStep, FailStep, SettleStep
<1>4. CASE Close \/ CloseSettled \/ NextSession \/ Crash \/ Resume
  BY <1>4, CloseStep, CloseSettledStep, NextSessionStep, CrashStep, ResumeStep
<1>5. CASE Stopped BY <1>1, <1>5 DEF Stopped
<1>. QED BY <1>1, <1>2, <1>3, <1>4, <1>5 DEF Next

THEOREM Invariant == Spec => []IInv
BY InitialInvariant, InvariantStep, PTL DEF Spec

LEMMA LogIsTrueFollows == IInv => LogIsTrue
<1> SUFFICES ASSUME IInv PROVE LogIsTrue OBVIOUS
<1>1. ASSUME NEW e \in Executions, Alive(e)
      PROVE  ~log[e].confirmed /\ log[e].ends \in {<<>>, <<"cleanup_unconfirmed">>}
  BY <1>1 DEF IInv, LogFits, Alive
<1>2. ASSUME NEW e \in Executions PROVE Len(log[e].ends) <= 1
  <2>1. CASE log[e].ends = <<>> BY <2>1
  <2>2. ASSUME NEW o \in Outcomes, log[e].ends = <<o>> PROVE Len(log[e].ends) <= 1
    BY <2>2
  <2>3. log[e].ends = <<>> \/ \E o \in Outcomes : log[e].ends = <<o>> BY DEF IInv, LogFits
  <2>. QED BY <2>1, <2>2, <2>3
<1>3. ASSUME NEW e \in Executions
      PROVE  /\ log[e].ends # <<>> => log[e].started
             /\ log[e].confirmed => log[e].ends \in {<<>>, <<"cleanup_unconfirmed">>}
  BY DEF IInv, LogFits
<1>. QED BY <1>1, <1>2, <1>3 DEF IInv, LogIsTrue, ConfirmedMeansStopped, LogIsReadable

\* Whatever comes first of the end of an operation, its deadline, an abort, a
\* close and a crash, whichever appends are lost or torn: the log can be read
\* back, and where it says that nothing is left of a tool nothing is.
THEOREM LogTellsTheTruth == Spec => []LogIsTrue
BY Invariant, LogIsTrueFollows, PTL

\* No session of a role starts while a process of an earlier session, or of an
\* earlier host, may still be running.
THEOREM SessionsFollowEachOther == Spec => []SessionsDoNotOverlap
<1>1. IInv => SessionsDoNotOverlap
  BY DEF IInv, Told, SessionsDoNotOverlap, Alive
<1>. QED BY <1>1, Invariant, PTL

\* A close that returns normally, with no fatal error before it, has left
\* nothing unsettled, and what is left unsettled is told.
THEOREM UnsettledIsNoticed == Spec => []NothingGoesUnnoticed
<1>1. IInv => CloseSettles
  <2> SUFFICES ASSUME IInv, closing = "resolved", fatal = "none",
                      NEW e \in Executions, att[e].of = session
               PROVE  e \notin Pending /\ ~Alive(e) /\ ~Unresolved(e)
    BY DEF CloseSettles
  <2>1. up = TRUE BY DEF IInv, ControllerFits, TypeOK
  <2>2. att[e].pc \notin {"admitting", "racing", "settling"} BY DEF IInv, Told
  <2>3. att[e].pc # "idle"
    <3>1. att[e].pc = "idle" => att[e].of = 0 BY DEF IInv, Told
    <3>2. session # 0 BY Types DEF IInv
    <3>. QED BY <3>1, <3>2
  <2>4. att[e].pc = "over" BY <2>2, <2>3, Types DEF IInv, Attempts, Places
  <2>5. ~Unresolved(e) BY <2>1, <2>4, UnresolvedIs DEF IInv, Told
  <2>6. ~Alive(e) BY <2>5, UnresolvedIs DEF IInv, LogFits, Alive
  <2>7. e \notin Pending BY <2>2 DEF Pending, Registered, In
  <2>. QED BY <2>5, <2>6, <2>7
<1>2. IInv => UnresolvedIsTold
  BY UnresolvedIs DEF UnresolvedIsTold, IInv, Told
<1>3. IInv => NothingGoesUnnoticed BY <1>1, <1>2 DEF NothingGoesUnnoticed
<1>. QED BY <1>3, Invariant, PTL

\* A start is recorded only while the visit of the role has budget left, for
\* the executions that were being admitted when it ran out as well.
THEOREM BudgetIsKept == Spec => StartsWithinBudget
<1> DEFINE Begins == \A e \in Executions :
                        log'[e].started /\ ~log[e].started => TimedOutIn(visit) <= MaxTimeouts
<1>1. IInv /\ [Next]_vars => [Begins]_vars
  <2> SUFFICES ASSUME IInv, Next,
                      NEW e \in Executions, log'[e].started, ~log[e].started
               PROVE  TimedOutIn(visit) <= MaxTimeouts
    OBVIOUS
  <2>1. ASSUME NEW f \in Executions, NEW fate \in Appends, Start(f, fate) \/ StartTooLate(f, fate)
        PROVE  TimedOutIn(visit) <= MaxTimeouts
    BY <2>1 DEF Start, StartTooLate, IInv, BudgetLeft, TypeOK
  <2>2. log' # log OBVIOUS
  <2>3. ASSUME NEW f \in Executions,
               log' = [log EXCEPT ![f].confirmed = TRUE]
        PROVE  FALSE
    <3>1. log'[e].started = log[e].started BY <2>3, Types DEF IInv, Logs
    <3>. QED BY <3>1
  <2>4. ASSUME NEW f \in Executions, NEW fate, NEW outcome, Finish(f, outcome, fate)
        PROVE  FALSE
    <3>1. log' = log \/ log' = [log EXCEPT ![f].ends = Append(@, outcome)]
      BY <2>4 DEF Finish
    <3>2. log'[e].started = log[e].started BY <3>1, Types DEF IInv, Logs
    <3>. QED BY <3>2
  <2>5. ASSUME NEW f \in Executions, NEW fate \in Appends,
               Return(f, fate) \/ Fail(f, fate) \/ Settle(f, fate)
        PROVE  FALSE
    BY <2>4, <2>5, Zenon DEF Return, Fail, Settle
  <2>6. ASSUME NEW f \in Executions, Reconcile(f) PROVE FALSE
    BY <2>3, <2>6 DEF Reconcile
  <2>7. ASSUME NEW f \in Executions,
             \/ Call(f) \/ StartRefused(f)
             \/ DeadlinePasses(f) \/ TimerFires(f) \/ ExternalAbort(f)
             \/ \E how \in {"ok", "failed", "timeout"}, rest \in {"stopped", "left"} :
                    OperationEnds(f, how, rest)
             \/ OrphanEnds(f) \/ ReadyFails(f) \/ Rethrow(f) \/ Await(f)
        PROVE  FALSE
    BY <2>2, <2>7 DEF Call, StartRefused, DeadlinePasses, TimerFires, ExternalAbort, Wakes,
                      OperationEnds, OrphanEnds, ReadyFails, Rethrow, Await
  <2>8. CASE Close \/ CloseSettled \/ NextSession \/ Crash \/ Resume \/ Stopped
    BY <2>2, <2>8 DEF Close, CloseSettled, NextSession, Crash, Resume, Stopped, vars
  <2>. QED BY <2>1, <2>5, <2>6, <2>7, <2>8 DEF Next
<1>. QED BY <1>1, Invariant, PTL DEF Spec, StartsWithinBudget
=============================================================================
