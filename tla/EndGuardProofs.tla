--------------------------- MODULE EndGuardProofs ---------------------------
(***************************************************************************)
(* TLAPS proofs about EndGuard, for any budget and any number of attempts, *)
(* requests and resumes.                                                   *)
(***************************************************************************)
EXTENDS EndGuard, FiniteSetTheorems, TLAPS

RequestIds == (1..MaxLives) \X (0..MaxRequests)
Attempts == [request : RequestIds, outcome : Outcomes \cup {"open"}, life : 1..MaxLives]
FailuresOf(id) ==
    {i \in Indices : attempts[i].request = id /\ attempts[i].outcome = "failed"}

\* What is left of a process is left of an attempt that the log does not call
\* settled.
ProcessesAreUnsettled ==
    \A i \in Indices : Alive(i) => attempts[i].outcome \in {"open", "cleanup_unconfirmed"}

\* The attempt a guard runs for, the one its result is about and the one an end
\* was decided on is the last.
LastIsCurrent ==
    /\ pc = "guard" => attempts # <<>> /\ attempts[Len(attempts)] = Attempt
    /\ pc = "result" =>
         attempts # <<>> /\
         attempts[Len(attempts)] =
             [request |-> RequestId(epoch), outcome |-> outcome, life |-> lives]
    /\ decision = "guarded" =>
         pc = "settling" /\ attempts # <<>> /\
         attempts[Len(attempts)] =
             [request |-> RequestId(epoch), outcome |-> "passed", life |-> lives]

\* An attempt is only started while there is budget for its failure.
BudgetIsKept ==
    /\ \A id \in RequestIds : Failures(id) <= Budget
    /\ pc = "guard" => Failures(RequestId(epoch)) < Budget

\* An abort is due on a session, or has reached it.
AbortIsTracked == abort => mark # "none"

IInv ==
    /\ TypeOK /\ epoch <= lives /\ AbortIsTracked
    /\ ProcessesAreUnsettled /\ LastIsCurrent /\ BudgetIsKept

-----------------------------------------------------------------------------
(* The log of attempts.                                                    *)

LEMMA FailuresAreNatural ==
    ASSUME TypeOK, NEW id
    PROVE  IsFiniteSet(FailuresOf(id)) /\ Failures(id) \in Nat
           /\ Failures(id) = Cardinality(FailuresOf(id))
<1>1. IsFiniteSet(Indices) BY FS_Interval DEF TypeOK, Indices
<1>2. FailuresOf(id) \in SUBSET Indices BY DEF FailuresOf
<1>3. IsFiniteSet(FailuresOf(id)) BY <1>1, <1>2, FS_Subset
<1>4. Cardinality(FailuresOf(id)) \in Nat BY <1>3, FS_CardinalityType
<1>. QED BY <1>3, <1>4 DEF Failures, FailuresOf

LEMMA RequestIdIsTyped == TypeOK /\ epoch <= lives => RequestId(epoch) \in RequestIds
BY Bounds DEF TypeOK, RequestId, RequestIds

\* The start of an attempt is no failure yet.
LEMMA StartsCountNothing ==
    ASSUME TypeOK, epoch <= lives, attempts' = Append(attempts, Attempt), NEW id
    PROVE  Failures(id)' = Failures(id)
<1>1. attempts \in Seq(Attempts) /\ Attempt \in Attempts
  BY RequestIdIsTyped DEF TypeOK, Attempts, RequestIds, Attempt
<1>2. /\ Len(attempts') = Len(attempts) + 1 /\ Len(attempts) \in Nat
      /\ \A i \in 1..Len(attempts) : attempts'[i] = attempts[i]
      /\ attempts'[Len(attempts) + 1] = Attempt
  BY <1>1
<1>3. FailuresOf(id)' = FailuresOf(id)
  BY <1>2 DEF FailuresOf, Indices, Attempt
<1>. QED BY <1>3 DEF Failures, FailuresOf

\* The end of an attempt is one failure at most, of its own request.
LEMMA EndsCountOnce ==
    ASSUME IInv, pc = "guard", NEW how \in Outcomes, NEW id,
           attempts' = [attempts EXCEPT ![Len(attempts)].outcome = how]
    PROVE  Failures(id)' <= IF id = RequestId(epoch) THEN Failures(id) + 1 ELSE Failures(id)
<1>1. /\ attempts \in Seq(Attempts) /\ Len(attempts) \in Nat \ {0}
      /\ attempts[Len(attempts)] = Attempt
  BY DEF IInv, TypeOK, LastIsCurrent, Attempts, RequestIds
<1>2. /\ Len(attempts') = Len(attempts)
      /\ \A i \in 1..Len(attempts) : i # Len(attempts) => attempts'[i] = attempts[i]
      /\ attempts'[Len(attempts)].request = RequestId(epoch)
  BY <1>1 DEF Attempt
<1>3. IsFiniteSet(FailuresOf(id)) /\ Cardinality(FailuresOf(id)) = Failures(id)
      /\ Failures(id) \in Nat
  BY FailuresAreNatural DEF IInv
<1>4. CASE id = RequestId(epoch)
  <2>1. FailuresOf(id)' \subseteq FailuresOf(id) \cup {Len(attempts)}
    BY <1>1, <1>2 DEF FailuresOf, Indices
  <2>2. /\ IsFiniteSet(FailuresOf(id) \cup {Len(attempts)})
        /\ Cardinality(FailuresOf(id) \cup {Len(attempts)}) <= Failures(id) + 1
        /\ Cardinality(FailuresOf(id) \cup {Len(attempts)}) \in Nat
    <3>1. /\ IsFiniteSet(FailuresOf(id) \cup {Len(attempts)})
          /\ Cardinality(FailuresOf(id) \cup {Len(attempts)}) =
               IF Len(attempts) \in FailuresOf(id) THEN Cardinality(FailuresOf(id))
               ELSE Cardinality(FailuresOf(id)) + 1
      BY <1>3, FS_AddElement
    <3>. QED BY <1>3, <3>1
  <2>3. IsFiniteSet(FailuresOf(id)') /\ Cardinality(FailuresOf(id)') \in Nat
    BY <2>1, <2>2, FS_Subset, FS_CardinalityType
  <2>4. Cardinality(FailuresOf(id)') <= Failures(id) + 1
    BY <1>3, <2>1, <2>2, <2>3, FS_Subset
  <2>. QED BY <1>4, <2>4 DEF Failures, FailuresOf
<1>5. CASE id # RequestId(epoch)
  <2>1. FailuresOf(id)' = FailuresOf(id)
    BY <1>1, <1>2, <1>5 DEF FailuresOf, Indices, Attempt
  <2>2. Failures(id)' = Failures(id) BY <2>1 DEF Failures, FailuresOf
  <2>. QED BY <1>3, <1>5, <2>2
<1>. QED BY <1>4, <1>5

-----------------------------------------------------------------------------
LEMMA EmptyIsSeq == ASSUME NEW S PROVE <<>> \in Seq(S)
OBVIOUS

LEMMA InitialInvariant == Init => IInv
<1> SUFFICES ASSUME Init PROVE IInv
  OBVIOUS
<1>1. TypeOK
  <2>1. /\ attempts = <<>> /\ proc = <<>> /\ Len(attempts) <= MaxAttempts
        /\ Len(proc) = Len(attempts)
    BY Bounds DEF Init
  <2>2. /\ epoch \in 1..MaxLives /\ lives \in 1..MaxLives /\ requests \in 0..MaxRequests
    BY Bounds DEF Init
  <2>3. (pc = "down") = ~up BY DEF Init
  <2>. QED BY <2>1, <2>2, <2>3, EmptyIsSeq DEF Init, TypeOK
<1>2. \A id : Failures(id) = 0
  <2>1. \A id : FailuresOf(id) = {} BY DEF Init, FailuresOf, Indices
  <2>. QED BY <2>1, FS_EmptySet DEF Failures, FailuresOf
<1>. QED BY <1>1, <1>2, Bounds
  DEF Init, IInv, AbortIsTracked, ProcessesAreUnsettled, LastIsCurrent, BudgetIsKept, Indices

(* Steps that leave the attempts and their processes alone.                *)

Quiet ==
    \/ Authorize \/ Redirect \/ Replace \/ CostGrows \/ CapForcesEnd \/ EndsExhausted
    \/ Unresumed \/ CapAfterGuard \/ ExhaustedByGuard \/ Retry \/ Accept \/ End
    \/ RequestAbort \/ Mark \/ FinishUserAbort \/ Crash \/ Resume

LEMMA QuietType == ASSUME IInv, Quiet PROVE TypeOK' /\ epoch' <= lives' /\ AbortIsTracked'
<1> USE Bounds DEF IInv, TypeOK, AbortIsTracked, turn, aborts, durable
<1>1. CASE Authorize \/ Redirect
  <2>1. requests' \in 0..MaxRequests
    <3>1. requests' = requests \/ (requests' = requests + 1 /\ requests < MaxRequests)
      BY <1>1 DEF Authorize, Redirect
    <3>. QED BY <3>1
  <2>2. pending' \in BOOLEAN BY <1>1 DEF Authorize, Redirect
  <2>3. /\ mark' \in {mark, "due"} /\ (abort => mark' = "due")
        /\ UNCHANGED <<gated, attempts, epoch, ended, proc, up, lives, pc, outcome, decision,
                       runner, abort, capped>>
    BY <1>1 DEF Authorize, Redirect, TellNext
  <2>. QED BY <2>1, <2>2, <2>3
<1>2. CASE Replace BY <1>2 DEF Replace
<1>3. CASE CostGrows BY <1>3 DEF CostGrows
<1>4. CASE CapForcesEnd BY <1>4 DEF CapForcesEnd
<1>5. CASE EndsExhausted BY <1>5 DEF EndsExhausted, Stop
<1>6. CASE Unresumed BY <1>6 DEF Unresumed, Stop
<1>7. CASE CapAfterGuard BY <1>7 DEF CapAfterGuard
<1>8. CASE ExhaustedByGuard BY <1>8 DEF ExhaustedByGuard, Stop
<1>9. CASE Retry BY <1>9 DEF Retry
<1>10. CASE Accept BY <1>10 DEF Accept
<1>11. CASE RequestAbort \/ Mark BY <1>11 DEF RequestAbort, Mark
<1>12. CASE FinishUserAbort \/ Crash BY <1>12 DEF FinishUserAbort, Crash, Stop
<1>13. CASE End BY <1>13 DEF End, Stop
<1>14. CASE Resume
  <2>1. lives + 1 \in 1..MaxLives /\ epoch + 1 \in 1..MaxLives /\ epoch + 1 <= lives + 1
        /\ epoch <= lives + 1
    BY <1>14 DEF Resume
  <2>2. epoch' \in {epoch, epoch + 1} /\ lives' = lives + 1 BY <1>14 DEF Resume
  <2>3. epoch' \in 1..MaxLives /\ epoch' <= lives' /\ lives' \in 1..MaxLives
    BY <2>1, <2>2
  <2>. QED BY <1>14, <2>3 DEF Resume
<1>. QED BY <1>1, <1>2, <1>3, <1>4, <1>5, <1>6, <1>7, <1>8, <1>9, <1>10, <1>11,
  <1>12, <1>13, <1>14 DEF Quiet

\* They leave a guard or its result, or leave what it is about as it is.
LEMMA QuietShape ==
    ASSUME IInv, Quiet
    PROVE  /\ UNCHANGED <<attempts, proc>>
           /\ \/ pc' \in {"role", "down"}
              \/ UNCHANGED <<pc, outcome, epoch, pending, requests, lives>>
              \/ pc' = "settling" /\ UNCHANGED <<epoch, pending, requests, lives>>
           /\ decision' = "guarded" =>
                \/ Accept
                \/ decision = "guarded" /\ UNCHANGED <<pc, epoch, pending, requests, lives>>
<1>1. decision = "guarded" => pc = "settling" BY DEF IInv, LastIsCurrent
<1>2. pc = "down" <=> ~up BY DEF IInv, TypeOK
<1> USE DEF durable, turn
<1>3. CASE Authorize \/ Redirect \/ Replace \/ CostGrows \/ CapForcesEnd
  BY <1>1, <1>3 DEF Authorize, Redirect, Replace, CostGrows, CapForcesEnd
<1>4. CASE EndsExhausted \/ Unresumed \/ ExhaustedByGuard \/ FinishUserAbort \/ Crash \/ End
  BY <1>4 DEF EndsExhausted, Unresumed, ExhaustedByGuard, FinishUserAbort, Crash, End, Stop
<1>5. CASE CapAfterGuard \/ Retry \/ Accept BY <1>1, <1>5 DEF CapAfterGuard, Retry, Accept
<1>6. CASE RequestAbort \/ Mark BY <1>6 DEF RequestAbort, Mark
<1>7. CASE Resume BY <1>1, <1>2, <1>7 DEF Resume
<1>. QED BY <1>3, <1>4, <1>5, <1>6, <1>7 DEF Quiet

LEMMA QuietStep == ASSUME IInv, Quiet PROVE IInv'
<1>1. TypeOK' /\ epoch' <= lives' /\ AbortIsTracked' BY QuietType
<1>2. ProcessesAreUnsettled'
  BY QuietShape DEF IInv, ProcessesAreUnsettled, Indices, Alive
<1>3. LastIsCurrent'
  <2>1. Accept => /\ pc = "result" /\ outcome = "passed" /\ pc' = "settling"
                  /\ UNCHANGED <<attempts, epoch, pending, requests, lives>>
    BY DEF Accept, durable
  <2>. QED BY <2>1, QuietShape DEF IInv, LastIsCurrent, RequestId, Attempt
<1>4. BudgetIsKept'
  <2>1. attempts' = attempts /\ (pc' = "guard" => UNCHANGED <<pc, epoch, pending, requests>>)
    BY QuietShape
  <2>2. \A id : Failures(id)' = Failures(id) BY <2>1 DEF Failures, Indices
  <2>3. pc' = "guard" =>
          pc = "guard" /\ Failures(RequestId(epoch))' = Failures(RequestId(epoch))
    BY <2>1 DEF RequestId, Failures, Indices
  <2>. QED BY <2>2, <2>3 DEF IInv, BudgetIsKept
<1>. QED BY <1>1, <1>2, <1>3, <1>4 DEF IInv

-----------------------------------------------------------------------------
(* Steps of an attempt.                                                    *)

\* The attempt that is started has a process or none, and is open.
LEMMA AppendedAttempt ==
    ASSUME IInv, MayAttempt, attempts' = Append(attempts, Attempt),
           NEW p \in {"running", "none"}, proc' = Append(proc, p)
    PROVE  /\ attempts' \in Seq(Attempts) /\ Len(attempts') = Len(attempts) + 1
           /\ Len(attempts') <= MaxAttempts
           /\ proc' \in Seq({"none", "running", "stopped", "left"})
           /\ Len(proc') = Len(attempts')
           /\ attempts'[Len(attempts')] = Attempt
           /\ ProcessesAreUnsettled'
<1>1. /\ attempts \in Seq(Attempts) /\ Attempt \in Attempts
      /\ proc \in Seq({"none", "running", "stopped", "left"})
      /\ Len(proc) = Len(attempts) /\ Len(attempts) \in Nat
      /\ Len(attempts) < MaxAttempts
  BY RequestIdIsTyped DEF IInv, TypeOK, Attempts, RequestIds, Attempt, MayAttempt
<1>2. /\ Len(attempts') = Len(attempts) + 1
      /\ Len(proc') = Len(attempts) + 1
      /\ \A i \in 1..Len(attempts) : attempts'[i] = attempts[i] /\ proc'[i] = proc[i]
      /\ attempts'[Len(attempts) + 1] = Attempt
      /\ attempts' \in Seq(Attempts)
      /\ proc' \in Seq({"none", "running", "stopped", "left"})
  BY <1>1
<1>3. ProcessesAreUnsettled'
  BY <1>1, <1>2 DEF IInv, ProcessesAreUnsettled, Indices, Alive, Attempt
<1>. QED BY <1>1, <1>2, <1>3, Bounds

LEMMA StartGuardStep == ASSUME IInv, StartGuard PROVE IInv'
<1> DEFINE p == IF runner = "open" THEN "running" ELSE "none"
<1>1. /\ MayAttempt /\ pc = "role" /\ pc' = "guard"
      /\ attempts' = Append(attempts, Attempt) /\ proc' = Append(proc, p)
      /\ p \in {"running", "none"}
      /\ UNCHANGED <<gated, epoch, requests, pending, ended, up, lives, outcome, decision, runner,
                     abort, mark, capped>>
  BY DEF StartGuard, MayAttempt, Legal, aborts
<1> HIDE DEF p
<1>2. TypeOK' /\ epoch' <= lives' /\ AbortIsTracked'
  BY <1>1, AppendedAttempt DEF IInv, TypeOK, AbortIsTracked, Attempts, RequestIds
<1>3. ProcessesAreUnsettled' BY <1>1, AppendedAttempt
<1>4. LastIsCurrent'
  <2>1. attempts'[Len(attempts')] = Attempt /\ Len(attempts') = Len(attempts) + 1
    BY <1>1, AppendedAttempt
  <2>2. decision' # "guarded" BY <1>1 DEF IInv, LastIsCurrent
  <2>3. Attempt' = Attempt BY <1>1 DEF Attempt, RequestId
  <2>4. attempts' # <<>> BY <2>1 DEF IInv, TypeOK
  <2>. QED BY <1>1, <2>1, <2>2, <2>3, <2>4 DEF LastIsCurrent
<1>5. BudgetIsKept'
  <2>1. \A id : Failures(id)' = Failures(id)
    BY <1>1, StartsCountNothing DEF IInv
  <2>2. RequestId(epoch)' = RequestId(epoch) BY <1>1 DEF RequestId
  <2>3. Failures(RequestId(epoch)) \in Nat BY FailuresAreNatural DEF IInv
  <2>4. Failures(RequestId(epoch)) < Budget
    BY <1>1, <2>3, Bounds DEF MayAttempt, Exhausted
  <2>5. Failures(RequestId(epoch))' = Failures(RequestId(epoch))
    BY <2>1, <2>2 DEF Failures, Indices
  <2>. QED BY <2>1, <2>4, <2>5 DEF IInv, BudgetIsKept
<1>. QED BY <1>2, <1>3, <1>4, <1>5 DEF IInv

LEMMA StartFailsStep == ASSUME IInv, StartFails PROVE IInv'
<1>1. /\ MayAttempt /\ pc = "role" /\ pc' = "down"
      /\ up' = FALSE /\ outcome' = "none" /\ decision' = "no" /\ runner' = "closed"
      /\ UNCHANGED <<gated, epoch, requests, pending, ended, lives, abort, mark, capped>>
  BY DEF StartFails, Stop, MayAttempt, Legal
<1>2. CASE attempts' = Append(attempts, Attempt) /\ proc' = Append(proc, "none")
  <2>1. TypeOK' /\ epoch' <= lives' /\ AbortIsTracked'
    BY <1>1, <1>2, AppendedAttempt DEF IInv, TypeOK, AbortIsTracked, Attempts, RequestIds
  <2>2. ProcessesAreUnsettled' BY <1>1, <1>2, AppendedAttempt
  <2>3. LastIsCurrent' BY <1>1 DEF LastIsCurrent
  <2>4. \A id : Failures(id)' = Failures(id)
    BY <1>2, StartsCountNothing DEF IInv
  <2>5. BudgetIsKept' BY <1>1, <2>4 DEF IInv, BudgetIsKept
  <2>. QED BY <2>1, <2>2, <2>3, <2>5 DEF IInv
<1>3. CASE UNCHANGED <<attempts, proc>>
  <2>1. TypeOK' /\ epoch' <= lives' /\ AbortIsTracked'
    BY <1>1, <1>3 DEF IInv, TypeOK, AbortIsTracked
  <2>2. ProcessesAreUnsettled' /\ LastIsCurrent' /\ BudgetIsKept'
    BY <1>1, <1>3 DEF IInv, ProcessesAreUnsettled, LastIsCurrent, BudgetIsKept, Failures,
         Indices, Alive
  <2>. QED BY <2>1, <2>2 DEF IInv
<1>. QED BY <1>2, <1>3 DEF StartFails

\* A process that is left is recorded as such, or the attempt stays open.
LEMMA SettledAttempt ==
    ASSUME IInv, pc = "guard", NEW rest \in {"none", "stopped", "left"}, NEW how \in Classified(rest),
           proc' = [proc EXCEPT ![Len(proc)] = rest],
           \/ attempts' = [attempts EXCEPT ![Len(attempts)].outcome = how]
           \/ UNCHANGED attempts
    PROVE  /\ attempts' \in Seq(Attempts) /\ Len(attempts') = Len(attempts)
           /\ proc' \in Seq({"none", "running", "stopped", "left"})
           /\ Len(proc') = Len(proc)
           /\ how \in Outcomes
           /\ ProcessesAreUnsettled'
<1>1. /\ attempts \in Seq(Attempts) /\ Len(attempts) \in Nat \ {0}
      /\ proc \in Seq({"none", "running", "stopped", "left"}) /\ Len(proc) = Len(attempts)
      /\ attempts[Len(attempts)] = Attempt
  BY DEF IInv, TypeOK, LastIsCurrent, Attempts, RequestIds
<1>2. how \in Outcomes /\ (rest = "left" => how = "cleanup_unconfirmed")
  BY DEF Classified, Outcomes
<1>3. /\ proc' \in Seq({"none", "running", "stopped", "left"}) /\ Len(proc') = Len(proc)
      /\ proc'[Len(attempts)] = rest
      /\ \A i \in 1..Len(attempts) : i # Len(attempts) => proc'[i] = proc[i]
  BY <1>1
<1>4. CASE attempts' = [attempts EXCEPT ![Len(attempts)].outcome = how]
  <2>1. [Attempt EXCEPT !.outcome = how] \in Attempts
    BY <1>1, <1>2 DEF Attempts, Attempt
  <2>2. attempts' \in Seq(Attempts) /\ Len(attempts') = Len(attempts)
        /\ attempts'[Len(attempts)].outcome = how
        /\ \A i \in 1..Len(attempts) : i # Len(attempts) => attempts'[i] = attempts[i]
    BY <1>1, <1>4, <2>1 DEF Attempt
  <2>3. ProcessesAreUnsettled'
    BY <1>1, <1>2, <1>3, <2>2 DEF IInv, ProcessesAreUnsettled, Indices, Alive
  <2>. QED BY <1>2, <1>3, <2>2, <2>3
<1>5. CASE UNCHANGED attempts
  <2>1. attempts[Len(attempts)].outcome = "open" BY <1>1 DEF Attempt
  <2>2. ProcessesAreUnsettled'
    BY <1>1, <1>3, <1>5, <2>1 DEF IInv, ProcessesAreUnsettled, Indices, Alive
  <2>. QED BY <1>1, <1>2, <1>3, <1>5, <2>2
<1>. QED BY <1>4, <1>5

\* The failure that is recorded was still within the budget.
LEMMA SettledBudget ==
    ASSUME IInv, pc = "guard", pc' # "guard", NEW how \in Outcomes,
           \/ attempts' = [attempts EXCEPT ![Len(attempts)].outcome = how]
           \/ UNCHANGED attempts
    PROVE  BudgetIsKept'
<1>1. \A id : Failures(id) \in Nat BY FailuresAreNatural DEF IInv
<1>2. ASSUME NEW id \in RequestIds PROVE Failures(id)' <= Budget
  <2>1. CASE UNCHANGED attempts
    BY <2>1 DEF IInv, BudgetIsKept, Failures, Indices
  <2>2. CASE attempts' = [attempts EXCEPT ![Len(attempts)].outcome = how]
    <3>1. Failures(id)' <= IF id = RequestId(epoch) THEN Failures(id) + 1 ELSE Failures(id)
      BY <2>2, EndsCountOnce
    <3>2. Failures(id) <= Budget /\ (id = RequestId(epoch) => Failures(id) < Budget)
      BY DEF IInv, BudgetIsKept
    <3>3. IsFiniteSet(FailuresOf(id)')
      <4>1. Len(attempts') \in Nat
        BY <2>2 DEF IInv, TypeOK
      <4>2. IsFiniteSet(1..Len(attempts'))
        <5>1. 1 \in Int /\ Len(attempts') \in Int BY <4>1
        <5>. QED BY <5>1, FS_Interval
      <4>3. FailuresOf(id)' \in SUBSET (1..Len(attempts')) BY DEF FailuresOf, Indices
      <4>. QED BY <4>2, <4>3, FS_Subset
    <3>4. Failures(id)' \in Nat
      BY <3>3, FS_CardinalityType DEF Failures, FailuresOf
    <3>. QED BY <1>1, <3>1, <3>2, <3>4, Bounds
  <2>. QED BY <2>1, <2>2
<1>. QED BY <1>2 DEF BudgetIsKept

LEMMA GuardEndsStep ==
    ASSUME IInv, NEW rest \in {"none", "stopped", "left"}, NEW how \in Outcomes, GuardEnds(rest, how)
    PROVE  IInv'
<1>1. /\ pc = "guard" /\ how \in Classified(rest)
      /\ proc' = [proc EXCEPT ![Len(proc)] = rest]
      /\ attempts' = [attempts EXCEPT ![Len(attempts)].outcome = how]
      /\ pc' = "result" /\ outcome' = how /\ runner' \in {"closed", runner}
      /\ UNCHANGED <<gated, epoch, requests, pending, ended, up, lives, decision, abort, mark, capped>>
  BY DEF GuardEnds
<1>2. TypeOK' /\ epoch' <= lives' /\ AbortIsTracked'
  <2>1. /\ attempts' \in Seq(Attempts) /\ Len(attempts') = Len(attempts)
        /\ proc' \in Seq({"none", "running", "stopped", "left"}) /\ Len(proc') = Len(proc)
        /\ how \in Outcomes
    BY <1>1, SettledAttempt
  <2>. QED BY <1>1, <2>1 DEF IInv, TypeOK, AbortIsTracked, Attempts, RequestIds
<1>3. ProcessesAreUnsettled' BY <1>1, SettledAttempt
<1>4. LastIsCurrent'
  <2>1. Len(attempts) \in Nat \ {0} /\ attempts[Len(attempts)] = Attempt
        /\ attempts \in Seq(Attempts)
    BY <1>1 DEF IInv, TypeOK, LastIsCurrent, Attempts, RequestIds
  <2>2. Len(attempts') = Len(attempts)
        /\ attempts'[Len(attempts)] = [Attempt EXCEPT !.outcome = how]
    BY <1>1, <2>1
  <2>3. attempts' # <<>> BY <2>1, <2>2
  <2>4. decision' # "guarded" BY <1>1 DEF IInv, LastIsCurrent
  <2>5. attempts'[Len(attempts')] =
          [request |-> RequestId(epoch), outcome |-> how, life |-> lives]
    BY <2>1, <2>2 DEF Attempt
  <2>6. RequestId(epoch)' = RequestId(epoch) BY <1>1 DEF RequestId
  <2>. QED BY <1>1, <2>3, <2>4, <2>5, <2>6 DEF LastIsCurrent
<1>5. BudgetIsKept' BY <1>1, SettledBudget
<1>. QED BY <1>2, <1>3, <1>4, <1>5 DEF IInv

LEMMA FinishFailsStep ==
    ASSUME IInv, NEW rest \in {"none", "stopped", "left"}, NEW how \in Outcomes, FinishFails(rest, how)
    PROVE  IInv'
<1>1. /\ pc = "guard" /\ how \in Classified(rest)
      /\ proc' = [proc EXCEPT ![Len(proc)] = rest]
      /\ \/ attempts' = [attempts EXCEPT ![Len(attempts)].outcome = how]
         \/ UNCHANGED attempts
      /\ pc' = "down" /\ up' = FALSE /\ outcome' = "none" /\ decision' = "no" /\ runner' = "closed"
      /\ UNCHANGED <<gated, epoch, requests, pending, ended, lives, abort, mark, capped>>
  BY DEF FinishFails, Stop
<1>2. TypeOK' /\ epoch' <= lives' /\ AbortIsTracked'
  BY <1>1, SettledAttempt DEF IInv, TypeOK, AbortIsTracked, Attempts, RequestIds
<1>3. ProcessesAreUnsettled' BY <1>1, SettledAttempt
<1>4. LastIsCurrent' BY <1>1 DEF LastIsCurrent
<1>5. BudgetIsKept' BY <1>1, SettledBudget
<1>. QED BY <1>2, <1>3, <1>4, <1>5 DEF IInv

LEMMA OrphanEndsStep == ASSUME IInv, NEW i \in Indices, OrphanEnds(i) PROVE IInv'
<1>1. /\ proc' = [proc EXCEPT ![i] = "stopped"]
      /\ UNCHANGED <<durable, up, lives, turn, aborts, capped>>
  BY DEF OrphanEnds
<1>2. /\ proc' \in Seq({"none", "running", "stopped", "left"}) /\ Len(proc') = Len(proc)
      /\ \A j \in Indices : proc'[j] \in {proc[j], "stopped"}
  BY <1>1 DEF IInv, TypeOK, Indices
<1>3. TypeOK' /\ epoch' <= lives' /\ AbortIsTracked'
  BY <1>1, <1>2 DEF IInv, TypeOK, AbortIsTracked, durable, turn, aborts
<1>4. ProcessesAreUnsettled'
  BY <1>1, <1>2 DEF IInv, ProcessesAreUnsettled, Indices, Alive, durable
<1>5. LastIsCurrent' BY <1>1 DEF IInv, LastIsCurrent, RequestId, Attempt, durable, turn
<1>6. BudgetIsKept' BY <1>1 DEF IInv, BudgetIsKept, RequestId, Failures, Indices, durable, turn
<1>. QED BY <1>3, <1>4, <1>5, <1>6 DEF IInv

LEMMA StutterStep == IInv /\ UNCHANGED vars => IInv'
BY DEF IInv, vars, durable, turn, aborts, TypeOK, AbortIsTracked, ProcessesAreUnsettled, LastIsCurrent, BudgetIsKept,
     Failures, Indices, Alive, RequestId, Attempt

LEMMA InvariantStep == IInv /\ [Next]_vars => IInv'
<1> SUFFICES ASSUME IInv, [Next]_vars PROVE IInv'
  OBVIOUS
<1>1. CASE Quiet BY <1>1, QuietStep
<1>2. CASE StartGuard BY <1>2, StartGuardStep
<1>3. CASE StartFails BY <1>3, StartFailsStep
<1>4. ASSUME NEW rest \in {"none", "stopped", "left"}, NEW how \in Outcomes,
             GuardEnds(rest, how) \/ FinishFails(rest, how)
      PROVE  IInv'
  BY <1>4, GuardEndsStep, FinishFailsStep
<1>5. ASSUME NEW i \in Indices, OrphanEnds(i) PROVE IInv'
  BY <1>5, OrphanEndsStep
<1>6. CASE Over BY <1>6, StutterStep DEF Over
<1>7. CASE UNCHANGED vars BY <1>7, StutterStep
<1>. QED BY <1>1, <1>2, <1>3, <1>4, <1>5, <1>6, <1>7 DEF Next, Quiet

\* Every reachable state satisfies the conjunction the theorems follow from.
THEOREM Invariant == Spec => []IInv
<1>. QED BY InitialInvariant, InvariantStep, PTL DEF Spec

-----------------------------------------------------------------------------
(* The theorems.                                                           *)

\* The attempts on disk are well formed and no request is given more failures
\* than its budget, over any number of crashes and resumes: endGuardFailureCount
\* reads from the log what the turn has to know.
THEOREM AttemptsStayLegal == Spec => []AttemptsAreLegal
<1>1. IInv => AttemptsAreLegal
  <2> SUFFICES ASSUME IInv, NEW i \in Indices
               PROVE  Failures(attempts[i].request) <= Budget
    BY DEF IInv, AttemptsAreLegal, FailuresAreBounded
  <2>1. attempts \in Seq(Attempts) /\ i \in 1..Len(attempts)
    BY DEF IInv, TypeOK, Indices, Attempts, RequestIds
  <2>2. attempts[i] \in Attempts BY <2>1
  <2>3. attempts[i].request \in RequestIds BY <2>2 DEF Attempts
  <2>. QED BY <2>3 DEF IInv, BudgetIsKept
<1>. QED BY <1>1, Invariant, PTL

\* Only the start of a guard makes the log of attempts longer, after the gate
\* that refuses an unsettled one.
LEMMA StartsAreGated ==
    ASSUME IInv, [Next]_vars, Len(attempts') > Len(attempts)
    PROVE  Settled
<1>1. Len(attempts) \in Nat BY DEF IInv, TypeOK
<1>2. CASE Quiet \/ Over \/ UNCHANGED vars
  BY <1>1, <1>2, QuietShape DEF Over, vars, durable
<1>3. ASSUME NEW rest \in {"none", "stopped", "left"}, NEW how \in Outcomes,
             GuardEnds(rest, how) \/ FinishFails(rest, how)
      PROVE  Len(attempts') = Len(attempts)
  BY <1>3, SettledAttempt DEF GuardEnds, FinishFails
<1>4. ASSUME NEW i \in Indices, OrphanEnds(i) PROVE attempts' = attempts
  BY <1>4 DEF OrphanEnds, durable
<1>5. CASE StartGuard \/ StartFails
  BY <1>5 DEF StartGuard, StartFails, MayAttempt
<1>. QED BY <1>1, <1>2, <1>3, <1>4, <1>5 DEF Next, Quiet

\* Two processes of the guard never run side by side: what the log calls
\* settled has no process left, whichever host started it.
THEOREM GuardsRunAlone == Spec => StartsAlone
<1>1. ASSUME IInv, [Next]_vars, Len(attempts') > Len(attempts)
      PROVE  \A i \in Indices : ~Alive(i)
  BY <1>1, StartsAreGated DEF IInv, ProcessesAreUnsettled, Settled
<1>2. IInv /\ [Next]_vars =>
        [Len(attempts') > Len(attempts) => \A i \in Indices : ~Alive(i)]_vars
  BY <1>1
<1>. QED BY <1>2, Invariant, PTL DEF Spec, StartsAlone

\* What decides an end, and on what.
LEMMA EndsAreDecided ==
    ASSUME IInv, [Next]_vars, pc' = "settling", pc # "settling", abort
    PROVE  decision' = "capped" /\ pc = "role" /\ mark \in {"due", "missed"}
<1>1. CapForcesEnd \/ CapAfterGuard \/ Accept
  <2> USE DEF turn
  <2>1. ~(StartGuard \/ StartFails) BY DEF StartGuard, StartFails, Stop
  <2>2. \A rest, how : ~GuardEnds(rest, how) /\ ~FinishFails(rest, how)
    BY DEF GuardEnds, FinishFails, Stop
  <2>3. \A i : ~OrphanEnds(i) BY DEF OrphanEnds
  <2>4. ~(Authorize \/ Redirect \/ Replace \/ CostGrows \/ RequestAbort \/ Mark)
    BY DEF Authorize, Redirect, Replace, CostGrows, RequestAbort, Mark
  <2>5. ~(EndsExhausted \/ Unresumed \/ ExhaustedByGuard \/ FinishUserAbort \/ Crash \/ End)
    BY DEF EndsExhausted, Unresumed, ExhaustedByGuard, FinishUserAbort, Crash, End, Stop
  <2>6. ~(Retry \/ Resume \/ Over \/ UNCHANGED vars) BY DEF Retry, Resume, Over, vars
  <2>. QED BY <2>1, <2>2, <2>3, <2>4, <2>5, <2>6 DEF Next
<1>2. ~(CapAfterGuard \/ Accept) BY DEF CapAfterGuard, Accept, StoppedByGuard
<1>3. CapForcesEnd BY <1>1, <1>2
<1>4. mark # "none"
  BY DEF IInv, AbortIsTracked
<1>. QED BY <1>3, <1>4 DEF CapForcesEnd, IInv, TypeOK

\* Only a decided end is recorded.
LEMMA EndsAreCarriedOut ==
    ASSUME IInv, [Next]_vars, ended' = "guarded", ended # "guarded"
    PROVE  End
<1> USE DEF durable
<1>1. ~(StartGuard \/ StartFails) BY DEF StartGuard, StartFails
<1>2. \A rest, how : ~GuardEnds(rest, how) /\ ~FinishFails(rest, how)
  BY DEF GuardEnds, FinishFails
<1>3. \A i : ~OrphanEnds(i) BY DEF OrphanEnds
<1>4. ~(Authorize \/ Redirect \/ Replace \/ CostGrows \/ RequestAbort \/ Mark)
  BY DEF Authorize, Redirect, Replace, CostGrows, RequestAbort, Mark
<1>5. ~(EndsExhausted \/ Unresumed \/ ExhaustedByGuard \/ FinishUserAbort \/ Crash)
  BY DEF EndsExhausted, Unresumed, ExhaustedByGuard, FinishUserAbort, Crash
<1>6. ~(CapForcesEnd \/ CapAfterGuard \/ Accept \/ Retry \/ Resume \/ Over \/ UNCHANGED vars)
  BY DEF CapForcesEnd, CapAfterGuard, Accept, Retry, Resume, Over, vars
<1>. QED BY <1>1, <1>2, <1>3, <1>4, <1>5, <1>6 DEF Next

\* The run ends by the orchestrator's word only on a pass of the attempt just
\* before it, of the same request and process.  Of the aborts requested before an
\* end is decided, only the forced end of a turn at the cap overrules one, and
\* only one that had not marked the session when its prompt ended.
THEOREM EndsAreGuarded == Spec => EndIsGuarded
<1>1. ASSUME IInv, [Next]_vars, ended' = "guarded", ended # "guarded"
      PROVE  Last(attempts) = [request |-> RequestId(epoch), outcome |-> "passed",
                               life |-> lives]
  <2>1. decision = "guarded" BY <1>1, EndsAreCarriedOut DEF End
  <2>. QED BY <1>1, <2>1 DEF IInv, LastIsCurrent, Last
<1>2. IInv /\ [Next]_vars =>
        [/\ pc' = "settling" /\ pc # "settling" /\ abort =>
              decision' = "capped" /\ pc = "role" /\ mark \in {"due", "missed"}
         /\ ended' = "guarded" /\ ended # "guarded" =>
              Last(attempts) = [request |-> RequestId(epoch), outcome |-> "passed",
                                life |-> lives]]_vars
  BY <1>1, EndsAreDecided
<1>. QED BY <1>2, Invariant, PTL DEF Spec, EndIsGuarded
=============================================================================
