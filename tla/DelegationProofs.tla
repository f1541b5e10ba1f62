--------------------------- MODULE DelegationProofs ---------------------------
(***************************************************************************)
(* TLAPS proofs about DelegationScheduler, for any submissions, workers,   *)
(* allowance, kind of parent and number of calls, visits and processes.    *)
(***************************************************************************)
EXTENDS DelegationScheduler, Functions, FiniteSetTheorems, SequenceTheorems, TLAPS

\* What is accepted is accepted for a visit that has begun, and all else that
\* is known of a child is known after its acceptance.
LogFits ==
    /\ \A s \in Subs : owner[s] <= visit
    /\ terminal \cup started \subseteq Accepted

\* A scheduler that is gone knows nothing and admits nothing.
PlaceFits ==
    /\ place # "refused"
    /\ place = "down" =>
         /\ calls = <<>> /\ admitting = 0 /\ queue = <<>> /\ closing = <<>>
         /\ live = {} /\ running = 0 /\ settling = "none" /\ failure = "none" /\ timer = FALSE
         /\ cancels = {}
         /\ closed = TRUE /\ \A c \in Children : status[c] = "unknown"
         /\ ~Controller => visit < MaxVisits

\* What a failure and a close have done so far.
ClosureFits ==
    /\ settling # "none" \/ failure # "none" => closed = TRUE
    /\ settling \notin {"none", "admission"} => queue = <<>>
    /\ settling # "cancelling" => closing = <<>>
    /\ failure # "other" => fatal = {}
    /\ IsInjective(queue)

\* A submission that waits is new or was accepted in this visit; one that is
\* being prepared is not known.
AdmissionFits ==
    /\ \A s \in Range(calls) : owner[s] \in {0, visit}
    /\ admitting # 0 =>
         /\ owner[admitting] \in {0, visit}
         /\ \A c \in Of(admitting) : status[c] = "unknown"

\* Before a failure of unknown ownership the scheduler knows of every child
\* of its parent where it is.
ChildFits(c) ==
    /\ status[c] # "unknown" => owner[c[1]] = visit
    /\ c \in live => status[c] = "running"
    /\ status[c] = "queued" => c \notin started
    /\ c \in Range(queue) \cup Range(closing) => status[c] \in {"queued", "settled"}
    /\ place = "up" /\ failure # "other" =>
         /\ owner[c[1]] = visit => status[c] # "unknown"
         /\ status[c] = "running" => c \in live
         /\ status[c] = "queued" =>
              c \notin terminal /\ c \in Range(queue) \cup Range(closing)

IInv ==
    /\ TypeOK /\ WorkersAreCounted /\ AllowanceHolds /\ AnswersAreDurable /\ CloseSettles
    /\ LogFits /\ PlaceFits /\ ClosureFits /\ AdmissionFits
    /\ \A c \in Children : ChildFits(c)

-----------------------------------------------------------------------------
(* Lemmas about children and their number.                                 *)

LEMMA ChildShape ==
    /\ \A c \in Children : c[1] \in Subs
    /\ \A s \in Subs : \A i \in 1..Batches[s] : <<s, i>> \in Children
    /\ Subs = 1..Len(Batches) /\ Len(Batches) \in Nat
    /\ \A s \in Subs : Batches[s] \in Nat \ {0}
<1>1. \A c \in Children : \E s \in Subs : \E i \in 1..Batches[s] : c = <<s, i>>
  BY DEF Children
<1>2. \A s \in Subs : \A i \in 1..Batches[s] : <<s, i>> \in Children
  BY DEF Children
<1>3. Subs = 1..Len(Batches) /\ Len(Batches) \in Nat
  BY SchedulerAssumption, LenProperties DEF Subs
<1>4. \A s \in Subs : Batches[s] \in Nat \ {0}
  BY SchedulerAssumption, <1>3, ElementOfSeq
<1>. QED BY <1>1, <1>2, <1>3, <1>4

LEMMA BatchSize ==
    ASSUME NEW s \in Subs
    PROVE  /\ IsFiniteSet(Of(s)) /\ Cardinality(Of(s)) = Batches[s]
           /\ Of(s) \subseteq Children
           /\ \E c \in Of(s) : c[1] = s
           /\ \A c \in Children : c \in Of(s) <=> \E i \in 1..Batches[s] : c = <<s, i>>
<1> DEFINE f == [i \in 1..Batches[s] |-> <<s, i>>]
<1>1. Batches[s] \in Nat \ {0} BY ChildShape
<1>2. \A c : c \in Of(s) <=> \E i \in 1..Batches[s] : c = <<s, i>>
  BY DEF Of, Children
<1>3. f \in Bijection(1..Batches[s], Of(s))
  <2>1. f \in [1..Batches[s] -> Of(s)] BY <1>2
  <2>2. f \in Injection(1..Batches[s], Of(s)) BY <2>1 DEF Injection, IsInjective
  <2>3. f \in Surjection(1..Batches[s], Of(s)) BY <1>2, <2>1 DEF Surjection
  <2>. QED BY <2>2, <2>3 DEF Bijection
<1>4. ExistsBijection(1..Batches[s], Of(s)) BY <1>3 DEF ExistsBijection
<1>5. 1 \in Int /\ Batches[s] \in Int BY <1>1
<1>6. IsFiniteSet(1..Batches[s]) /\ Cardinality(1..Batches[s]) = Batches[s]
  BY <1>1, <1>5, FS_Interval
<1>7. IsFiniteSet(Of(s)) /\ Cardinality(Of(s)) = Batches[s]
  BY <1>4, <1>6, FS_Bijection
<1>8. <<s, 1>> \in Of(s) /\ <<s, 1>>[1] = s BY <1>1, <1>2
<1>9. Of(s) \subseteq Children BY DEF Of
<1>. QED BY <1>2, <1>7, <1>8, <1>9

LEMMA ChildrenFinite == IsFiniteSet(Children)
<1> DEFINE B == {{<<s, i>> : i \in 1..Batches[s]} : s \in Subs}
<1>1. \A s \in Subs : {<<s, i>> : i \in 1..Batches[s]} = Of(s)
  <2>. SUFFICES ASSUME NEW s \in Subs PROVE {<<s, i>> : i \in 1..Batches[s]} = Of(s)
    OBVIOUS
  <2>1. \A i \in 1..Batches[s] : <<s, i>> \in Of(s) BY ChildShape, BatchSize
  <2>2. \A c \in Of(s) : \E i \in 1..Batches[s] : c = <<s, i>> BY BatchSize
  <2>. QED BY <2>1, <2>2
<1>2. \A T \in B : IsFiniteSet(T) BY <1>1, BatchSize
<1>3. IsFiniteSet(B)
  <2> DEFINE g == [s \in Subs |-> {<<s, i>> : i \in 1..Batches[s]}]
  <2>1. g \in Surjection(Subs, B) BY DEF Surjection
  <2>2. 1 \in Int /\ Len(Batches) \in Int BY ChildShape
  <2>3. IsFiniteSet(Subs) BY <2>2, ChildShape, FS_Interval
  <2>. QED BY <2>1, <2>3, FS_Surjection
<1>4. Children = UNION B BY DEF Children
<1>. QED BY <1>2, <1>3, <1>4, FS_UNION

LEMMA MineFinite ==
    \A v : /\ IsFiniteSet(Mine(v)) /\ Cardinality(Mine(v)) \in Nat
           /\ Mine(v) \subseteq Children
<1>1. \A v : Mine(v) \in SUBSET Children BY DEF Mine
<1>. QED BY <1>1, ChildrenFinite, FS_Subset, FS_CardinalityType

-----------------------------------------------------------------------------
(* What drain does: children S of the queue q start, unless the scheduler  *)
(* is closed or the budget e is spent.                                     *)

Works(S, q, st, l, e) ==
    /\ S \subseteq Children /\ \A c \in S : st[c] = "queued"
    /\ S # {} => closed = FALSE /\ e = FALSE
    /\ status' = [c \in Children |-> IF c \in S THEN "running" ELSE st[c]]
    /\ live' = l \cup S /\ started' = started \cup S
    /\ running' = Cardinality(live') /\ running' \in Nat /\ running' <= MaxParallel
    /\ queue' \in Seq(Children) /\ (q = <<>> => queue' = <<>>)
    /\ \A c \in Range(q) : st[c] = "queued" => c \in S \cup Range(queue')
    /\ Range(queue') \subseteq Range(q)
    /\ IsInjective(q) => IsInjective(queue') /\ S \cap Range(queue') = {}

LEMMA QuietWorks ==
    ASSUME NEW q \in Seq(Children), NEW st \in [Children -> States],
           NEW l \in SUBSET Children, NEW n \in Nat, NEW e,
           n = Cardinality(l), n <= MaxParallel, Quiet(q, st, l, n)
    PROVE  Works({}, q, st, l, e)
BY DEF Quiet, Works

LEMMA DrainWorks ==
    ASSUME NEW q \in Seq(Children), NEW st \in [Children -> States],
           NEW l \in SUBSET Children, NEW n \in Nat, NEW e \in BOOLEAN,
           n = Cardinality(l), n <= MaxParallel, \A c \in l : st[c] = "running",
           closed \in BOOLEAN, Drain(q, st, l, n, e)
    PROVE  /\ \E S : Works(S, q, st, l, e)
           /\ closed' \in BOOLEAN /\ (closed = TRUE => closed' = TRUE)
           /\ \/ settling' = settling
              \/ settling = "none" /\ settling' = "admission" /\ closed' = TRUE
<1>1. CASE closed \/ e
  <2>1. Quiet(q, st, l, n) /\ closed' = TRUE BY <1>1 DEF Drain
  <2>2. settling' = settling \/ (settling = "none" /\ settling' = "admission")
    BY <1>1 DEF Drain
  <2>3. Works({}, q, st, l, e) BY <2>1, QuietWorks
  <2>. QED BY <2>1, <2>2, <2>3
<1>2. CASE ~(closed \/ e)
  <2>1. PICK k \in 0..Len(q) :
          /\ Cardinality(Shifted(q, st, k)) <= MaxParallel - n
          /\ queue' = SubSeq(q, k + 1, Len(q))
          /\ status' = [c \in Children |-> IF c \in Shifted(q, st, k) THEN "running" ELSE st[c]]
          /\ live' = l \cup Shifted(q, st, k)
          /\ running' = n + Cardinality(Shifted(q, st, k))
          /\ started' = started \cup Shifted(q, st, k)
          /\ UNCHANGED <<closed, settling>>
    BY <1>2 DEF Drain
  <2>2. PICK S : S = Shifted(q, st, k) OBVIOUS
  <2>3. Len(q) \in Nat /\ DOMAIN q = 1..Len(q) /\ k \in Nat /\ k <= Len(q)
        /\ \A i \in 1..Len(q) : q[i] \in Children
    BY <2>1, LenProperties, ElementOfSeq
  <2>4. S \subseteq Children /\ \A c \in S : st[c] = "queued"
    BY <2>2, <2>3 DEF Shifted, CanRun
  <2>5. IsFiniteSet(S) /\ Cardinality(S) \in Nat /\ IsFiniteSet(l)
    BY <2>4, ChildrenFinite, FS_Subset, FS_CardinalityType
  <2>6. l \cap S = {} BY <2>4
  <2>7. Cardinality(l \cup S) = n + Cardinality(S)
    <3>1. Cardinality(l \cup S) = Cardinality(l) + Cardinality(S) - Cardinality(l \cap S)
      BY <2>5, FS_Union
    <3>2. Cardinality(l \cap S) = 0 BY <2>6, FS_EmptySet
    <3>. QED BY <2>5, <3>1, <3>2
  <2>8. running' = Cardinality(live') /\ running' \in Nat /\ running' <= MaxParallel
    BY <2>1, <2>2, <2>5, <2>7, SchedulerAssumption
  <2>9. /\ SubSeq(q, k + 1, Len(q)) \in Seq(Children)
        /\ Len(SubSeq(q, k + 1, Len(q))) = Len(q) - k
        /\ \A i \in 1..(Len(q) - k) : SubSeq(q, k + 1, Len(q))[i] = q[k + i]
    <3>1. k + 1 \in Int /\ Len(q) \in Int /\ \A i \in (k + 1)..Len(q) : q[i] \in Children
      BY <2>3
    <3>2. /\ SubSeq(q, k + 1, Len(q)) \in Seq(Children)
          /\ Len(SubSeq(q, k + 1, Len(q))) = IF k + 1 <= Len(q) THEN Len(q) - (k + 1) + 1 ELSE 0
          /\ \A i \in 1..(Len(q) - (k + 1) + 1) : SubSeq(q, k + 1, Len(q))[i] = q[k + 1 + i - 1]
      BY <3>1, SubSeqProperties
    <3>. QED BY <2>3, <3>2
  <2>10. q = <<>> => queue' = <<>>
    <3>. SUFFICES ASSUME q = <<>> PROVE queue' = <<>> OBVIOUS
    <3>1. Len(q) = 0 BY EmptySeq
    <3>2. Len(q) < k + 1 /\ k + 1 \in Int /\ Len(q) \in Int BY <2>3, <3>1
    <3>. QED BY <2>1, <3>2, SubSeqEmpty
  <2>11. ASSUME NEW c \in Range(q), st[c] = "queued" PROVE c \in S \cup Range(queue')
    <3>1. PICK i \in 1..Len(q) : q[i] = c BY <2>3 DEF Range
    <3>2. CASE i <= k
      <4>1. i \in 1..k BY <2>3, <3>2
      <4>. QED BY <2>2, <2>11, <3>1, <4>1 DEF Shifted, CanRun
    <3>3. CASE ~(i <= k)
      <4>1. i - k \in 1..(Len(q) - k) /\ k + (i - k) = i BY <2>3, <3>3
      <4>2. queue'[i - k] = c BY <2>1, <2>9, <3>1, <4>1
      <4>3. DOMAIN queue' = 1..(Len(q) - k) BY <2>1, <2>9, LenProperties
      <4>. QED BY <4>1, <4>2, <4>3 DEF Range
    <3>. QED BY <3>2, <3>3
  <2>12. closed = FALSE /\ e = FALSE BY <1>2
  <2>13. DOMAIN queue' = 1..(Len(q) - k) /\ \A i \in DOMAIN queue' : queue'[i] = q[k + i]
    BY <2>1, <2>9, LenProperties
  <2>14. Range(queue') \subseteq Range(q) BY <2>3, <2>13 DEF Range
  <2>15. ASSUME IsInjective(q) PROVE IsInjective(queue') /\ S \cap Range(queue') = {}
    <3>1. \A i \in DOMAIN queue' : k + i \in DOMAIN q /\ i \in Int BY <2>3, <2>13
    <3>2. IsInjective(queue')
      <4>1. SUFFICES ASSUME NEW i \in DOMAIN queue', NEW j \in DOMAIN queue',
                            queue'[i] = queue'[j]
                     PROVE  i = j
        BY DEF IsInjective
      <4>2. k + i = k + j BY <2>13, <2>15, <3>1, <4>1 DEF IsInjective
      <4>. QED BY <2>3, <3>1, <4>2
    <3>3. ASSUME NEW c \in S, c \in Range(queue') PROVE FALSE
      <4>1. PICK i \in DOMAIN queue' : queue'[i] = c BY <3>3 DEF Range
      <4>2. PICK j \in 1..k : q[j] = c BY <2>2 DEF Shifted
      <4>3. j \in DOMAIN q BY <2>3
      <4>4. k + i = j BY <2>13, <2>15, <3>1, <4>1, <4>2, <4>3 DEF IsInjective
      <4>. QED BY <2>3, <2>13, <4>4
    <3>. QED BY <3>2, <3>3
  <2>16. Works(S, q, st, l, e)
    BY <2>1, <2>2, <2>4, <2>8, <2>9, <2>10, <2>11, <2>12, <2>14, <2>15 DEF Works
  <2>. QED BY <2>1, <2>12, <2>16
<1>. QED BY <1>1, <1>2

LEMMA TailRange ==
    ASSUME NEW S, NEW s \in Seq(S), s # <<>>
    PROVE  /\ Head(s) \in S /\ Tail(s) \in Seq(S)
           /\ Head(s) \in Range(s) /\ Range(Tail(s)) \subseteq Range(s)
           /\ \A x \in Range(s) : x = Head(s) \/ x \in Range(Tail(s))
<1>1. /\ Head(s) \in S /\ Tail(s) \in Seq(S) /\ Len(Tail(s)) = Len(s) - 1
      /\ \A i \in 1..Len(Tail(s)) : Tail(s)[i] = s[i + 1]
  BY HeadTailProperties
<1>2. /\ Len(s) \in Nat \ {0} /\ DOMAIN s = 1..Len(s)
      /\ DOMAIN Tail(s) = 1..(Len(s) - 1) /\ Head(s) = s[1]
  BY <1>1, EmptySeq, LenProperties
<1>3. ASSUME NEW x \in Range(s) PROVE x = Head(s) \/ x \in Range(Tail(s))
  <2>1. PICK i \in 1..Len(s) : s[i] = x BY <1>2 DEF Range
  <2>2. CASE i = 1 BY <1>2, <2>1, <2>2
  <2>3. CASE i # 1
    <3>1. i - 1 \in 1..(Len(s) - 1) /\ (i - 1) + 1 = i BY <1>2, <2>3
    <3>2. Tail(s)[i - 1] = x BY <1>1, <1>2, <2>1, <3>1
    <3>. QED BY <1>2, <3>1, <3>2 DEF Range
  <2>. QED BY <2>2, <2>3
<1>4. ASSUME NEW i \in 1..(Len(s) - 1) PROVE Tail(s)[i] \in Range(s)
  <2>1. i + 1 \in 1..Len(s) BY <1>2
  <2>. QED BY <1>1, <1>2, <2>1 DEF Range
<1>5. Range(Tail(s)) \subseteq Range(s) BY <1>2, <1>4 DEF Range
<1>6. Head(s) \in Range(s) BY <1>2 DEF Range
<1>. QED BY <1>1, <1>3, <1>5, <1>6

LEMMA AppendRange ==
    ASSUME NEW S, NEW s \in Seq(S), NEW x \in S
    PROVE  Append(s, x) \in Seq(S) /\ Range(Append(s, x)) = Range(s) \cup {x}
<1>1. /\ Append(s, x) \in Seq(S) /\ Len(Append(s, x)) = Len(s) + 1
      /\ \A i \in 1..Len(s) : Append(s, x)[i] = s[i]
      /\ Append(s, x)[Len(s) + 1] = x
  BY AppendProperties
<1>2. /\ DOMAIN s = 1..Len(s) /\ Len(s) \in Nat
      /\ DOMAIN Append(s, x) = 1..(Len(s) + 1)
  BY <1>1, LenProperties
<1>3. 1..(Len(s) + 1) = 1..Len(s) \cup {Len(s) + 1} BY <1>2
<1>. QED BY <1>1, <1>2, <1>3 DEF Range

-----------------------------------------------------------------------------
(* Steps that leave the children, their records and the failure alone.     *)

LEMMA StillStep ==
    ASSUME IInv, TypeOK', ClosureFits', AdmissionFits', PlaceFits', CloseSettles',
           UNCHANGED <<disk, run, status, fatal, live, running, failure, started>>,
           Range(queue) \cup Range(closing) = Range(queue') \cup Range(closing')
    PROVE  IInv'
<1>. USE DEF disk, run
<1>1. UNCHANGED Accepted /\ \A v : Mine(v)' = Mine(v) BY DEF Accepted, Mine
<1>2. WorkersAreCounted' BY DEF IInv, WorkersAreCounted
<1>3. AllowanceHolds' BY <1>1 DEF IInv, AllowanceHolds
<1>4. AnswersAreDurable' BY DEF IInv, AnswersAreDurable
<1>5. LogFits' BY <1>1 DEF IInv, LogFits
<1>6. ASSUME NEW c \in Children PROVE ChildFits(c)' BY DEF IInv, ChildFits
<1>. QED BY <1>2, <1>3, <1>4, <1>5, <1>6 DEF IInv

LEMMA PlaceIs == IInv => place = "up" \/ place = "down"
BY DEF IInv, TypeOK, PlaceFits

LEMMA SubmitKeeps == ASSUME IInv, NEW s \in Subs, Submit(s) PROVE IInv'
<1>. USE DEF Submit, disk, run, tasks, closure, asking
<1>1. calls' \in Seq(Subs) /\ Range(calls') = Range(calls) \cup {s}
  BY AppendRange DEF IInv, TypeOK
<1>2. TypeOK' BY <1>1 DEF IInv, TypeOK
<1>3. ClosureFits' BY DEF IInv, ClosureFits
<1>4. AdmissionFits' BY <1>1 DEF IInv, AdmissionFits, Of
<1>5. PlaceFits' BY DEF PlaceFits
<1>6. CloseSettles' BY DEF IInv, CloseSettles, Mine
<1>. QED BY <1>2, <1>3, <1>4, <1>5, <1>6, StillStep

LEMMA AdmitKeeps == ASSUME IInv, Admit PROVE IInv'
<1>. USE DEF Admit, disk, run, tasks, closure, asking
<1>1. place = "up" BY PlaceIs DEF IInv, PlaceFits
<1>2. /\ Head(calls) \in Subs /\ calls' \in Seq(Subs)
      /\ Head(calls) \in Range(calls) /\ Range(calls') \subseteq Range(calls)
  BY TailRange DEF IInv, TypeOK
<1>3. admitting' \in {0, Head(calls)} /\ (admitting' # 0 => ~Known(Head(calls)))
  BY DEF IInv, TypeOK
<1>4. TypeOK' BY <1>2, <1>3 DEF IInv, TypeOK
<1>5. ClosureFits' BY DEF IInv, ClosureFits
<1>6. AdmissionFits'
  <2>1. \A x \in Range(calls') : owner[x] \in {0, visit}
    BY <1>2 DEF IInv, AdmissionFits
  <2>2. admitting' # 0 => /\ admitting' = Head(calls) /\ owner[Head(calls)] \in {0, visit}
                          /\ \A c \in Of(Head(calls)) : status[c] = "unknown"
    BY <1>2, <1>3 DEF IInv, AdmissionFits, Known
  <2>. QED BY <2>1, <2>2 DEF AdmissionFits, Of
<1>7. PlaceFits' BY <1>1 DEF PlaceFits
<1>8. CloseSettles' BY DEF IInv, CloseSettles, Mine
<1>. QED BY <1>4, <1>5, <1>6, <1>7, <1>8, StillStep

LEMMA QuietKeeps ==
    ASSUME IInv,
           \/ Refuse \/ SpendBudget
           \/ \E c \in Children : Wait(c) \/ CancelRunning(c)
    PROVE  IInv'
<1>. USE DEF disk, run, tasks, closure, asking, admission
<1>1. /\ UNCHANGED <<disk, run, status, fatal, live, running, failure, started, queue, closing,
                     calls, closed, timer, settling, made>>
      /\ admitting' \in {admitting, 0}
  BY DEF Refuse, SpendBudget, Wait, CancelRunning
<1>2. TypeOK'
  <2>1. exhausted' \in BOOLEAN /\ waiting' \subseteq Children
        /\ aborted' \subseteq Children /\ cancels' \subseteq Children
    BY DEF IInv, TypeOK, Refuse, SpendBudget, Wait, CancelRunning
  <2>. QED BY <1>1, <2>1 DEF IInv, TypeOK
<1>3. ClosureFits' BY <1>1 DEF IInv, ClosureFits
<1>4. AdmissionFits' BY <1>1 DEF IInv, AdmissionFits, Of
<1>5. PlaceFits'
  <2>1. place = "down" => cancels' = cancels
    BY DEF IInv, PlaceFits, Refuse, SpendBudget, Wait, CancelRunning
  <2>. QED BY <1>1, <2>1 DEF IInv, PlaceFits
<1>6. CloseSettles' BY <1>1 DEF IInv, CloseSettles, Mine
<1>. QED BY <1>1, <1>2, <1>3, <1>4, <1>5, <1>6, StillStep

LEMMA EmptyRange == Range(<<>>) = {} /\ IsInjective(<<>>)
BY EmptySeq DEF Range, IsInjective

LEMMA CloseKeeps == ASSUME IInv, Close \/ CloseTimer PROVE IInv'
<1>. USE DEF disk, run, tasks, asking, admission
<1>1. place = "up" BY PlaceIs DEF IInv, PlaceFits, Close, CloseTimer
<1>2. /\ UNCHANGED <<disk, run, status, fatal, live, running, failure, started, queue, closing,
                     calls, admitting, made, exhausted, aborted, waiting, cancels>>
      /\ closed' = TRUE /\ timer' \in {timer, FALSE}
      /\ \/ settling' = settling
         \/ settling = "none" /\ settling' = "admission"
  BY DEF Close, CloseTimer
<1>3. TypeOK' BY <1>2 DEF IInv, TypeOK
<1>4. ClosureFits' BY <1>2 DEF IInv, ClosureFits
<1>5. AdmissionFits' BY <1>2 DEF IInv, AdmissionFits, Of
<1>6. PlaceFits' BY <1>1, <1>2 DEF PlaceFits
<1>7. CloseSettles' BY <1>2 DEF IInv, CloseSettles, Mine
<1>. QED BY <1>2, <1>3, <1>4, <1>5, <1>6, <1>7, StillStep

LEMMA CloseAdmissionKeeps == ASSUME IInv, CloseAdmission PROVE IInv'
<1>. USE DEF CloseAdmission, disk, run, admission, asking
<1>1. place = "up" BY PlaceIs DEF IInv, PlaceFits
<1>2. TypeOK' BY EmptySeq DEF IInv, TypeOK
<1>3. ClosureFits' BY EmptyRange DEF IInv, ClosureFits
<1>4. AdmissionFits' BY DEF IInv, AdmissionFits, Of
<1>5. PlaceFits' BY <1>1 DEF PlaceFits
<1>6. CloseSettles' BY DEF CloseSettles
<1>7. closing = <<>> /\ Range(closing) = {} BY EmptyRange DEF IInv, ClosureFits
<1>8. queue' = <<>> /\ Range(queue') = {} BY EmptyRange
<1>. QED BY <1>2, <1>3, <1>4, <1>5, <1>6, <1>7, <1>8, StillStep

LEMMA CloseAbortKeeps == ASSUME IInv, CloseAbort PROVE IInv'
<1>. USE DEF CloseAbort, disk, run, admission, asking
<1>1. place = "up" BY PlaceIs DEF IInv, PlaceFits
<1>2. TypeOK' BY DEF IInv, TypeOK
<1>3. ClosureFits' BY DEF IInv, ClosureFits
<1>4. AdmissionFits' BY DEF IInv, AdmissionFits, Of
<1>5. PlaceFits' BY <1>1 DEF PlaceFits
<1>6. CloseSettles' BY DEF CloseSettles
<1>. QED BY <1>2, <1>3, <1>4, <1>5, <1>6, StillStep

\* When close returns normally nobody is unknown, queued or at work, so all
\* that was accepted for the parent has settled, and so has its record.
LEMMA CloseDoneKeeps == ASSUME IInv, CloseDone PROVE IInv'
<1>. USE DEF CloseDone, disk, run, tasks, admission, asking
<1>1. place = "up" BY PlaceIs DEF IInv, PlaceFits
<1>2. TypeOK' BY DEF IInv, TypeOK
<1>3. ClosureFits' BY DEF IInv, ClosureFits
<1>4. AdmissionFits' BY DEF IInv, AdmissionFits, Of
<1>5. PlaceFits' BY <1>1 DEF PlaceFits
<1>6. CloseSettles'
  <2>1. queue = <<>> /\ closing = <<>> /\ DOMAIN queue = {}
    BY EmptySeq DEF IInv, ClosureFits
  <2>2. SUFFICES ASSUME failure # "other", NEW c \in Mine(visit)
                 PROVE  c \in terminal
    BY <2>1 DEF CloseSettles, Mine
  <2>3. c \in Children /\ owner[c[1]] = visit BY DEF Mine
  <2>4. c \notin live /\ c \notin Range(queue) /\ c \notin Range(closing)
    BY <2>1, EmptyRange
  <2>5. status[c] = "settled"
    BY <1>1, <2>2, <2>3, <2>4 DEF IInv, TypeOK, ChildFits, States
  <2>. QED BY <2>3, <2>5 DEF IInv, AnswersAreDurable
<1>. QED BY <1>2, <1>3, <1>4, <1>5, <1>6, StillStep

-----------------------------------------------------------------------------
(* Steps after which children may start, and one may have ended.           *)

\* How a step leaves the child d, the children S having started.
Ends(d, S, st, l) ==
    /\ st \in {status, [status EXCEPT ![d] = "settled"]}
    /\ terminal' \in {terminal, terminal \cup {d}} /\ l \in {live, live \ {d}}
    /\ st # status => d \in terminal' /\ d \notin l
    /\ st # status \/ terminal' # terminal => status[d] # "unknown"
    /\ failure' # "other" =>
         /\ failure # "other" /\ fatal' = fatal
         /\ (terminal' = terminal /\ st = status /\ l = live) \/ st[d] = "settled"

\* The children that start are accepted, and have neither started nor ended;
\* the scheduler is open and the budget holds.
Starts ==
    \A c \in live' \ live : c \in Accepted' \ (terminal \cup started) /\ ~closed /\ ~exhausted'

LEMMA WorkStep ==
    ASSUME IInv, place = "up", UNCHANGED <<owner, run, calls, made, admitting>>,
           TypeOK', ClosureFits', NEW d \in Children, NEW S, NEW st, NEW l, NEW e,
           Works(S, queue, st, l, e), e = exhausted', Ends(d, S, st, l),
           closed = TRUE => closed' = TRUE,
           \/ settling' = settling
           \/ settling \notin {"resolved"} /\ settling' \notin {"resolved"},
           Range(closing') \subseteq Range(closing),
           \A c \in Range(closing) \ Range(closing') :
               st[c] # "queued" \/ failure' = "other"
    PROVE  IInv' /\ Starts
<1>. USE DEF run
<1>1. UNCHANGED Accepted /\ \A v : Mine(v)' = Mine(v) BY DEF Accepted, Mine
<1>2. /\ \A c \in Children : c # d => st[c] = status[c]
      /\ \/ st[d] = status[d]
         \/ st[d] = "settled" /\ d \in terminal' /\ d \notin l
      /\ st[d] # status[d] \/ terminal' # terminal => status[d] # "unknown"
      /\ l \subseteq live /\ live \ {d} \subseteq l
      /\ terminal \subseteq terminal' /\ terminal' \subseteq terminal \cup {d}
  <2>1. status \in [Children -> States] BY DEF IInv, TypeOK
  <2>2. CASE st = status BY <2>2 DEF Ends
  <2>3. CASE st # status /\ st = [status EXCEPT ![d] = "settled"]
    BY <2>1, <2>3 DEF Ends
  <2>. QED BY <2>2, <2>3 DEF Ends
<1>3. /\ S \subseteq Children /\ live' = l \cup S /\ started' = started \cup S
      /\ \A c \in S : st[c] = "queued" /\ status'[c] = "running"
      /\ \A c \in Children \ S : status'[c] = st[c]
      /\ S # {} => closed = FALSE
      /\ \A c \in Range(queue) : st[c] = "queued" => c \in S \cup Range(queue')
      /\ queue = <<>> => queue' = <<>>
      /\ Range(queue') \subseteq Range(queue) /\ S \cap Range(queue') = {}
  BY DEF IInv, ClosureFits, Works
<1>4. \A c \in S : status[c] = "queued" BY <1>2, <1>3
<1>5. WorkersAreCounted' BY DEF WorkersAreCounted, Works
<1>6. AllowanceHolds' BY <1>1 DEF IInv, AllowanceHolds
<1>7. AnswersAreDurable'
  BY <1>2, <1>3 DEF IInv, AnswersAreDurable
<1>8. LogFits'
  <2>1. S \cup (terminal' \ terminal) \subseteq Accepted
    <3>1. \A c \in S \cup (terminal' \ terminal) : c \in Children /\ status[c] # "unknown"
      BY <1>2, <1>3, <1>4
    <3>2. visit # 0 BY DEF IInv, TypeOK
    <3>. QED BY <3>1, <3>2 DEF IInv, ChildFits, Accepted
  <2>. QED BY <1>1, <1>2, <1>3, <2>1 DEF IInv, LogFits
<1>9. PlaceFits' BY DEF PlaceFits
<1>10. AdmissionFits'
  <2>1. ASSUME admitting # 0, NEW c \in Of(admitting) PROVE status'[c] = "unknown"
    <3>1. c \in Children /\ status[c] = "unknown" BY <2>1 DEF IInv, AdmissionFits, Of
    <3>. QED BY <1>2, <1>3, <1>4, <3>1
  <2>. QED BY <2>1 DEF IInv, AdmissionFits, Of
<1>11. CloseSettles'
  <2>1. SUFFICES ASSUME settling' = "resolved" PROVE CloseSettles' BY DEF CloseSettles
  <2>2. settling = "resolved" BY <2>1
  <2>3. live = {} /\ queue = <<>> /\ closed = TRUE /\ Mine(visit) \subseteq terminal
    BY <2>2 DEF IInv, CloseSettles, ClosureFits
  <2>4. live' = {} /\ queue' = <<>> /\ DOMAIN queue' = {} BY <1>2, <1>3, <2>3, EmptySeq
  <2>5. Mine(visit)' \subseteq terminal' BY <1>1, <1>2, <2>3
  <2>. QED BY <2>4, <2>5 DEF CloseSettles
<1>12. ASSUME NEW c \in Children PROVE ChildFits(c)'
  <2>1. CASE c \in S
    <3>1. /\ status'[c] = "running" /\ c \in live' /\ status[c] = "queued"
          /\ c \notin Range(queue')
      BY <1>3, <1>4, <2>1
    <3>3. c \notin Range(closing')
      <4>1. closed = FALSE BY <1>3, <2>1
      <4>2. closing = <<>> BY <4>1 DEF IInv, ClosureFits
      <4>. QED BY <4>2, EmptyRange
    <3>2. owner[c[1]] = visit BY <3>1 DEF IInv, ChildFits
    <3>. QED BY <3>1, <3>2, <3>3 DEF ChildFits
  <2>2. CASE c \notin S /\ c # d
    <3>1. /\ status'[c] = status[c] /\ st[c] = status[c]
          /\ c \in live' <=> c \in live
          /\ c \in terminal' <=> c \in terminal
          /\ c \in started' <=> c \in started
      BY <1>2, <1>3, <2>2
    <3>2. failure' # "other" => failure # "other" BY DEF Ends
    <3>3. failure' # "other" /\ status[c] = "queued" /\ c \in Range(queue) \cup Range(closing)
            => c \in Range(queue') \cup Range(closing')
      BY <1>3, <2>2, <3>1
    <3>4. c \in Range(queue') \cup Range(closing') => c \in Range(queue) \cup Range(closing)
      BY <1>3
    <3>. QED BY <3>1, <3>2, <3>3, <3>4 DEF IInv, ChildFits
  <2>3. CASE c \notin S /\ c = d
    <3>1. status'[c] = st[c] /\ (c \in live' <=> c \in l) BY <1>3, <2>3
    <3>2. status[c] # "unknown" => owner[c[1]] = visit BY <1>2, <2>3 DEF IInv, ChildFits
    <3>3. CASE st[c] = "settled"
      <4>1. c \notin live'
        BY <1>2, <2>3, <3>1, <3>3 DEF IInv, ChildFits
      <4>2. status[c] # "unknown" BY <1>2, <2>3, <3>3
      <4>. QED BY <3>1, <3>2, <3>3, <4>1, <4>2 DEF ChildFits
    <3>4. CASE st[c] # "settled"
      <4>1. st[c] = status[c] /\ (c \in started' <=> c \in started) BY <1>2, <1>3, <2>3, <3>4
      <4>2. failure' # "other" =>
              failure # "other" /\ terminal' = terminal /\ l = live
        BY <2>3, <3>4 DEF Ends
      <4>3. failure' # "other" /\ status[c] = "queued" /\ c \in Range(queue) \cup Range(closing)
              => c \in Range(queue') \cup Range(closing')
        BY <1>3, <2>3, <4>1
      <4>4. c \in live' => c \in live BY <1>2, <3>1
      <4>5. c \in Range(queue') \cup Range(closing') => c \in Range(queue) \cup Range(closing)
        BY <1>3
      <4>. QED BY <3>1, <3>2, <4>1, <4>2, <4>3, <4>4, <4>5 DEF IInv, ChildFits
    <3>. QED BY <3>3, <3>4
  <2>. QED BY <2>1, <2>2, <2>3
<1>13. Starts
  <2>1. SUFFICES ASSUME NEW c \in live' \ live
                 PROVE  c \in Accepted' \ (terminal \cup started) /\ ~closed /\ ~exhausted'
    BY DEF Starts
  <2>2. c \in S /\ c \in Children /\ status[c] = "queued" BY <1>2, <1>3, <1>4, <2>1
  <2>3. closed = FALSE /\ exhausted' = FALSE BY <2>2 DEF Works
  <2>4. failure = "none" BY <2>3 DEF IInv, ClosureFits
  <2>5. owner[c[1]] = visit /\ c \notin started /\ c \notin terminal
    BY <2>2, <2>4 DEF IInv, ChildFits
  <2>6. c \in Accepted' BY <1>1, <2>2, <2>5 DEF IInv, TypeOK, Accepted
  <2>. QED BY <2>3, <2>5, <2>6
<1>. QED BY <1>5, <1>6, <1>7, <1>8, <1>9, <1>10, <1>11, <1>12, <1>13 DEF IInv

LEMMA WorkTypes ==
    ASSUME IInv, NEW S, NEW q, NEW st \in [Children -> States],
           NEW l \in SUBSET Children, NEW e, Works(S, q, st, l, e)
    PROVE  /\ status' \in [Children -> States] /\ queue' \in Seq(Children)
           /\ running' \in Nat /\ live' \subseteq Children /\ started' \subseteq Children
<1>1. \A c \in Children : (IF c \in S THEN "running" ELSE st[c]) \in States
  BY DEF States
<1>. QED BY <1>1 DEF Works, IInv, TypeOK

\* One child leaves the workers.
LEMMA LiveCount ==
    ASSUME IInv, NEW c \in live
    PROVE  /\ running - 1 \in Nat /\ running - 1 <= MaxParallel
           /\ running - 1 = Cardinality(live \ {c})
           /\ live \ {c} \in SUBSET Children
<1>1. /\ live \in SUBSET Children /\ running = Cardinality(live)
      /\ running <= MaxParallel /\ running \in Nat
  BY DEF IInv, TypeOK, WorkersAreCounted
<1>2. IsFiniteSet(live) BY <1>1, ChildrenFinite, FS_Subset
<1>3. /\ IsFiniteSet(live \ {c}) /\ Cardinality(live \ {c}) = running - 1
  BY <1>1, <1>2, FS_RemoveElement
<1>4. Cardinality(live \ {c}) \in Nat BY <1>3, FS_CardinalityType
<1>. QED BY <1>1, <1>3, <1>4, SchedulerAssumption

\* The failure of unknown ownership takes the place of any other.
LEMMA WorseIs ==
    ASSUME NEW f \in {"none", "safety", "other"}
    PROVE  Worse(f, "other") = "other" /\ Worse(f, "safety") \in {"safety", "other"}
           /\ (Worse(f, "safety") # "other" => f # "other")
BY DEF Worse

LEMMA RunIsUnknownKeeps ==
    ASSUME IInv, NEW c \in live, RunIsUnknown(c) PROVE IInv' /\ Starts
<1>. USE DEF RunIsUnknown, Fail, disk, run, admission
<1>1. place = "up" /\ c \in Children /\ status[c] = "running"
  BY PlaceIs DEF IInv, TypeOK, PlaceFits, ChildFits
<1>2. /\ status \in [Children -> States] /\ queue \in Seq(Children)
      /\ failure \in {"none", "safety", "other"}
  BY DEF IInv, TypeOK
<1>3. Works({}, queue, status, live \ {c}, exhausted)
  BY <1>2, LiveCount, QuietWorks
<1>4. failure' = "other" BY <1>2, WorseIs
<1>5. Ends(c, {}, status, live \ {c}) BY <1>1, <1>4 DEF Ends
<1>6. TypeOK'
  <2>1. /\ status' \in [Children -> States] /\ queue' \in Seq(Children)
        /\ running' \in Nat /\ live' \subseteq Children /\ started' \subseteq Children
    BY <1>2, <1>3, LiveCount, WorkTypes
  <2>. QED BY <1>1, <1>4, <2>1 DEF IInv, TypeOK
<1>7. ClosureFits' BY <1>3, <1>4 DEF IInv, ClosureFits, Works
<1>. QED BY <1>1, <1>3, <1>5, <1>6, <1>7, WorkStep

LEMMA RunIsUnsafeKeeps ==
    ASSUME IInv, NEW c \in live, RunIsUnsafe(c) PROVE IInv' /\ Starts
<1>. USE DEF disk, run, admission
<1>1. place = "up" /\ c \in Children /\ status[c] = "running"
  BY PlaceIs DEF IInv, TypeOK, PlaceFits, ChildFits
<1>2. PICK how \in Appends(c) :
        /\ Write(c, how)
        /\ closed' = TRUE /\ timer' = TRUE /\ waiting' = waiting \ {c}
        /\ failure' = IF how = "ok" THEN Worse(failure, "safety")
                      ELSE Worse(Worse(failure, "safety"), "other")
        /\ fatal' = IF how = "ok" THEN fatal ELSE fatal \cup {c}
        /\ Quiet(queue, Settled(c, how), live \ {c}, running - 1)
        /\ UNCHANGED <<owner, run, exhausted, aborted, admission, settling, closing, cancels>>
  BY DEF RunIsUnsafe
<1>3. /\ status \in [Children -> States] /\ queue \in Seq(Children)
      /\ failure \in {"none", "safety", "other"}
      /\ terminal \subseteq Children /\ fatal \subseteq Children
  BY DEF IInv, TypeOK
<1>4. PICK st : st = Settled(c, how) OBVIOUS
<1>5. /\ how = "ok" => st = [status EXCEPT ![c] = "settled"] /\ terminal' = terminal \cup {c}
      /\ how # "ok" => st = status
      /\ terminal' \in {terminal, terminal \cup {c}}
  BY <1>2, <1>4 DEF Settled, Write
<1>6. st \in [Children -> States] BY <1>3, <1>5 DEF States
<1>7. Works({}, queue, st, live \ {c}, exhausted)
  BY <1>2, <1>3, <1>4, <1>6, LiveCount, QuietWorks
<1>8. /\ failure' \in {"safety", "other"}
      /\ failure' # "other" => how = "ok" /\ failure # "other"
  BY <1>2, <1>3, WorseIs
<1>9. Ends(c, {}, st, live \ {c}) BY <1>1, <1>2, <1>3, <1>5, <1>8 DEF Ends
<1>10. TypeOK'
  <2>1. /\ status' \in [Children -> States] /\ queue' \in Seq(Children)
        /\ running' \in Nat /\ live' \subseteq Children /\ started' \subseteq Children
    BY <1>6, <1>7, LiveCount, WorkTypes
  <2>2. fatal' \subseteq Children /\ terminal' \subseteq Children /\ waiting' \subseteq Children
    BY <1>1, <1>2, <1>3, <1>5 DEF IInv, TypeOK
  <2>. QED BY <1>2, <1>8, <2>1, <2>2 DEF IInv, TypeOK
<1>11. ClosureFits' BY <1>2, <1>7, <1>8 DEF IInv, ClosureFits, Works
<1>. QED BY <1>1, <1>2, <1>7, <1>9, <1>10, <1>11, WorkStep

\* The queue, the closing ones and the fence after a step of drain.
LEMMA DrainFits ==
    ASSUME IInv, NEW S, NEW st, NEW l, NEW e, Works(S, queue, st, l, e),
           closed' \in BOOLEAN, closed = TRUE => closed' = TRUE, closing' = closing,
           failure' = failure, fatal' = fatal,
           \/ settling' = settling
           \/ settling = "none" /\ settling' = "admission" /\ closed' = TRUE
    PROVE  ClosureFits'
BY DEF IInv, ClosureFits, Works

LEMMA RunReturnsKeeps ==
    ASSUME IInv, NEW c \in live, RunReturns(c) PROVE IInv' /\ Starts
<1>. USE DEF disk, run, admission
<1>1. place = "up" /\ c \in Children /\ status[c] = "running"
  BY PlaceIs DEF IInv, TypeOK, PlaceFits, ChildFits
<1>2. PICK how \in Appends(c), e \in {exhausted, TRUE} :
        /\ Write(c, how) /\ exhausted' = e
        /\ IF how # "ok"
           THEN Fail("other", {c}) /\ Quiet(queue, status, live \ {c}, running - 1)
           ELSE /\ waiting' = waiting \ {c}
                /\ IF e \/ closed
                   THEN /\ Quiet(queue, Settled(c, how), live \ {c}, running - 1)
                        /\ timer' = (timer \/ e)
                        /\ UNCHANGED <<closed, settling>>
                   ELSE /\ Drain(queue, Settled(c, how), live \ {c}, running - 1, e)
                        /\ UNCHANGED timer
                /\ UNCHANGED <<failure, fatal>>
        /\ UNCHANGED <<owner, run, aborted, admission, closing, cancels>>
  BY DEF RunReturns
<1>3. /\ status \in [Children -> States] /\ queue \in Seq(Children)
      /\ failure \in {"none", "safety", "other"} /\ e \in BOOLEAN
      /\ terminal \subseteq Children /\ fatal \subseteq Children
      /\ closed \in BOOLEAN /\ timer \in BOOLEAN
  BY DEF IInv, TypeOK
<1>4. PICK st : st = Settled(c, how) OBVIOUS
<1>5. /\ how = "ok" => st = [status EXCEPT ![c] = "settled"] /\ terminal' = terminal \cup {c}
      /\ how # "ok" => st = status
      /\ terminal' \in {terminal, terminal \cup {c}}
  BY <1>2, <1>4 DEF Settled, Write
<1>6. st \in [Children -> States] BY <1>3, <1>5 DEF States
<1>7. \A d \in live \ {c} : st[d] = "running"
  BY <1>1, <1>3, <1>5 DEF IInv, TypeOK, ChildFits
<1>8. CASE how # "ok"
  <2>. USE DEF Fail
  <2>1. Works({}, queue, st, live \ {c}, e)
    BY <1>2, <1>3, <1>4, <1>5, <1>6, <1>8, LiveCount, QuietWorks
  <2>2. failure' = "other" BY <1>2, <1>3, <1>8, WorseIs
  <2>3. Ends(c, {}, st, live \ {c}) BY <1>1, <1>5, <1>8, <2>2 DEF Ends
  <2>4. TypeOK'
    <3>1. /\ status' \in [Children -> States] /\ queue' \in Seq(Children)
          /\ running' \in Nat /\ live' \subseteq Children /\ started' \subseteq Children
      BY <1>6, <2>1, LiveCount, WorkTypes
    <3>2. fatal' \subseteq Children /\ terminal' \subseteq Children /\ waiting' \subseteq Children
      BY <1>1, <1>2, <1>3, <1>5, <1>8 DEF IInv, TypeOK
    <3>. QED BY <1>2, <1>3, <1>8, <2>2, <3>1, <3>2 DEF IInv, TypeOK
  <2>5. ClosureFits' BY <1>2, <1>8, <2>1, <2>2 DEF IInv, ClosureFits, Works
  <2>. QED BY <1>1, <1>2, <1>8, <2>1, <2>3, <2>4, <2>5, WorkStep
<1>9. CASE how = "ok"
  <2>1. /\ \E S : Works(S, queue, st, live \ {c}, e)
        /\ closed' \in BOOLEAN /\ (closed = TRUE => closed' = TRUE)
        /\ timer' \in BOOLEAN
        /\ \/ settling' = settling
           \/ settling = "none" /\ settling' = "admission" /\ closed' = TRUE
    <3>1. CASE e \/ closed
      <4>1. /\ Quiet(queue, st, live \ {c}, running - 1) /\ UNCHANGED <<closed, settling>>
            /\ timer' = (timer \/ e)
        BY <1>2, <1>4, <1>9, <3>1
      <4>2. Works({}, queue, st, live \ {c}, e) BY <1>3, <1>6, <4>1, LiveCount, QuietWorks
      <4>. QED BY <1>3, <4>1, <4>2
    <3>2. CASE ~(e \/ closed)
      <4>1. Drain(queue, st, live \ {c}, running - 1, e) /\ UNCHANGED timer
        BY <1>2, <1>4, <1>9, <3>2
      <4>. QED BY <1>3, <1>6, <1>7, <4>1, LiveCount, DrainWorks
    <3>. QED BY <3>1, <3>2
  <2>2. PICK S : Works(S, queue, st, live \ {c}, e) BY <2>1
  <2>3. Ends(c, S, st, live \ {c}) BY <1>1, <1>2, <1>3, <1>5, <1>9 DEF Ends
  <2>4. TypeOK'
    <3>1. /\ status' \in [Children -> States] /\ queue' \in Seq(Children)
          /\ running' \in Nat /\ live' \subseteq Children /\ started' \subseteq Children
      BY <1>6, <2>2, LiveCount, WorkTypes
    <3>2. fatal' \subseteq Children /\ terminal' \subseteq Children /\ waiting' \subseteq Children
      BY <1>1, <1>2, <1>3, <1>5, <1>9 DEF IInv, TypeOK
    <3>. QED BY <1>2, <1>3, <1>9, <2>1, <3>1, <3>2 DEF IInv, TypeOK
  <2>5. ClosureFits' BY <1>2, <1>9, <2>1, <2>2, DrainFits
  <2>. QED BY <1>1, <1>2, <1>9, <2>1, <2>2, <2>3, <2>4, <2>5, WorkStep
<1>. QED BY <1>8, <1>9

LEMMA CancelReturnsKeeps ==
    ASSUME IInv, NEW c \in Children, CancelReturns(c) PROVE IInv' /\ Starts
<1>. USE DEF CancelReturns, disk, run, admission
<1>1. /\ status \in [Children -> States] /\ queue \in Seq(Children) /\ running \in Nat
      /\ running = Cardinality(live) /\ running <= MaxParallel /\ live \in SUBSET Children
      /\ closed \in BOOLEAN /\ exhausted \in BOOLEAN /\ \A d \in live : status[d] = "running"
  BY DEF IInv, TypeOK, WorkersAreCounted, ChildFits
<1>2. /\ \E S : Works(S, queue, status, live, exhausted)
      /\ closed' \in BOOLEAN /\ (closed = TRUE => closed' = TRUE)
      /\ \/ settling' = settling
         \/ settling = "none" /\ settling' = "admission" /\ closed' = TRUE
  BY <1>1, DrainWorks
<1>3. PICK S : Works(S, queue, status, live, exhausted) BY <1>2
<1>4. TypeOK'
  <2>1. /\ status' \in [Children -> States] /\ queue' \in Seq(Children)
        /\ running' \in Nat /\ live' \subseteq Children /\ started' \subseteq Children
    BY <1>1, <1>3, WorkTypes
  <2>. QED BY <1>2, <2>1 DEF IInv, TypeOK
<1>5. ClosureFits' BY <1>2, <1>3, DrainFits
<1>6. place = "up" BY PlaceIs DEF IInv, PlaceFits
<1>7. Ends(c, S, status, live) BY DEF Ends
<1>. QED BY <1>2, <1>3, <1>4, <1>5, <1>6, <1>7, WorkStep

LEMMA CancelQueuedKeeps ==
    ASSUME IInv, NEW c \in Children, CancelQueued(c) PROVE IInv' /\ Starts
<1>. USE DEF disk, run, admission
<1>1. place = "up" /\ status[c] = "queued" /\ c \notin live
  BY PlaceIs DEF IInv, TypeOK, PlaceFits, ChildFits, CancelQueued
<1>2. PICK how \in Appends(c) :
        /\ Write(c, how)
        /\ IF how = "ok"
           THEN /\ waiting' = waiting \ {c}
                /\ Drain(queue, Settled(c, how), live, running, exhausted)
                /\ UNCHANGED <<failure, fatal, timer>>
           ELSE Fail("other", {c}) /\ Quiet(queue, Settled(c, how), live, running)
  BY DEF CancelQueued
<1>3. UNCHANGED <<owner, run, exhausted, aborted, admission, closing, cancels>>
  BY DEF CancelQueued
<1>4. /\ status \in [Children -> States] /\ queue \in Seq(Children) /\ running \in Nat
      /\ failure \in {"none", "safety", "other"} /\ live \in SUBSET Children
      /\ terminal \subseteq Children /\ fatal \subseteq Children
      /\ closed \in BOOLEAN /\ timer \in BOOLEAN /\ exhausted \in BOOLEAN
      /\ running = Cardinality(live) /\ running <= MaxParallel
      /\ \A d \in live : status[d] = "running"
  BY DEF IInv, TypeOK, WorkersAreCounted, ChildFits
<1>5. PICK st : st = Settled(c, how) OBVIOUS
<1>6. /\ how = "ok" => st = [status EXCEPT ![c] = "settled"] /\ terminal' = terminal \cup {c}
      /\ how # "ok" => st = status
      /\ terminal' \in {terminal, terminal \cup {c}}
  BY <1>2, <1>5 DEF Settled, Write
<1>7. st \in [Children -> States] /\ \A d \in live : st[d] = "running"
  BY <1>1, <1>4, <1>6 DEF States
<1>8. CASE how # "ok"
  <2>. USE DEF Fail
  <2>1. Works({}, queue, st, live, exhausted)
    BY <1>2, <1>4, <1>5, <1>7, <1>8, QuietWorks
  <2>2. failure' = "other" BY <1>2, <1>4, <1>8, WorseIs
  <2>3. Ends(c, {}, st, live) BY <1>1, <1>6, <1>8, <2>2 DEF Ends
  <2>4. TypeOK'
    <3>1. /\ status' \in [Children -> States] /\ queue' \in Seq(Children)
          /\ running' \in Nat /\ live' \subseteq Children /\ started' \subseteq Children
      BY <1>4, <1>7, <2>1, WorkTypes
    <3>2. fatal' \subseteq Children /\ terminal' \subseteq Children /\ waiting' \subseteq Children
      BY <1>2, <1>4, <1>6, <1>8 DEF IInv, TypeOK
    <3>. QED BY <1>2, <1>3, <1>8, <2>2, <3>1, <3>2 DEF IInv, TypeOK
  <2>5. ClosureFits' BY <1>2, <1>3, <1>8, <2>1, <2>2 DEF IInv, ClosureFits, Works
  <2>. QED BY <1>1, <1>2, <1>3, <1>8, <2>1, <2>3, <2>4, <2>5, WorkStep
<1>9. CASE how = "ok"
  <2>1. /\ \E S : Works(S, queue, st, live, exhausted)
        /\ closed' \in BOOLEAN /\ (closed = TRUE => closed' = TRUE)
        /\ \/ settling' = settling
           \/ settling = "none" /\ settling' = "admission" /\ closed' = TRUE
    BY <1>2, <1>4, <1>5, <1>7, <1>9, DrainWorks
  <2>2. PICK S : Works(S, queue, st, live, exhausted) BY <2>1
  <2>3. Ends(c, S, st, live) BY <1>1, <1>2, <1>4, <1>6, <1>9 DEF Ends
  <2>4. TypeOK'
    <3>1. /\ status' \in [Children -> States] /\ queue' \in Seq(Children)
          /\ running' \in Nat /\ live' \subseteq Children /\ started' \subseteq Children
      BY <1>4, <1>7, <2>2, WorkTypes
    <3>2. fatal' \subseteq Children /\ terminal' \subseteq Children /\ waiting' \subseteq Children
      BY <1>2, <1>4, <1>6, <1>9 DEF IInv, TypeOK
    <3>. QED BY <1>2, <1>3, <1>9, <2>1, <3>1, <3>2 DEF IInv, TypeOK
  <2>5. ClosureFits' BY <1>2, <1>3, <1>9, <2>1, <2>2, DrainFits
  <2>. QED BY <1>1, <1>3, <2>1, <2>2, <2>3, <2>4, <2>5, WorkStep
<1>. QED BY <1>8, <1>9

\* A queued child of a close that has ended is passed over, as is one whose
\* record could not be written.
LEMMA CloseCancelKeeps == ASSUME IInv, CloseCancel PROVE IInv' /\ Starts
<1>. USE DEF disk, run, admission
<1>1. PICK c : c = Head(closing) OBVIOUS
<1>2. /\ c \in Children /\ closing' \in Seq(Children) /\ Range(closing') \subseteq Range(closing)
      /\ c \in Range(closing) /\ \A d \in Range(closing) : d = c \/ d \in Range(closing')
  BY <1>1, TailRange DEF IInv, TypeOK, CloseCancel
<1>3. place = "up" /\ status[c] \in {"queued", "settled"} /\ c \notin live
  BY <1>2, PlaceIs DEF IInv, PlaceFits, ChildFits, CloseCancel
<1>4. UNCHANGED <<owner, run, exhausted, queue, running, live, aborted, admission, cancels, started>>
  BY DEF CloseCancel
<1>5. /\ status \in [Children -> States] /\ queue \in Seq(Children) /\ running \in Nat
      /\ failure \in {"none", "safety", "other"} /\ live \in SUBSET Children
      /\ terminal \subseteq Children /\ fatal \subseteq Children /\ waiting \subseteq Children
      /\ running = Cardinality(live) /\ running <= MaxParallel
      /\ settling = "cancelling" /\ closed = TRUE /\ queue = <<>>
  BY DEF IInv, TypeOK, WorkersAreCounted, ClosureFits, CloseCancel
<1>6. /\ settling' = settling /\ closed' = TRUE /\ timer' \in BOOLEAN
      /\ fatal' \subseteq Children /\ waiting' \subseteq Children
      /\ terminal' \in {terminal, terminal \cup {c}}
      /\ failure' \in {failure, "other"} /\ (failure' = failure => fatal' = fatal \/ failure = "other")
      /\ \/ /\ UNCHANGED <<terminal, status, fatal, failure>>
            /\ status[c] = "settled" \/ c \in fatal
         \/ /\ status' = [status EXCEPT ![c] = "settled"] /\ terminal' = terminal \cup {c}
            /\ UNCHANGED <<fatal, failure>>
         \/ status' = status /\ failure' = "other"
  <2>1. CASE status[c] = "settled" \/ c \in fatal
    <3>1. UNCHANGED <<terminal, status, fatal, waiting, failure, timer, closed, settling>>
      BY <1>1, <2>1 DEF CloseCancel
    <3>. QED BY <1>5, <2>1, <3>1 DEF IInv, TypeOK
  <2>2. CASE ~(status[c] = "settled" \/ c \in fatal)
    <3>1. PICK how \in Appends(c) :
            /\ Write(c, how) /\ status' = Settled(c, how)
            /\ IF how = "ok"
               THEN /\ waiting' = waiting \ {c}
                    /\ UNCHANGED <<failure, fatal, timer, closed, settling>>
               ELSE Fail("other", {c})
      BY <1>1, <2>2 DEF CloseCancel
    <3>2. terminal' \in {terminal, terminal \cup {c}}
          /\ (how = "ok" => terminal' = terminal \cup {c})
      BY <3>1 DEF Write
    <3>3. CASE how = "ok"
      BY <1>5, <3>1, <3>2, <3>3 DEF IInv, TypeOK, Settled
    <3>4. CASE how # "ok"
      <4>1. failure' = "other" BY <1>5, <3>1, <3>4, WorseIs DEF Fail
      <4>2. /\ closed' = TRUE /\ timer' = TRUE /\ fatal' = fatal \cup {c}
            /\ waiting' = waiting \ {c} /\ UNCHANGED settling /\ status' = status
        BY <3>1, <3>4 DEF Fail, Settled
      <4>. QED BY <1>2, <1>5, <3>2, <4>1, <4>2
    <3>. QED BY <3>3, <3>4
  <2>. QED BY <2>1, <2>2
<1>7. status' \in [Children -> States] BY <1>5, <1>6 DEF States
<1>8. PICK st : st = status' OBVIOUS
<1>9. Works({}, queue, st, live, exhausted)
  BY <1>4, <1>5, <1>7, <1>8, QuietWorks DEF Quiet
<1>10. c \in fatal => failure = "other" BY DEF IInv, ClosureFits
<1>11. Ends(c, {}, st, live)
  <2>1. CASE UNCHANGED <<terminal, status, fatal, failure>> /\ (status[c] = "settled" \/ c \in fatal)
    BY <1>5, <1>8, <2>1 DEF Ends
  <2>2. CASE /\ status' = [status EXCEPT ![c] = "settled"] /\ terminal' = terminal \cup {c}
             /\ UNCHANGED <<fatal, failure>>
    <3>1. st[c] = "settled" BY <1>2, <1>5, <1>8, <2>2
    <3>2. st = [status EXCEPT ![c] = "settled"] /\ terminal' = terminal \cup {c}
          /\ failure' = failure /\ fatal' = fatal /\ c \in terminal'
      BY <1>8, <2>2
    <3>. QED BY <1>3, <3>1, <3>2 DEF Ends
  <2>3. CASE status' = status /\ failure' = "other"
    BY <1>3, <1>6, <1>8, <2>3 DEF Ends
  <2>. QED BY <1>6, <2>1, <2>2, <2>3
<1>12. TypeOK' BY <1>2, <1>4, <1>5, <1>6, <1>7 DEF IInv, TypeOK
<1>13. ClosureFits' BY <1>4, <1>5, <1>6 DEF IInv, ClosureFits
<1>14. st[c] # "queued" \/ failure' = "other" BY <1>2, <1>5, <1>6, <1>8, <1>10
<1>. QED BY <1>2, <1>3, <1>4, <1>6, <1>9, <1>11, <1>12, <1>13, <1>14, WorkStep

-----------------------------------------------------------------------------
(* Steps that accept a submission.                                         *)

LEMMA AcceptedGrows ==
    ASSUME IInv, admitting \in Subs, Spent(visit) + Batches[admitting] <= MaxChildren,
           owner' = [owner EXCEPT ![admitting] = visit], visit' = visit
    PROVE  /\ owner' \in [Subs -> 0..MaxVisits] /\ AllowanceHolds'
           /\ \A s \in Subs : owner'[s] = IF s = admitting THEN visit ELSE owner[s]
           /\ Accepted \subseteq Accepted'
<1>1. /\ owner \in [Subs -> 0..MaxVisits] /\ visit \in 1..MaxVisits /\ MaxVisits \in Nat
      /\ MaxChildren \in Nat
  BY SchedulerAssumption DEF IInv, TypeOK
<1>2. \A s \in Subs : owner'[s] = IF s = admitting THEN visit ELSE owner[s] BY <1>1
<1>3. owner' \in [Subs -> 0..MaxVisits] BY <1>1
<1>4. ASSUME NEW v \in 1..MaxVisits PROVE Cardinality(Mine(v)') <= MaxChildren
  <2>1. IsFiniteSet(Mine(v)) /\ Cardinality(Mine(v)) <= MaxChildren
    BY MineFinite DEF IInv, AllowanceHolds
  <2>2. CASE v = visit
    <3>1. Mine(v)' \subseteq Mine(v) \cup Of(admitting)
      BY <1>2, <2>2, ChildShape DEF Mine, Of
    <3>2. /\ IsFiniteSet(Of(admitting)) /\ Cardinality(Of(admitting)) = Batches[admitting]
          /\ Batches[admitting] \in Nat
      BY BatchSize, ChildShape
    <3>3. /\ IsFiniteSet(Mine(v) \cup Of(admitting))
          /\ Cardinality(Mine(v) \cup Of(admitting)) =
               Cardinality(Mine(v)) + Cardinality(Of(admitting))
                 - Cardinality(Mine(v) \cap Of(admitting))
      BY <2>1, <3>2, FS_Union
    <3>4. Cardinality(Mine(v) \cap Of(admitting)) \in Nat
      BY <2>1, FS_Intersection, FS_CardinalityType
    <3>5. Cardinality(Mine(v)') <= Cardinality(Mine(v) \cup Of(admitting))
          /\ Cardinality(Mine(v)') \in Nat
      BY <3>1, <3>3, FS_Subset, FS_CardinalityType
    <3>6. Cardinality(Mine(v)) + Batches[admitting] <= MaxChildren BY <2>2 DEF Spent
    <3>7. Cardinality(Mine(v)) \in Nat BY <2>1, FS_CardinalityType
    <3>. QED BY <1>1, <3>2, <3>3, <3>4, <3>5, <3>6, <3>7
  <2>3. CASE v # visit
    <3>1. Mine(v)' \in SUBSET Mine(v) BY <1>2, <2>3, ChildShape DEF Mine
    <3>2. Cardinality(Mine(v)') <= Cardinality(Mine(v)) /\ Cardinality(Mine(v)') \in Nat
          /\ Cardinality(Mine(v)) \in Nat
      BY <2>1, <3>1, FS_Subset, FS_CardinalityType
    <3>. QED BY <1>1, <2>1, <3>2
  <2>. QED BY <2>2, <2>3
<1>5. AllowanceHolds' BY <1>4 DEF AllowanceHolds
<1>6. Accepted \subseteq Accepted' BY <1>1, <1>2, ChildShape DEF Accepted
<1>. QED BY <1>2, <1>3, <1>5, <1>6

LEMMA AcceptFailsKeeps == ASSUME IInv, AcceptFails PROVE IInv'
<1>. USE DEF AcceptFails, Admissible, Fail, run
<1>1. place = "up" BY PlaceIs DEF IInv, PlaceFits
<1>2. admitting \in Subs /\ closed = FALSE /\ settling = "none" /\ closing = <<>>
  BY DEF IInv, TypeOK, ClosureFits
<1>3. failure' = "other" BY WorseIs DEF IInv, TypeOK
<1>4. /\ owner' \in [Subs -> 0..MaxVisits] /\ AllowanceHolds'
      /\ \A s \in Subs : owner'[s] = owner[s] \/ (s = admitting /\ owner'[s] = visit)
      /\ Accepted \subseteq Accepted'
  <2>1. CASE owner' = owner
    BY <2>1 DEF IInv, TypeOK, AllowanceHolds, Mine, Accepted
  <2>2. CASE owner' = [owner EXCEPT ![admitting] = visit]
    BY <1>2, <2>2, AcceptedGrows
  <2>. QED BY <2>1, <2>2
<1>5. TypeOK'
  <2>1. fatal' \subseteq Children /\ waiting' \subseteq Children BY DEF IInv, TypeOK
  <2>. QED BY <1>3, <1>4, <2>1 DEF IInv, TypeOK
<1>6. WorkersAreCounted' /\ AnswersAreDurable'
  BY DEF IInv, WorkersAreCounted, AnswersAreDurable
<1>7. CloseSettles' BY <1>2 DEF CloseSettles
<1>8. LogFits'
  <2>1. visit \in Nat BY SchedulerAssumption DEF IInv, TypeOK
  <2>. QED BY <1>4, <2>1 DEF IInv, LogFits
<1>9. PlaceFits' BY <1>1 DEF PlaceFits
<1>10. ClosureFits' BY <1>2, <1>3 DEF IInv, ClosureFits
<1>11. AdmissionFits'
  <2>1. \A s \in Range(calls) : s \in Subs BY RangeOfSeq DEF IInv, TypeOK
  <2>. QED BY <1>4, <2>1 DEF IInv, AdmissionFits
<1>12. ASSUME NEW c \in Children PROVE ChildFits(c)'
  <2>1. c[1] \in Subs BY ChildShape
  <2>. QED BY <1>3, <1>4, <2>1 DEF IInv, ChildFits
<1>. QED BY <1>4, <1>5, <1>6, <1>7, <1>8, <1>9, <1>10, <1>11, <1>12 DEF IInv

\* The tasks of a submission as they are queued.
LEMMA BatchQueue ==
    ASSUME IInv, NEW s \in Subs, NEW q, q = queue \o [i \in 1..Batches[s] |-> <<s, i>>],
           \A c \in Of(s) : status[c] = "unknown"
    PROVE  /\ q \in Seq(Children) /\ Range(q) = Range(queue) \cup Of(s)
           /\ IsInjective(q)
<1> DEFINE b == [i \in 1..Batches[s] |-> <<s, i>>]
<1>1. Batches[s] \in Nat /\ \A i \in 1..Batches[s] : b[i] \in Children BY ChildShape
<1>2. b \in Seq(Children)
  <2>1. b \in [1..Batches[s] -> Children] BY <1>1
  <2>. QED BY <1>1, <2>1, SeqDef
<1>3. DOMAIN b = 1..Batches[s] OBVIOUS
<1>4. Len(b) = Batches[s]
  <2>1. Len(b) \in Nat /\ 1..Len(b) = 1..Batches[s] BY <1>2, <1>3, LenProperties
  <2>. QED BY <1>1, <2>1
<1>5. Range(b) = Of(s)
  <2>1. \A c : c \in Range(b) <=> \E i \in 1..Batches[s] : c = <<s, i>> BY DEF Range
  <2>2. \A c \in Of(s) : c \in Range(b) BY <2>1, BatchSize
  <2>3. \A c \in Range(b) : c \in Of(s) BY <2>1, BatchSize, ChildShape
  <2>. QED BY <2>2, <2>3
<1>6. queue \in Seq(Children) /\ IsInjective(queue) /\ Range(queue) \subseteq Children
  BY RangeOfSeq DEF IInv, TypeOK, ClosureFits
<1>7. q = queue \o b OBVIOUS
<1>8. IsInjective(b) BY DEF IsInjective
<1> HIDE DEF b
<1>9. q \in Seq(Children) /\ Range(q) = Range(queue) \cup Of(s)
  <2>1. queue \o b \in Seq(Children) BY <1>2, <1>6, ConcatProperties
  <2>2. Range(queue \o b) = Range(queue) \cup Range(b)
    BY <1>2, <1>6, RangeConcatenation
  <2>. QED BY <1>5, <1>7, <2>1, <2>2
<1>10. Range(queue) \cap Range(b) = {}
  BY <1>5, <1>6 DEF IInv, ChildFits
<1>11. /\ Len(queue) \in Nat /\ DOMAIN queue = 1..Len(queue)
       /\ Len(b) \in Nat /\ DOMAIN b = 1..Len(b)
  BY <1>2, <1>6, LenProperties
<1>12. DOMAIN q = 1..(Len(queue) + Len(b))
       /\ \A i \in 1..(Len(queue) + Len(b)) :
            q[i] = IF i <= Len(queue) THEN queue[i] ELSE b[i - Len(queue)]
  <2>1. /\ queue \o b \in Seq(Children) /\ Len(queue \o b) = Len(queue) + Len(b)
        /\ \A i \in 1..(Len(queue) + Len(b)) :
             (queue \o b)[i] = IF i <= Len(queue) THEN queue[i] ELSE b[i - Len(queue)]
    BY <1>2, <1>6, ConcatProperties
  <2>2. DOMAIN (queue \o b) = 1..Len(queue \o b) BY <2>1, LenProperties
  <2>. QED BY <1>7, <2>1, <2>2
<1>13. IsInjective(q)
  <2>1. SUFFICES ASSUME NEW i \in DOMAIN q, NEW j \in DOMAIN q, q[i] = q[j]
                 PROVE  i = j
    BY DEF IsInjective
  <2>2. ASSUME NEW k \in DOMAIN q
        PROVE  \/ k \in DOMAIN queue /\ q[k] = queue[k] /\ q[k] \in Range(queue)
               \/ /\ k - Len(queue) \in DOMAIN b /\ q[k] = b[k - Len(queue)]
                  /\ q[k] \in Range(b)
    <3>1. k \in 1..(Len(queue) + Len(b)) BY <1>12
    <3>2. CASE k <= Len(queue)
      <4>1. k \in DOMAIN queue /\ q[k] = queue[k] BY <1>11, <1>12, <3>1, <3>2
      <4>. QED BY <4>1 DEF Range
    <3>3. CASE ~(k <= Len(queue))
      <4>1. k - Len(queue) \in DOMAIN b /\ q[k] = b[k - Len(queue)]
        <5>1. PICK n \in Nat, m \in Nat : n = Len(queue) /\ m = Len(b) BY <1>11
        <5>2. k \in 1..(n + m) /\ ~(k <= n) BY <3>1, <3>3, <5>1
        <5>3. k - n \in 1..m BY <5>2
        <5>4. q[k] = b[k - n] BY <1>12, <3>1, <3>3, <5>1
        <5>. QED BY <1>11, <5>1, <5>3, <5>4
      <4>. QED BY <4>1 DEF Range
    <3>. QED BY <3>2, <3>3
  <2>3. i \in Int /\ j \in Int BY <1>11, <1>12
  <2>4. CASE i \in DOMAIN queue /\ q[i] = queue[i] /\ q[i] \in Range(queue)
    BY <1>6, <1>10, <2>1, <2>2, <2>4 DEF IsInjective
  <2>5. CASE i - Len(queue) \in DOMAIN b /\ q[i] = b[i - Len(queue)] /\ q[i] \in Range(b)
    <3>1. j - Len(queue) \in DOMAIN b /\ q[j] = b[j - Len(queue)]
      BY <1>10, <2>1, <2>2, <2>5
    <3>2. i - Len(queue) = j - Len(queue) BY <1>8, <2>1, <2>5, <3>1 DEF IsInjective
    <3>. QED BY <1>11, <2>3, <3>2
  <2>. QED BY <2>2, <2>4, <2>5
<1>. QED BY <1>9, <1>13

\* What is accepted is new: nothing of it has started or ended.
LEMMA AdmittedIsNew ==
    ASSUME IInv, Admissible
    PROVE  /\ place = "up" /\ closed = FALSE /\ failure = "none" /\ settling = "none"
           /\ closing = <<>> /\ admitting \in Subs /\ owner[admitting] = 0
           /\ \A c \in Of(admitting) :
                /\ c \in Children /\ c[1] = admitting /\ status[c] = "unknown"
                /\ c \notin Accepted \cup terminal \cup started \cup live
<1>. USE DEF Admissible
<1>1. place = "up" BY PlaceIs DEF IInv, PlaceFits
<1>2. /\ closed = FALSE /\ failure = "none" /\ settling = "none" /\ closing = <<>>
      /\ admitting \in Subs
  BY DEF IInv, TypeOK, ClosureFits
<1>3. \A c \in Of(admitting) : c \in Children /\ c[1] = admitting /\ status[c] = "unknown"
  BY DEF IInv, AdmissionFits, Of
<1>4. owner[admitting] = 0
  <2>1. PICK c \in Of(admitting) : TRUE BY <1>2, BatchSize
  <2>2. owner[admitting] # visit BY <1>1, <1>2, <1>3, <2>1 DEF IInv, ChildFits
  <2>. QED BY <2>2 DEF IInv, AdmissionFits
<1>5. \A c \in Of(admitting) : c \notin Accepted \cup terminal \cup started \cup live
  BY <1>3, <1>4 DEF IInv, LogFits, Accepted, ChildFits
<1>. QED BY <1>1, <1>2, <1>3, <1>4, <1>5

LEMMA AcceptWorks ==
    ASSUME IInv, Accept
    PROVE  \E S, q, st :
             /\ Works(S, q, st, live, exhausted)
             /\ q \in Seq(Children) /\ Range(q) = Range(queue) \cup Of(admitting)
             /\ IsInjective(q)
             /\ st \in [Children -> States]
             /\ \A c \in Children : st[c] = IF c \in Of(admitting) THEN "queued" ELSE status[c]
             /\ closed' \in BOOLEAN
             /\ \/ settling' = settling
                \/ settling = "none" /\ settling' = "admission" /\ closed' = TRUE
<1>1. admitting \in Subs /\ \A c \in Of(admitting) : status[c] = "unknown" /\ c \notin live
  BY AdmittedIsNew DEF Accept
<1>2. PICK q : q = queue \o [i \in 1..Batches[admitting] |-> <<admitting, i>>] OBVIOUS
<1>3. q \in Seq(Children) /\ Range(q) = Range(queue) \cup Of(admitting) /\ IsInjective(q)
  BY <1>1, <1>2, BatchQueue
<1>4. PICK st : st = [c \in Children |-> IF c[1] = admitting THEN "queued" ELSE status[c]]
  OBVIOUS
<1>5. /\ st \in [Children -> States]
      /\ \A c \in Children : st[c] = IF c \in Of(admitting) THEN "queued" ELSE status[c]
  BY <1>4 DEF IInv, TypeOK, States, Of
<1>6. Drain(q, st, live, running, exhausted) BY <1>2, <1>4 DEF Accept, Enqueue
<1>7. /\ live \in SUBSET Children /\ running \in Nat /\ running = Cardinality(live)
      /\ running <= MaxParallel /\ closed \in BOOLEAN /\ exhausted \in BOOLEAN
  BY DEF IInv, TypeOK, WorkersAreCounted
<1>8. \A c \in live : st[c] = "running" BY <1>1, <1>5, <1>7 DEF IInv, ChildFits
<1>9. /\ \E S : Works(S, q, st, live, exhausted)
      /\ closed' \in BOOLEAN
      /\ \/ settling' = settling
         \/ settling = "none" /\ settling' = "admission" /\ closed' = TRUE
  <2>1. q \in Seq(Children) BY <1>3
  <2>2. st \in [Children -> States] BY <1>5
  <2>. QED BY ONLY <2>1, <2>2, <1>6, <1>7, <1>8, DrainWorks
<1>. QED BY <1>3, <1>5, <1>9

LEMMA AcceptKeeps == ASSUME IInv, Accept PROVE IInv' /\ Starts
<1>. USE DEF run
<1>1. /\ place = "up" /\ closed = FALSE /\ failure = "none" /\ settling = "none"
      /\ closing = <<>> /\ admitting \in Subs /\ owner[admitting] = 0
      /\ \A c \in Of(admitting) :
           /\ c \in Children /\ c[1] = admitting /\ status[c] = "unknown"
           /\ c \notin Accepted \cup terminal \cup started \cup live
  BY AdmittedIsNew DEF Accept
<1>2. /\ admitting' = 0 /\ owner' = [owner EXCEPT ![admitting] = visit]
      /\ Spent(visit) + Batches[admitting] <= MaxChildren
      /\ UNCHANGED <<terminal, run, exhausted, fatal, aborted, calls, made, failure, timer,
                     closing, asking>>
  BY DEF Accept, Admissible
<1>3. PICK S, q, st :
        /\ Works(S, q, st, live, exhausted)
        /\ q \in Seq(Children) /\ Range(q) = Range(queue) \cup Of(admitting)
        /\ IsInjective(q)
        /\ st \in [Children -> States]
        /\ \A c \in Children : st[c] = IF c \in Of(admitting) THEN "queued" ELSE status[c]
        /\ closed' \in BOOLEAN
        /\ \/ settling' = settling
           \/ settling = "none" /\ settling' = "admission" /\ closed' = TRUE
  BY AcceptWorks
<1>4. /\ owner' \in [Subs -> 0..MaxVisits] /\ AllowanceHolds'
      /\ \A s \in Subs : owner'[s] = IF s = admitting THEN visit ELSE owner[s]
      /\ Accepted \subseteq Accepted'
  BY <1>1, <1>2, AcceptedGrows
<1>5. /\ S \subseteq Children /\ live' = live \cup S /\ started' = started \cup S
      /\ \A c \in S : st[c] = "queued" /\ status'[c] = "running"
      /\ \A c \in Children \ S : status'[c] = st[c]
      /\ \A c \in Range(q) : st[c] = "queued" => c \in S \cup Range(queue')
      /\ Range(queue') \subseteq Range(q) /\ S \cap Range(queue') = {} /\ IsInjective(queue')
  BY <1>3 DEF Works
<1>6. TypeOK'
  <2>1. /\ status' \in [Children -> States] /\ queue' \in Seq(Children)
        /\ running' \in Nat /\ live' \subseteq Children /\ started' \subseteq Children
    BY <1>3, WorkTypes DEF IInv, TypeOK
  <2>. QED BY <1>2, <1>3, <1>4, <2>1 DEF IInv, TypeOK, asking
<1>7. WorkersAreCounted' BY <1>3 DEF WorkersAreCounted, Works
<1>8. AnswersAreDurable' BY <1>2, <1>3, <1>5 DEF IInv, AnswersAreDurable
<1>9. CloseSettles' BY <1>1, <1>3 DEF CloseSettles
<1>10. \A c \in Children : status'[c] # "unknown" => owner'[c[1]] = visit
  <2>1. SUFFICES ASSUME NEW c \in Children, status'[c] # "unknown" PROVE owner'[c[1]] = visit
    OBVIOUS
  <2>2. c[1] \in Subs BY ChildShape
  <2>3. c \in Of(admitting) \/ status[c] # "unknown" BY <1>3, <1>5, <2>1
  <2>. QED BY <1>1, <1>4, <2>2, <2>3 DEF IInv, ChildFits
<1>11. LogFits'
  <2>1. visit \in Nat /\ visit # 0 BY SchedulerAssumption DEF IInv, TypeOK
  <2>2. \A c \in S : c \in Accepted' BY <1>5, <1>10, <2>1 DEF Accepted
  <2>. QED BY <1>2, <1>4, <1>5, <2>1, <2>2 DEF IInv, LogFits
<1>12. PlaceFits' BY <1>1, <1>2 DEF PlaceFits
<1>13. ClosureFits' BY <1>1, <1>2, <1>3, <1>5 DEF IInv, ClosureFits
<1>14. AdmissionFits'
  <2>1. \A s \in Range(calls) : s \in Subs BY RangeOfSeq DEF IInv, TypeOK
  <2>. QED BY <1>2, <1>4, <2>1 DEF IInv, AdmissionFits
<1>15. ASSUME NEW c \in Children PROVE ChildFits(c)'
  <2>1. c[1] \in Subs /\ Range(closing') = {} BY <1>1, <1>2, ChildShape, EmptyRange
  <2>2. CASE c \in S
    BY <1>2, <1>5, <1>10, <2>1, <2>2 DEF ChildFits
  <2>3. CASE c \notin S /\ c \in Of(admitting)
    <3>1. /\ status'[c] = "queued" /\ c \notin live' /\ c \notin started' /\ c \notin terminal'
          /\ c \in Range(queue')
      BY <1>1, <1>2, <1>3, <1>5, <2>3
    <3>. QED BY <1>2, <1>10, <3>1 DEF ChildFits
  <2>4. CASE c \notin S /\ c \notin Of(admitting)
    <3>1. /\ status'[c] = status[c] /\ (c \in live' <=> c \in live)
          /\ (c \in started' <=> c \in started) /\ (c \in terminal' <=> c \in terminal)
          /\ owner'[c[1]] = owner[c[1]] /\ visit' = visit
      <4>1. c[1] # admitting BY <2>4 DEF Of
      <4>. QED BY <1>2, <1>3, <1>4, <1>5, <2>1, <2>4, <4>1
    <3>2. /\ c \in Range(queue') => c \in Range(queue)
          /\ status[c] = "queued" /\ c \in Range(queue) => c \in Range(queue')
      BY <1>3, <1>5, <2>4
    <3>3. Range(closing) = {} BY <1>1, EmptyRange
    <3>. QED BY <1>1, <2>1, <3>1, <3>2, <3>3 DEF IInv, ChildFits
  <2>. QED BY <2>2, <2>3, <2>4
<1>16. Starts
  <2>1. SUFFICES ASSUME NEW c \in live' \ live
                 PROVE  c \in Accepted' \ (terminal \cup started) /\ ~closed /\ ~exhausted'
    BY DEF Starts
  <2>2. c \in S /\ c \in Children /\ status'[c] = "running" /\ st[c] = "queued"
    BY <1>5, <2>1
  <2>3. closed = FALSE /\ exhausted' = FALSE BY <1>2, <1>3, <2>2 DEF Works
  <2>4. c \notin terminal /\ c \notin started
    BY <1>1, <1>3, <2>2 DEF IInv, ChildFits
  <2>5. c \in Accepted' BY <1>2, <1>10, <2>2 DEF IInv, TypeOK, Accepted
  <2>. QED BY <2>3, <2>4, <2>5
<1>. QED BY <1>4, <1>6, <1>7, <1>8, <1>9, <1>11, <1>12, <1>13, <1>14, <1>15, <1>16 DEF IInv

-----------------------------------------------------------------------------
(* Schedulers follow one another.                                          *)

\* A constructor that finds an end for all that was accepted for its parent.
LEMMA ConstructKeeps ==
    ASSUME IInv, NEW v \in 1..MaxVisits, visit <= v, live = {}, Mine(v) \subseteq terminal,
           Construct(v), UNCHANGED <<disk, lives, exhausted, live, made, started>>
    PROVE  IInv'
<1>. USE DEF Construct, disk
<1>1. UNCHANGED Accepted /\ \A u : Mine(u)' = Mine(u) BY DEF Accepted, Mine
<1>2. place' = "up" /\ visit' = v OBVIOUS
<1>3. \A c \in Children : status'[c] = IF c \in Mine(v) THEN "settled" ELSE "unknown"
  OBVIOUS
<1>4. TypeOK' BY EmptySeq DEF IInv, TypeOK, States
<1>5. WorkersAreCounted' BY FS_EmptySet, SchedulerAssumption DEF WorkersAreCounted
<1>6. AllowanceHolds' BY <1>1 DEF IInv, AllowanceHolds
<1>7. AnswersAreDurable' BY <1>3 DEF AnswersAreDurable
<1>8. CloseSettles' BY DEF CloseSettles
<1>9. LogFits'
  <2>1. /\ visit \in Int /\ v \in Int /\ \A s \in Subs : owner[s] \in Int /\ owner[s] <= visit
    BY SchedulerAssumption DEF IInv, TypeOK, LogFits
  <2>2. \A s \in Subs : owner[s] <= v BY <2>1
  <2>. QED BY <1>1, <2>2 DEF IInv, LogFits
<1>10. PlaceFits' BY <1>2 DEF PlaceFits
<1>11. ClosureFits' BY EmptyRange DEF ClosureFits
<1>12. AdmissionFits' BY EmptyRange DEF AdmissionFits
<1>13. ASSUME NEW c \in Children PROVE ChildFits(c)'
  <2>1. c \in Mine(v) <=> owner[c[1]] = v BY DEF Mine
  <2>2. Range(queue') = {} /\ Range(closing') = {} BY EmptyRange
  <2>. QED BY <1>2, <1>3, <2>1, <2>2 DEF ChildFits
<1>. QED BY <1>4, <1>5, <1>6, <1>7, <1>8, <1>9, <1>10, <1>11, <1>12, <1>13 DEF IInv

LEMMA ReplaceKeeps == ASSUME IInv, Replace PROVE IInv'
<1>1. PICK v \in Following : Construct(v) BY DEF Replace
<1>2. live = {} /\ Mine(visit) \subseteq terminal BY DEF IInv, CloseSettles, Replace
<1>3. /\ v \in 1..MaxVisits /\ visit <= v /\ visit \in Int /\ MaxVisits \in Int
      /\ v = visit \/ visit < v
  BY <1>1, SchedulerAssumption DEF Following, IInv, TypeOK
<1>4. Mine(v) \subseteq terminal
  <2>1. CASE v = visit BY <1>2, <2>1
  <2>2. CASE visit < v
    <3>1. ASSUME NEW c \in Mine(v) PROVE FALSE
      <4>1. owner[c[1]] = v /\ c[1] \in Subs BY ChildShape DEF Mine
      <4>2. owner[c[1]] <= visit /\ owner[c[1]] \in Int
        BY <4>1, SchedulerAssumption DEF IInv, LogFits, TypeOK
      <4>. QED BY <1>3, <2>2, <4>1, <4>2
    <3>. QED BY <3>1
  <2>. QED BY <1>3, <2>1, <2>2
<1>. QED BY <1>1, <1>2, <1>3, <1>4, ConstructKeeps DEF Replace

LEMMA ResumeKeeps == ASSUME IInv, Resume PROVE IInv'
<1>1. PICK v : v = IF Controller THEN visit ELSE visit + 1 OBVIOUS
<1>2. Construct(v) /\ Accepted \subseteq terminal BY <1>1 DEF Resume, Lost
<1>3. live = {} /\ (~Controller => visit < MaxVisits) BY DEF IInv, PlaceFits, Resume
<1>4. /\ visit \in 1..MaxVisits /\ MaxVisits \in Nat /\ Controller \in BOOLEAN
  BY SchedulerAssumption DEF IInv, TypeOK
<1>5. v \in 1..MaxVisits /\ visit <= v /\ v # 0 BY <1>1, <1>3, <1>4
<1>6. Mine(v) \subseteq terminal BY <1>2, <1>5 DEF Mine, Accepted
<1>. QED BY <1>2, <1>3, <1>5, <1>6, ConstructKeeps DEF Resume

LEMMA CrashKeeps == ASSUME IInv, Crash PROVE IInv'
<1>. USE DEF Crash, disk
<1>1. UNCHANGED Accepted /\ \A u : Mine(u)' = Mine(u) BY DEF Accepted, Mine
<1>2. TypeOK'
  <2>1. lives' \in 1..MaxLives BY SchedulerAssumption DEF IInv, TypeOK
  <2>. QED BY <2>1, EmptySeq DEF IInv, TypeOK, States
<1>3. WorkersAreCounted' BY FS_EmptySet, SchedulerAssumption DEF WorkersAreCounted
<1>4. AllowanceHolds' BY <1>1 DEF IInv, AllowanceHolds
<1>5. AnswersAreDurable' BY DEF AnswersAreDurable
<1>6. CloseSettles' BY DEF CloseSettles
<1>7. LogFits' BY <1>1 DEF IInv, LogFits
<1>8. PlaceFits' BY DEF PlaceFits
<1>9. ClosureFits' BY EmptyRange DEF ClosureFits
<1>10. AdmissionFits' BY EmptyRange DEF AdmissionFits
<1>11. \A c \in Children : ChildFits(c)' BY EmptyRange DEF ChildFits
<1>. QED BY <1>2, <1>3, <1>4, <1>5, <1>6, <1>7, <1>8, <1>9, <1>10, <1>11 DEF IInv

LEMMA ReconcileKeeps == ASSUME IInv, NEW c \in Children, Reconcile(c) PROVE IInv'
<1>. USE DEF Reconcile, run, tasks, admission, closure, asking
<1>1. UNCHANGED Accepted /\ \A u : Mine(u)' = Mine(u) BY DEF Accepted, Mine
<1>2. TypeOK' BY DEF IInv, TypeOK
<1>3. WorkersAreCounted' BY DEF IInv, WorkersAreCounted
<1>4. AllowanceHolds' BY <1>1 DEF IInv, AllowanceHolds
<1>5. AnswersAreDurable' BY DEF IInv, AnswersAreDurable
<1>6. CloseSettles' BY <1>1 DEF IInv, CloseSettles
<1>7. LogFits' BY <1>1 DEF IInv, LogFits, Lost
<1>8. PlaceFits' BY DEF IInv, PlaceFits
<1>9. ClosureFits' BY DEF IInv, ClosureFits
<1>10. AdmissionFits' BY DEF IInv, AdmissionFits, Of
<1>11. \A d \in Children : ChildFits(d)' BY DEF IInv, ChildFits
<1>. QED BY <1>2, <1>3, <1>4, <1>5, <1>6, <1>7, <1>8, <1>9, <1>10, <1>11 DEF IInv

LEMMA StutterKeeps == ASSUME IInv, UNCHANGED vars PROVE IInv'
<1>. USE DEF vars, disk, run, tasks, admission, closure, asking
<1>1. TypeOK' BY DEF IInv, TypeOK
<1>2. ClosureFits' BY DEF IInv, ClosureFits
<1>3. AdmissionFits' BY DEF IInv, AdmissionFits, Of
<1>4. PlaceFits' BY DEF IInv, PlaceFits
<1>5. CloseSettles' BY DEF IInv, CloseSettles, Mine
<1>. QED BY <1>1, <1>2, <1>3, <1>4, <1>5, StillStep

-----------------------------------------------------------------------------
(* The invariant.                                                          *)

LEMMA InitialInvariant == Init => IInv
<1>. SUFFICES ASSUME Init PROVE IInv OBVIOUS
<1>. USE DEF Init
<1>1. Accepted = {} /\ \A v \in 1..MaxVisits : Mine(v) = {}
  BY ChildShape, SchedulerAssumption DEF Accepted, Mine
<1>2. TypeOK
  <2>1. /\ MaxVisits \in Nat \ {0} /\ MaxLives \in Nat \ {0} /\ MaxChildren \in Nat
        /\ MaxParallel \in Nat \ {0}
    BY SchedulerAssumption
  <2>2. visit \in 1..MaxVisits /\ lives \in 1..MaxLives /\ 0 \in 0..MaxVisits BY <2>1
  <2>3. owner \in [Subs -> 0..MaxVisits] /\ status \in [Children -> States]
    BY <2>2 DEF States
  <2>4. queue \in Seq(Children) /\ closing \in Seq(Children) /\ calls \in Seq(Subs)
    BY EmptySeq
  <2>. QED BY <2>2, <2>3, <2>4 DEF TypeOK
<1>3. WorkersAreCounted BY FS_EmptySet, SchedulerAssumption DEF WorkersAreCounted
<1>4. AllowanceHolds
  <2>1. Cardinality({}) = 0 /\ MaxChildren \in Nat BY FS_EmptySet, SchedulerAssumption
  <2>2. SUFFICES ASSUME NEW v \in 1..MaxVisits PROVE Cardinality(Mine(v)) <= MaxChildren
    BY DEF AllowanceHolds
  <2>3. Cardinality(Mine(v)) = 0 BY <1>1, <2>1
  <2>. QED BY <2>1, <2>3
<1>5. AnswersAreDurable /\ CloseSettles BY DEF AnswersAreDurable, CloseSettles
<1>6. LogFits /\ PlaceFits BY DEF LogFits, PlaceFits
<1>7. ClosureFits /\ AdmissionFits BY EmptyRange DEF ClosureFits, AdmissionFits
<1>8. \A c \in Children : ChildFits(c) BY ChildShape, EmptyRange DEF ChildFits
<1>. QED BY <1>2, <1>3, <1>4, <1>5, <1>6, <1>7, <1>8 DEF IInv

LEMMA InvariantStep == IInv /\ [Next]_vars => IInv' /\ [Starts]_vars
<1>. SUFFICES ASSUME IInv, [Next]_vars PROVE IInv' /\ (Starts \/ UNCHANGED vars)
  OBVIOUS
<1>1. ASSUME live' \subseteq live PROVE Starts BY <1>1 DEF Starts
<1>2. ASSUME NEW s \in Subs, Submit(s) PROVE IInv' /\ Starts
  <2>1. live' = live BY <1>2 DEF Submit, tasks
  <2>. QED BY <1>1, <1>2, <2>1, SubmitKeeps
<1>3. CASE Admit \/ Refuse \/ SpendBudget
  <2>1. live' = live BY <1>3 DEF Admit, Refuse, SpendBudget, tasks
  <2>. QED BY <1>1, <1>3, <2>1, AdmitKeeps, QuietKeeps
<1>4. CASE Accept BY <1>4, AcceptKeeps
<1>5. CASE AcceptFails
  <2>1. live' = live BY <1>5 DEF AcceptFails
  <2>. QED BY <1>1, <1>5, <2>1, AcceptFailsKeeps
<1>6. ASSUME NEW c \in Children, RunEnds(c) PROVE IInv' /\ Starts
  BY <1>6, RunReturnsKeeps, RunIsUnsafeKeeps, RunIsUnknownKeeps DEF RunEnds
<1>7. ASSUME NEW c \in Children, Wait(c) \/ CancelRunning(c) PROVE IInv' /\ Starts
  <2>1. live' = live BY <1>7 DEF Wait, CancelRunning, tasks
  <2>. QED BY <1>1, <1>7, <2>1, QuietKeeps
<1>8. ASSUME NEW c \in Children, CancelQueued(c) \/ CancelReturns(c)
      PROVE  IInv' /\ Starts
  BY <1>8, CancelQueuedKeeps, CancelReturnsKeeps
<1>9. ASSUME NEW c \in Children, Reconcile(c) PROVE IInv' /\ Starts
  <2>1. live' = live BY <1>9 DEF Reconcile, tasks
  <2>. QED BY <1>1, <1>9, <2>1, ReconcileKeeps
<1>10. CASE Close \/ CloseTimer \/ CloseAdmission \/ CloseAbort \/ CloseDone
  <2>1. live' = live
    BY <1>10 DEF Close, CloseTimer, CloseAdmission, CloseAbort, CloseDone, tasks
  <2>. QED BY <1>1, <1>10, <2>1, CloseKeeps, CloseAdmissionKeeps, CloseAbortKeeps, CloseDoneKeeps
<1>11. CASE CloseCancel BY <1>11, CloseCancelKeeps
<1>12. CASE Replace \/ Resume
  <2>1. live' = live BY <1>12 DEF Replace, Resume
  <2>. QED BY <1>1, <1>12, <2>1, ReplaceKeeps, ResumeKeeps
<1>13. CASE Crash
  <2>1. live' = {} BY <1>13 DEF Crash
  <2>. QED BY <1>1, <1>13, <2>1, CrashKeeps
<1>14. CASE Rest \/ UNCHANGED vars
  <2>1. UNCHANGED vars BY <1>14 DEF Rest
  <2>. QED BY <2>1, StutterKeeps
<1>. QED BY <1>2, <1>3, <1>4, <1>5, <1>6, <1>7, <1>8, <1>9, <1>10, <1>11, <1>12, <1>13, <1>14
     DEF Next, Closing

\* The conjunction the other theorems follow from is inductive.
THEOREM Invariant == Spec => []IInv
<1>1. IInv /\ [Next]_vars => IInv' BY InvariantStep
<1>. QED BY InitialInvariant, <1>1, PTL DEF Spec

\* Both limits of a parent hold, the one on its workers at any instant and the
\* one on its children over failures, replacements and resumes.
THEOREM LimitsAreKept == Spec => []LimitsHold
<1>1. IInv => LimitsHold BY DEF IInv, LimitsHold
<1>. QED BY <1>1, Invariant, PTL

\* What a waiter or a status is told has ended has ended in the log, and the
\* log has all the ends that the scheduler which takes over asks for.
THEOREM EndsAreWritten == Spec => []EndsAreDurable
<1>1. IInv => EndsAreDurable
  BY DEF IInv, EndsAreDurable, PlaceFits, ReplayIsComplete
<1>. QED BY <1>1, Invariant, PTL

\* A close that returns normally leaves nothing at work, nothing queued and an
\* end in the log for every child its parent was accepted for.
THEOREM CloseLeavesNothing == Spec => []CloseSettles
<1>1. IInv => CloseSettles BY DEF IInv
<1>. QED BY <1>1, Invariant, PTL

\* A child starts once in its life, after its acceptance and before its end is
\* in the log, in an open scheduler whose budget holds.
THEOREM ChildrenStartOnce == Spec => StartsAreLegal
<1>1. IInv /\ [Next]_vars =>
        [\A c \in live' \ live :
            c \in Accepted' \ (terminal \cup started) /\ ~closed /\ ~exhausted']_vars
  BY InvariantStep DEF Starts
<1>. QED BY <1>1, Invariant, PTL DEF Spec, StartsAreLegal
=============================================================================
