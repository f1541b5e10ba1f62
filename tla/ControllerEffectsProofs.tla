----------------------- MODULE ControllerEffectsProofs -----------------------
(***************************************************************************)
(* TLAPS proofs about ControllerEffects, for any operations, lanes, refs   *)
(* and number of actions and processes.                                    *)
(***************************************************************************)
EXTENDS ControllerEffects, FiniteSetTheorems, SequenceTheorems,
        WellFoundedInduction, TLAPS

InFlight == {"intended", "prepared", "released", "landed", "failed", "refused"}
Definite == {"applied", "not_applied"}

\* Where the execution of an operation is, and what the journal has of it.
JournalFits(o) ==
    /\ pc[o] # "idle" => mode = "running" /\ receipt[o] = "pending"
    /\ pc[o] = "waiting" => o \notin Journaled
    /\ pc[o] \in InFlight => o \in Journaled /\ settled[o] = "none"
    /\ pc[o] = "settled" => o \in Journaled /\ settled[o] # "none"
    /\ pc[o] = "intended" => o \notin prepared
    /\ o \notin Journaled => settled[o] = "none"

\* What the journal says for certain is so, and stays so: nothing of what was
\* not applied can land any more.
WorldFits(o) ==
    /\ pc[o] = "prepared" => o \in prepared /\ o \notin landed /\ o \notin alive
    /\ pc[o] = "landed" => o \in landed
    /\ pc[o] = "refused" => o \notin landed /\ o \notin alive
    /\ settled[o] = "applied" => o \in landed
    /\ settled[o] = "not_applied" => o \notin landed /\ o \notin alive
    /\ o \in alive => Kind[o] = "program"

\* Who may still have written a ref can tell from its value whether he has.
RefFits(o) ==
    o \in prepared \cap Unresolved /\ Kind[o] = "git" =>
        IF o \in landed THEN ref[Target[o]] \in {NewHead[o], Foreign}
        ELSE ref[Target[o]] # NewHead[o]

\* The receipts and the plan of a recovery follow from the journal.
ReceiptFits(o) ==
    /\ receipt[o] = "none" => o \notin Journaled
    /\ receipt[o] = "completed" => settled[o] = "applied"
    /\ receipt[o] \in {"failed", "interrupted"} =>
         o \notin Journaled \/ settled[o] = "not_applied"
    /\ mode \in {"running", "down"} => plan[o] = "none"
    /\ plan[o] = "completed" => settled[o] = "applied"
    /\ plan[o] = "failed" => settled[o] = "not_applied"
    /\ plan[o] = "interrupted" => o \notin Journaled
    /\ mode = "activating" /\ receipt[o] = "pending" =>
         plan[o] \in {"completed", "failed", "interrupted"}

\* What an intent found in the journal: the conflicting operations before it
\* are settled for certain, and those of its own effect did nothing.
OrderFits ==
    \A i, j \in DOMAIN intents : i < j =>
        /\ Range(Declared[intents[i]]) \cap Range(Declared[intents[j]]) # {} =>
             settled[intents[i]] \in Definite
        /\ Logical[intents[i]] = Logical[intents[j]] =>
             settled[intents[i]] = "not_applied"

IInv ==
    /\ TypeOK /\ OrderFits
    /\ \A o \in Ops : JournalFits(o) /\ WorldFits(o) /\ RefFits(o) /\ ReceiptFits(o)

-----------------------------------------------------------------------------
(* Lemmas about the journal and the lanes.                                 *)

LEMMA JournaledIs == Journaled = {intents[i] : i \in DOMAIN intents}
BY DEF Journaled, Range

LEMMA AppendShape ==
    ASSUME NEW S, NEW s \in Seq(S), NEW x \in S
    PROVE  /\ Append(s, x) \in Seq(S) /\ Len(Append(s, x)) = Len(s) + 1
           /\ Len(s) + 1 \notin DOMAIN s /\ Len(s) + 1 \in Nat
           /\ DOMAIN Append(s, x) = DOMAIN s \cup {Len(s) + 1}
           /\ DOMAIN s = 1..Len(s) /\ Len(s) \in Nat
           /\ Append(s, x)[Len(s) + 1] = x
           /\ \A i \in DOMAIN s : Append(s, x)[i] = s[i]
OBVIOUS

LEMMA JournaledGrows ==
    ASSUME TypeOK, NEW o \in Ops, intents' = Append(intents, o)
    PROVE  Journaled' = Journaled \cup {o} /\ intents' \in Seq(Ops)
<1>1. /\ intents' \in Seq(Ops) /\ DOMAIN intents' = DOMAIN intents \cup {Len(intents) + 1}
      /\ intents'[Len(intents) + 1] = o /\ \A i \in DOMAIN intents : intents'[i] = intents[i]
  BY AppendShape DEF TypeOK
<1>2. Journaled' = {intents'[i] : i \in DOMAIN intents'} BY DEF Journaled, Range
<1>. QED BY <1>1, <1>2, JournaledIs

LEMMA JournaledIsOps == TypeOK => Journaled \subseteq Ops
BY JournaledIs, LenProperties, ElementOfSeq DEF TypeOK

LEMMA ReleasedType ==
    ASSUME TypeOK, NEW o \in Ops
    PROVE  Released(o) \in [Keys -> Seq(Ops)]
<1>1. ASSUME NEW k \in Keys
      PROVE  (IF Inside(o, k) THEN Tail(lane[k]) ELSE lane[k]) \in Seq(Ops)
  <2>1. lane[k] \in Seq(Ops) BY DEF TypeOK
  <2>2. CASE Inside(o, k) BY <2>1, <2>2, HeadTailProperties DEF Inside
  <2>3. CASE ~Inside(o, k) BY <2>1, <2>3
  <2>. QED BY <2>2, <2>3
<1>. QED BY <1>1 DEF Released

\* A non-empty set of indexes has a greatest one.
LEMMA GreatestIndex ==
    ASSUME NEW n \in Nat, NEW T \in SUBSET (1..n), T # {}
    PROVE  \E m \in T : \A i \in T : i <= m
<1> DEFINE Gap == {n - i : i \in T}
           Less == {p \in Nat \X Nat : p[1] < p[2]}
<1>1. Gap \in SUBSET Nat /\ Gap # {}
  <2>1. \A i \in T : n - i \in Nat OBVIOUS
  <2>2. \E i \in T : TRUE OBVIOUS
  <2>. QED BY <2>1, <2>2
<1>2. IsWellFoundedOn(Less, Nat)
  <2>1. Less = OpToRel(<, Nat) BY DEF OpToRel
  <2>. QED BY <2>1, NatLessThanWellFounded
<1>3. PICK g \in Gap : \A h \in Gap : ~(<<h, g>> \in Less)
  <2> HIDE DEF Less, Gap
  <2>. QED BY <1>1, <1>2, WFMin
<1>4. PICK m \in T : g = n - m OBVIOUS
<1>5. ASSUME NEW i \in T PROVE i <= m
  <2>1. n - i \in Gap OBVIOUS
  <2>2. ~(<<n - i, g>> \in Less) BY <1>3, <2>1
  <2>3. n - i \in Nat /\ g \in Nat BY <1>1, <2>1
  <2>4. ~(n - i < g) BY <2>2, <2>3
  <2>. QED BY <1>4, <2>4
<1>. QED BY <1>5

\* The last intent of a set of operations, when there is one.
LEMMA LatestIs ==
    ASSUME TypeOK, NEW S, NEW i \in DOMAIN intents, intents[i] \in S
    PROVE  \E m \in DOMAIN intents : i <= m /\ intents[m] \in S /\ Latest(S) = {intents[m]}
<1> DEFINE found == {j \in DOMAIN intents : intents[j] \in S}
<1>1. Len(intents) \in Nat /\ DOMAIN intents = 1..Len(intents)
  BY LenProperties DEF TypeOK
<1>2. found \in SUBSET (1..Len(intents)) /\ i \in found BY <1>1
<1>3. PICK m \in found : \A j \in found : j <= m
  <2> HIDE DEF found
  <2>. QED BY <1>1, <1>2, GreatestIndex
<1>4. {j \in found : \A k \in found : k <= j} = {m}
  BY <1>1, <1>2, <1>3
<1>5. Latest(S) = {intents[j] : j \in {k \in found : \A l \in found : l <= k}}
  BY Zenon DEF Latest
<1>6. Latest(S) = {intents[m]} BY <1>4, <1>5
<1>. QED BY <1>2, <1>3, <1>6

\* Of an admissible intent the journal knows nothing, all that conflicts with
\* it is settled for certain and all that had its effect did nothing: the last
\* ones by the rules of the timeline, those before by the order of the journal.
LEMMA AdmissibleMeans ==
    ASSUME IInv, NEW o \in Ops, Admissible(o), NEW i \in DOMAIN intents
    PROVE  /\ Range(Declared[intents[i]]) \cap Range(Declared[o]) # {} =>
                settled[intents[i]] \in Definite
           /\ Logical[intents[i]] = Logical[o] => settled[intents[i]] = "not_applied"
<1>1. /\ DOMAIN intents = 1..Len(intents) /\ Len(intents) \in Nat
      /\ \A j \in DOMAIN intents : intents[j] \in Ops /\ intents[j] \in Journaled
  BY LenProperties, ElementOfSeq, JournaledIs DEF IInv, TypeOK
<1>2. ASSUME NEW k \in Range(Declared[intents[i]]), k \in Range(Declared[o])
      PROVE  settled[intents[i]] \in Definite
  <2>1. intents[i] \in InLane(k) BY <1>1, <1>2 DEF InLane
  <2>2. PICK m \in DOMAIN intents :
          i <= m /\ intents[m] \in InLane(k) /\ Latest(InLane(k)) = {intents[m]}
    BY <2>1, LatestIs DEF IInv
  <2>3. settled[intents[m]] \in Definite
    <3>1. intents[m] \notin Unresolved BY <1>2, <2>2 DEF Admissible
    <3>2. settled[intents[m]] \in Settlements BY <1>1 DEF IInv, TypeOK
    <3>. QED BY <1>1, <3>1, <3>2 DEF Unresolved, Settlements, Definite
  <2>4. CASE i = m BY <2>3, <2>4
  <2>5. CASE i < m
    <3>1. Range(Declared[intents[i]]) \cap Range(Declared[intents[m]]) # {}
      BY <1>2, <2>2 DEF InLane
    <3>. QED BY <2>2, <2>5, <3>1 DEF IInv, OrderFits
  <2>. QED BY <1>1, <2>2, <2>4, <2>5
<1>3. ASSUME Logical[intents[i]] = Logical[o]
      PROVE  settled[intents[i]] = "not_applied"
  <2>1. intents[i] \in SameEffect(o) BY <1>1, <1>3 DEF SameEffect
  <2>2. PICK m \in DOMAIN intents :
          i <= m /\ intents[m] \in SameEffect(o) /\ Latest(SameEffect(o)) = {intents[m]}
    BY <2>1, LatestIs DEF IInv
  <2>3. settled[intents[m]] = "not_applied" BY <2>2 DEF Admissible
  <2>4. CASE i = m BY <2>3, <2>4
  <2>5. CASE i < m BY <1>3, <2>2, <2>5 DEF IInv, OrderFits, SameEffect
  <2>. QED BY <1>1, <2>2, <2>4, <2>5
<1>. QED BY <1>2, <1>3

\* Two unresolved operations share no lane.
LEMMA UnresolvedApart ==
    ASSUME IInv, NEW o \in Unresolved, NEW p \in Unresolved,
           Range(Declared[o]) \cap Range(Declared[p]) # {}
    PROVE  o = p
<1>1. PICK i \in DOMAIN intents : intents[i] = o BY JournaledIs DEF Unresolved
<1>2. PICK j \in DOMAIN intents : intents[j] = p BY JournaledIs DEF Unresolved
<1>3. i \in Int /\ j \in Int BY LenProperties DEF IInv, TypeOK
<1>4. ~(i < j) BY <1>1, <1>2 DEF IInv, OrderFits, Unresolved, Definite
<1>5. ~(j < i)
  <2>1. Range(Declared[p]) \cap Range(Declared[o]) # {} OBVIOUS
  <2>. QED BY <1>1, <1>2, <2>1 DEF IInv, OrderFits, Unresolved, Definite
<1>. QED BY <1>1, <1>2, <1>3, <1>4, <1>5

\* What is settled for certain stays so, and with it the order of the journal.
LEMMA OrderKept ==
    ASSUME IInv, UNCHANGED intents,
           \A p \in Ops : settled[p] \in Definite => settled'[p] = settled[p]
    PROVE  OrderFits'
<1>1. \A i \in DOMAIN intents : intents[i] \in Ops
  BY LenProperties, ElementOfSeq DEF IInv, TypeOK
<1>. QED BY <1>1 DEF IInv, OrderFits, Definite

-----------------------------------------------------------------------------
(* Steps.  A step of one operation leaves what is known of the others.     *)

Untouched(p) ==
    /\ pc'[p] = pc[p] /\ settled'[p] = settled[p]
    /\ receipt'[p] = receipt[p] /\ plan'[p] = plan[p]
    /\ p \in Journaled' <=> p \in Journaled
    /\ p \in prepared' <=> p \in prepared
    /\ p \in landed' <=> p \in landed
    /\ p \in alive' <=> p \in alive

LEMMA UntouchedKeeps ==
    ASSUME IInv, NEW p \in Ops, Untouched(p), mode' = mode
    PROVE  /\ JournalFits(p)' /\ WorldFits(p)' /\ ReceiptFits(p)'
           /\ ref'[Target[p]] = ref[Target[p]] => RefFits(p)'
<1>1. JournalFits(p)' BY DEF IInv, Untouched, JournalFits, InFlight
<1>2. WorldFits(p)' BY DEF IInv, Untouched, WorldFits
<1>3. ReceiptFits(p)' BY DEF IInv, Untouched, ReceiptFits
<1>4. ref'[Target[p]] = ref[Target[p]] => RefFits(p)'
  BY DEF IInv, Untouched, RefFits, Unresolved
<1>. QED BY <1>1, <1>2, <1>3, <1>4

LEMMA StepOfOne ==
    ASSUME IInv, TypeOK', OrderFits', NEW o \in Ops, mode' = mode, ref' = ref,
           \A p \in Ops \ {o} : Untouched(p),
           JournalFits(o)', WorldFits(o)', RefFits(o)', ReceiptFits(o)'
    PROVE  IInv'
<1>1. \A p \in Ops \ {o} : JournalFits(p)' /\ WorldFits(p)' /\ RefFits(p)' /\ ReceiptFits(p)'
  BY UntouchedKeeps
<1>. QED BY <1>1 DEF IInv

LEMMA JournaledStays == UNCHANGED intents => UNCHANGED Journaled
BY DEF Journaled, Range

LEMMA JoinLaneKeeps == ASSUME IInv, NEW o \in Ops, JoinLane(o) PROVE IInv'
<1>. USE DEF JoinLane, process, journal, world
<1>1. UNCHANGED Journaled BY JournaledStays
<1>2. lane' \in [Keys -> Seq(Ops)]
  <2>1. \A q \in Seq(Ops) : Append(q, o) \in Seq(Ops) BY AppendShape
  <2>. QED BY <2>1 DEF IInv, TypeOK
<1>3. TypeOK' BY <1>1, <1>2 DEF IInv, TypeOK
<1>4. OrderFits' BY OrderKept
<1>5. \A p \in Ops : Untouched(p) BY <1>1 DEF Untouched
<1>. QED BY <1>3, <1>4, <1>5, UntouchedKeeps DEF IInv

LEMMA DispatchKeeps == ASSUME IInv, NEW o \in Ops, Dispatch(o) PROVE IInv'
<1>. USE DEF Dispatch, process, journal, world
<1>1. UNCHANGED Journaled BY JournaledStays
<1>2. TypeOK' BY <1>1 DEF IInv, TypeOK
<1>3. OrderFits' BY OrderKept
<1>4. \A p \in Ops \ {o} : Untouched(p) BY <1>1 DEF IInv, TypeOK, Untouched
<1>5. pc'[o] = "waiting" /\ receipt'[o] = "pending" BY DEF IInv, TypeOK
<1>6. o \notin Journaled /\ settled[o] = "none" BY DEF IInv, ReceiptFits, JournalFits
<1>7. JournalFits(o)' BY <1>1, <1>5, <1>6 DEF JournalFits, InFlight
<1>8. WorldFits(o)' /\ RefFits(o)'
  BY <1>1, <1>5, <1>6 DEF IInv, WorldFits, RefFits, Unresolved
<1>9. ReceiptFits(o)' BY <1>1, <1>5, <1>6 DEF IInv, ReceiptFits
<1>. QED BY <1>2, <1>3, <1>4, <1>7, <1>8, <1>9, StepOfOne

LEMMA RejectedKeeps == ASSUME IInv, NEW o \in Ops, Rejected(o) PROVE IInv'
<1>. USE DEF Rejected, process, journal, world
<1>1. UNCHANGED Journaled BY JournaledStays
<1>2. TypeOK' BY <1>1 DEF IInv, TypeOK
<1>3. OrderFits' BY OrderKept
<1>4. \A p \in Ops \ {o} : Untouched(p) BY <1>1 DEF IInv, TypeOK, Untouched
<1>5. pc'[o] = "idle" BY DEF IInv, TypeOK
<1>7. JournalFits(o)' BY <1>1, <1>5 DEF IInv, JournalFits, InFlight
<1>8. WorldFits(o)' /\ RefFits(o)'
  BY <1>1, <1>5 DEF IInv, WorldFits, RefFits, Unresolved
<1>9. ReceiptFits(o)' BY <1>1, <1>5 DEF IInv, ReceiptFits
<1>. QED BY <1>2, <1>3, <1>4, <1>7, <1>8, <1>9, StepOfOne

LEMMA RefuseKeeps == ASSUME IInv, NEW o \in Ops, Refuse(o) PROVE IInv'
<1>. USE DEF Refuse, Leave, process, journal, world
<1>1. UNCHANGED Journaled BY JournaledStays
<1>2. TypeOK' BY <1>1, ReleasedType DEF IInv, TypeOK
<1>3. OrderFits' BY OrderKept
<1>4. \A p \in Ops \ {o} : Untouched(p) BY <1>1 DEF IInv, TypeOK, Untouched
<1>5. pc'[o] = "idle" /\ receipt'[o] = "failed" BY DEF IInv, TypeOK
<1>6. o \notin Journaled /\ settled[o] = "none" BY DEF IInv, JournalFits
<1>7. JournalFits(o)' BY <1>1, <1>5, <1>6 DEF JournalFits, InFlight
<1>8. WorldFits(o)' /\ RefFits(o)'
  BY <1>1, <1>5, <1>6 DEF IInv, WorldFits, RefFits, Unresolved
<1>9. ReceiptFits(o)' BY <1>1, <1>5, <1>6 DEF IInv, ReceiptFits
<1>. QED BY <1>2, <1>3, <1>4, <1>7, <1>8, <1>9, StepOfOne

LEMMA AdmitKeeps == ASSUME IInv, NEW o \in Ops, Admit(o) PROVE IInv'
<1>. USE DEF Admit, process, world
<1>1. /\ o \notin Journaled /\ settled[o] = "none" /\ o \notin prepared
      /\ o \notin landed /\ o \notin alive /\ receipt[o] = "pending" /\ mode = "running"
  BY DEF IInv, TypeOK, Admissible, JournalFits
<1>2. pc'[o] \in {"intended", "idle"} /\ \A p \in Ops \ {o} : pc'[p] = pc[p]
  BY DEF IInv, TypeOK, Poison, Fatal, Leave
<1>3. \/ UNCHANGED intents /\ pc'[o] = "idle"
      \/ intents' = Append(intents, o)
  BY DEF IInv, TypeOK, Poison, Fatal, Leave
<1>4. /\ lane' \in [Keys -> Seq(Ops)] /\ open' \in BOOLEAN /\ poisoned' \in BOOLEAN
      /\ pc' \in [Ops -> {"idle", "waiting", "intended", "prepared",
                          "released", "landed", "failed", "refused", "settled"}]
  BY ReleasedType DEF IInv, TypeOK, Poison, Fatal, Leave
<1>5. intents' \in Seq(Ops) /\ (Journaled' = Journaled \/ Journaled' = Journaled \cup {o})
  BY <1>3, JournaledGrows, JournaledStays DEF IInv, TypeOK
<1>6. TypeOK' BY <1>4, <1>5 DEF IInv, TypeOK
<1>7. OrderFits'
  <2>1. CASE UNCHANGED intents BY <2>1, OrderKept
  <2>2. CASE intents' = Append(intents, o)
    <3>1. /\ DOMAIN intents = 1..Len(intents) /\ Len(intents) \in Nat
          /\ DOMAIN intents' = DOMAIN intents \cup {Len(intents) + 1}
          /\ intents'[Len(intents) + 1] = o
          /\ \A i \in DOMAIN intents : intents'[i] = intents[i]
      BY <2>2, AppendShape DEF IInv, TypeOK
    <3>2. SUFFICES ASSUME NEW i \in DOMAIN intents', NEW j \in DOMAIN intents', i < j
                   PROVE  /\ Range(Declared[intents'[i]]) \cap Range(Declared[intents'[j]]) # {} =>
                               settled[intents'[i]] \in Definite
                          /\ Logical[intents'[i]] = Logical[intents'[j]] =>
                               settled[intents'[i]] = "not_applied"
      BY DEF OrderFits
    <3>3. i \in DOMAIN intents BY <3>1, <3>2
    <3>4. CASE j \in DOMAIN intents BY <3>1, <3>2, <3>3, <3>4 DEF IInv, OrderFits
    <3>5. CASE j = Len(intents) + 1 BY <3>1, <3>3, <3>5, AdmissibleMeans
    <3>. QED BY <3>1, <3>4, <3>5
  <2>. QED BY <1>3, <2>1, <2>2
<1>8. \A p \in Ops \ {o} : Untouched(p) BY <1>2, <1>5 DEF Untouched
<1>9. JournalFits(o)'
  <2>1. pc'[o] = "intended" => o \in Journaled'
    BY <1>3, JournaledGrows DEF IInv
  <2>. QED BY <1>1, <1>2, <2>1 DEF JournalFits, InFlight
<1>10. WorldFits(o)' /\ RefFits(o)' BY <1>1, <1>2 DEF WorldFits, RefFits
<1>11. ReceiptFits(o)' BY <1>1 DEF IInv, ReceiptFits
<1>. QED BY <1>6, <1>7, <1>8, <1>9, <1>10, <1>11, StepOfOne

LEMMA PrepareKeeps == ASSUME IInv, NEW o \in Ops, Prepare(o) PROVE IInv'
<1>. USE DEF Prepare, process, world
<1>1. /\ o \in Journaled /\ settled[o] = "none" /\ o \notin prepared
      /\ o \notin landed /\ o \notin alive /\ receipt[o] = "pending" /\ mode = "running"
  BY DEF IInv, TypeOK, JournalFits, InFlight
<1>2. pc'[o] \in {"prepared", "idle"} /\ \A p \in Ops \ {o} : pc'[p] = pc[p]
  BY DEF IInv, TypeOK, Poison, Fatal, Leave
<1>3. /\ pc'[o] = "prepared" => prepared' = prepared \cup {o}
      /\ prepared' \in {prepared, prepared \cup {o}}
  BY DEF IInv, TypeOK, Poison, Fatal, Leave
<1>4. /\ lane' \in [Keys -> Seq(Ops)] /\ open' \in BOOLEAN /\ poisoned' \in BOOLEAN
      /\ pc' \in [Ops -> {"idle", "waiting", "intended", "prepared",
                          "released", "landed", "failed", "refused", "settled"}]
  BY ReleasedType DEF IInv, TypeOK, Poison, Fatal, Leave
<1>5. UNCHANGED Journaled BY JournaledStays
<1>6. TypeOK' BY <1>1, <1>3, <1>4, <1>5 DEF IInv, TypeOK
<1>7. OrderFits' BY OrderKept
<1>8. \A p \in Ops \ {o} : Untouched(p) BY <1>2, <1>3, <1>5 DEF Untouched
<1>9. JournalFits(o)' BY <1>1, <1>2, <1>5 DEF JournalFits, InFlight
<1>10. WorldFits(o)' BY <1>1, <1>2, <1>3 DEF WorldFits
<1>11. RefFits(o)'
  <2>1. Kind[o] = "git" => ref[Target[o]] # NewHead[o] BY EffectsAssumption
  <2>. QED BY <1>1, <2>1 DEF RefFits
<1>12. ReceiptFits(o)' BY <1>1, <1>5 DEF IInv, ReceiptFits
<1>. QED BY <1>6, <1>7, <1>8, <1>9, <1>10, <1>11, <1>12, StepOfOne

\* The steps that only move an execution on, or its program.
LEMMA ExecutionKeeps ==
    ASSUME IInv, NEW o \in Ops,
           FailEarly(o) \/ StartProgram(o) \/ ProgramAnswers(o)
    PROVE  IInv'
<1>. USE DEF process, journal, world
<1>1. UNCHANGED <<process, open, poisoned, lane, journal, receipt, ref, landed>>
  BY DEF FailEarly, StartProgram, ProgramAnswers
<1>2. UNCHANGED Journaled BY <1>1, JournaledStays
<1>3. /\ pc[o] \in {"intended", "prepared", "released"}
      /\ pc' = [pc EXCEPT ![o] = pc'[o]]
      /\ pc'[o] \in {"refused", "released", "landed", "failed"}
  BY DEF IInv, TypeOK, FailEarly, StartProgram, ProgramAnswers
<1>4. /\ o \in Journaled /\ settled[o] = "none" /\ receipt[o] = "pending"
      /\ mode = "running"
  BY <1>3 DEF IInv, JournalFits, InFlight
<1>5. /\ alive' \in {alive, alive \cup {o}}
      /\ alive' # alive => o \in prepared /\ Kind[o] = "program" /\ pc'[o] = "released"
  BY DEF IInv, TypeOK, WorldFits, FailEarly, StartProgram, ProgramAnswers
<1>6. /\ pc'[o] = "landed" => o \in landed
      /\ pc'[o] = "refused" => o \notin landed /\ o \notin alive /\ alive' = alive
  BY DEF IInv, TypeOK, JournalFits, FailEarly, StartProgram, ProgramAnswers
<1>7. TypeOK' BY <1>1, <1>2, <1>3, <1>5 DEF IInv, TypeOK
<1>8. OrderFits' BY <1>1, OrderKept
<1>9. \A p \in Ops \ {o} : Untouched(p)
  BY <1>1, <1>2, <1>3, <1>5 DEF IInv, TypeOK, Untouched
<1>10. JournalFits(o)' BY <1>1, <1>2, <1>3, <1>4 DEF JournalFits, InFlight
<1>11. WorldFits(o)' BY <1>1, <1>3, <1>4, <1>5, <1>6 DEF IInv, WorldFits
<1>12. RefFits(o)' BY <1>1, <1>2 DEF IInv, RefFits, Unresolved
<1>13. ReceiptFits(o)' BY <1>1, <1>2 DEF IInv, ReceiptFits
<1>. QED BY <1>1, <1>7, <1>8, <1>9, <1>10, <1>11, <1>12, <1>13, StepOfOne

\* A ref is written inside its lane, so by nobody else who may have to tell
\* from its value whether he has written it.
LEMMA WriteKeeps == ASSUME IInv, NEW o \in Ops, Write(o) PROVE IInv'
<1>. USE DEF Write, process, journal
<1>1. UNCHANGED Journaled BY JournaledStays
<1>2. /\ o \in Journaled /\ settled[o] = "none" /\ receipt[o] = "pending"
      /\ mode = "running" /\ o \in prepared /\ o \notin landed /\ o \notin alive
  BY DEF IInv, JournalFits, WorldFits, InFlight
<1>3. /\ pc' = [pc EXCEPT ![o] = pc'[o]]
      /\ pc'[o] \in {"refused", "landed", "failed"}
  BY DEF IInv, TypeOK
<1>4. \/ landed' = landed /\ ref' = ref /\ pc'[o] \in {"failed", "refused"}
      \/ /\ landed' = landed \cup {o} /\ pc'[o] \in {"landed", "failed"}
         /\ ref' = [ref EXCEPT ![Target[o]] = NewHead[o]]
  BY DEF IInv, TypeOK
<1>5. TypeOK'
  <2>1. DOMAIN ref' = DOMAIN ref BY <1>4
  <2>2. landed' \subseteq prepared BY <1>2, <1>4 DEF IInv, TypeOK
  <2>3. pc' \in [Ops -> {"idle", "waiting", "intended", "prepared",
                         "released", "landed", "failed", "refused", "settled"}]
    BY <1>3 DEF IInv, TypeOK
  <2>. QED BY <1>1, <2>1, <2>2, <2>3 DEF IInv, TypeOK
<1>6. OrderFits' BY OrderKept
<1>7. ASSUME NEW p \in Ops \ {o}
      PROVE  JournalFits(p)' /\ WorldFits(p)' /\ RefFits(p)' /\ ReceiptFits(p)'
  <2>1. Untouched(p) BY <1>1, <1>3, <1>4 DEF IInv, TypeOK, Untouched
  <2>2. CASE Target[p] # Target[o] \/ ref' = ref
    <3>1. Target[p] \in DOMAIN ref BY EffectsAssumption DEF IInv, TypeOK
    <3>2. ref'[Target[p]] = ref[Target[p]] BY <1>4, <2>2, <3>1
    <3>. QED BY <2>1, <3>2, UntouchedKeeps
  <2>3. CASE Target[p] = Target[o]
    <3>1. ~(p \in prepared \cap Unresolved /\ Kind[p] = "git")
      <4>. SUFFICES ASSUME p \in Unresolved, Kind[p] = "git" PROVE FALSE
        OBVIOUS
      <4>1. Range(Declared[o]) \cap Range(Declared[p]) # {}
        BY <2>3, LaneOfRefAssumption
      <4>2. o \in Unresolved BY <1>2 DEF Unresolved
      <4>. QED BY <4>1, <4>2, UnresolvedApart
    <3>2. RefFits(p)' BY <1>1, <2>1, <3>1 DEF RefFits, Unresolved, Untouched
    <3>. QED BY <2>1, <3>2, UntouchedKeeps
  <2>. QED BY <2>2, <2>3
<1>8. JournalFits(o)' BY <1>1, <1>2, <1>3 DEF JournalFits, InFlight
<1>9. WorldFits(o)' BY <1>2, <1>3, <1>4 DEF WorldFits
<1>10. RefFits(o)'
  <2>1. Target[o] \in DOMAIN ref BY EffectsAssumption DEF IInv, TypeOK
  <2>. QED BY <1>1, <1>2, <1>4, <2>1 DEF IInv, RefFits, Unresolved
<1>11. ReceiptFits(o)' BY <1>1, <1>2 DEF IInv, ReceiptFits
<1>. QED BY <1>5, <1>6, <1>7, <1>8, <1>9, <1>10, <1>11 DEF IInv

LEMMA SettleKeeps == ASSUME IInv, NEW o \in Ops, Settle(o) PROVE IInv'
<1>. USE DEF Settle, process, world
<1>1. UNCHANGED Journaled BY JournaledStays
<1>2. /\ o \in Journaled /\ settled[o] = "none" /\ receipt[o] = "pending"
      /\ mode = "running"
  BY DEF IInv, JournalFits, InFlight
<1>3. /\ Outcome(o) \in Settlements \ {"none"}
      /\ Outcome(o) = "applied" => o \in landed
      /\ Outcome(o) = "not_applied" => o \notin landed /\ o \notin alive
  BY DEF IInv, WorldFits, Outcome, Settlements
<1>4. pc'[o] \in {"settled", "idle"} /\ \A p \in Ops \ {o} : pc'[p] = pc[p]
  BY DEF IInv, TypeOK, Poison, Fatal, Leave
<1>5. /\ settled' \in {settled, [settled EXCEPT ![o] = Outcome(o)]}
      /\ pc'[o] = "settled" => settled' = [settled EXCEPT ![o] = Outcome(o)]
  BY DEF IInv, TypeOK, Poison, Fatal, Leave
<1>6. /\ lane' \in [Keys -> Seq(Ops)] /\ open' \in BOOLEAN /\ poisoned' \in BOOLEAN
      /\ pc' \in [Ops -> {"idle", "waiting", "intended", "prepared",
                          "released", "landed", "failed", "refused", "settled"}]
  BY ReleasedType DEF IInv, TypeOK, Poison, Fatal, Leave
<1>7. settled' \in [Ops -> Settlements] BY <1>3, <1>5 DEF IInv, TypeOK
<1>8. TypeOK' BY <1>1, <1>6, <1>7 DEF IInv, TypeOK
<1>9. settled'[o] \in {"none", Outcome(o)} /\ \A p \in Ops \ {o} : settled'[p] = settled[p]
  BY <1>2, <1>5 DEF IInv, TypeOK
<1>10. OrderFits' BY <1>2, <1>9, OrderKept DEF Definite
<1>11. \A p \in Ops \ {o} : Untouched(p) BY <1>1, <1>4, <1>9 DEF Untouched
<1>12. JournalFits(o)'
  <2>1. pc'[o] = "settled" => settled'[o] # "none" BY <1>3, <1>5 DEF IInv, TypeOK
  <2>. QED BY <1>1, <1>2, <1>4, <2>1 DEF JournalFits, InFlight
<1>13. WorldFits(o)' BY <1>3, <1>4, <1>9 DEF IInv, WorldFits
<1>14. RefFits(o)' BY <1>1, <1>2 DEF IInv, RefFits, Unresolved
<1>15. ReceiptFits(o)' BY <1>1, <1>2 DEF IInv, ReceiptFits
<1>. QED BY <1>8, <1>10, <1>11, <1>12, <1>13, <1>14, <1>15, StepOfOne

LEMMA ReportKeeps == ASSUME IInv, NEW o \in Ops, Report(o) PROVE IInv'
<1>. USE DEF Report, process, journal, world
<1>1. UNCHANGED Journaled BY JournaledStays
<1>2. o \in Journaled /\ receipt[o] = "pending" /\ mode = "running"
  BY DEF IInv, JournalFits
<1>3. /\ receipt' = [receipt EXCEPT ![o] = receipt'[o]]
      /\ \/ receipt'[o] = "pending"
         \/ receipt'[o] = "completed" /\ settled[o] = "applied"
         \/ receipt'[o] = "failed" /\ settled[o] = "not_applied"
  <2>1. CASE settled[o] = "applied" BY <1>2, <2>1 DEF IInv, TypeOK
  <2>2. CASE settled[o] = "not_applied" BY <1>2, <2>2 DEF IInv, TypeOK
  <2>3. CASE settled[o] \notin {"applied", "not_applied"}
    BY <1>2, <2>3 DEF IInv, TypeOK
  <2>. QED BY <2>1, <2>2, <2>3
<1>4. open' \in BOOLEAN BY DEF IInv, TypeOK
<1>5. TypeOK' BY <1>1, <1>3, <1>4 DEF IInv, TypeOK
<1>6. OrderFits' BY OrderKept
<1>7. \A p \in Ops \ {o} : Untouched(p) BY <1>1, <1>3 DEF IInv, TypeOK, Untouched
<1>8. pc'[o] = "idle" BY DEF IInv, TypeOK
<1>9. JournalFits(o)' BY <1>1, <1>2, <1>8 DEF JournalFits, InFlight
<1>10. WorldFits(o)' /\ RefFits(o)' BY <1>1, <1>8 DEF IInv, WorldFits, RefFits, Unresolved
<1>11. ReceiptFits(o)' BY <1>1, <1>2, <1>3 DEF IInv, ReceiptFits
<1>. QED BY <1>5, <1>6, <1>7, <1>9, <1>10, <1>11, StepOfOne

\* A program lands and stops whoever looks.
LEMMA ProgramKeeps ==
    ASSUME IInv, NEW o \in Ops, ProgramLands(o) \/ ProgramStops(o)
    PROVE  IInv'
<1>. USE DEF process, journal
<1>1. UNCHANGED <<process, open, poisoned, lane, pc, journal, receipt, ref>>
  BY DEF ProgramLands, ProgramStops
<1>2. UNCHANGED Journaled BY <1>1, JournaledStays
<1>3. o \in alive /\ o \in prepared /\ Kind[o] = "program"
  BY DEF IInv, TypeOK, WorldFits, ProgramLands, ProgramStops
<1>4. /\ pc[o] \notin {"prepared", "refused"} /\ settled[o] # "not_applied"
  BY <1>3 DEF IInv, WorldFits
<1>5. landed \subseteq landed' /\ landed' \subseteq landed \cup {o}
      /\ alive' \subseteq alive /\ alive \subseteq alive' \cup {o}
  BY DEF ProgramLands, ProgramStops
<1>6. TypeOK' BY <1>1, <1>2, <1>3, <1>5 DEF IInv, TypeOK
<1>7. OrderFits' BY <1>1, OrderKept
<1>8. \A p \in Ops \ {o} : Untouched(p) BY <1>1, <1>2, <1>5 DEF Untouched
<1>9. JournalFits(o)' BY <1>1, <1>2 DEF IInv, JournalFits, InFlight
<1>10. WorldFits(o)' BY <1>1, <1>3, <1>4, <1>5 DEF IInv, WorldFits
<1>11. RefFits(o)' BY <1>3 DEF RefFits
<1>12. ReceiptFits(o)' BY <1>1, <1>2 DEF IInv, ReceiptFits
<1>. QED BY <1>1, <1>6, <1>7, <1>8, <1>9, <1>10, <1>11, <1>12, StepOfOne

LEMMA IntrudeKeeps == ASSUME IInv, NEW t, Intrude(t) PROVE IInv'
<1>. USE DEF Intrude, process, journal
<1>1. UNCHANGED Journaled BY JournaledStays
<1>2. TypeOK' BY <1>1 DEF IInv, TypeOK
<1>3. OrderFits' BY OrderKept
<1>4. ASSUME NEW p \in Ops
      PROVE  JournalFits(p)' /\ WorldFits(p)' /\ RefFits(p)' /\ ReceiptFits(p)'
  <2>1. Untouched(p) BY <1>1 DEF Untouched
  <2>2. Target[p] \in DOMAIN ref /\ Foreign # NewHead[p]
    BY EffectsAssumption DEF IInv, TypeOK
  <2>3. ref'[Target[p]] \in {ref[Target[p]], Foreign} BY <2>2
  <2>4. RefFits(p)' BY <1>1, <2>2, <2>3 DEF IInv, RefFits, Unresolved
  <2>. QED BY <2>1, <2>4, UntouchedKeeps
<1>. QED BY <1>2, <1>3, <1>4 DEF IInv

\* The steps of the process as a whole: a close, a death, a resume.
LEMMA ProcessKeeps ==
    ASSUME IInv, Close \/ Crash \/ Resume \/ Activate \/ Refused \/ StartPump
    PROVE  IInv'
<1>. USE DEF process, journal, world
<1>1. UNCHANGED <<journal, receipt, world>>
  BY DEF Close, Crash, Resume, Activate, Refused, StartPump
<1>2. UNCHANGED Journaled BY <1>1, JournaledStays
<1>3. pc' = pc \/ (pc' = [o \in Ops |-> "idle"] /\ mode' = "down")
  BY DEF Close, Crash, Resume, Activate, Refused, StartPump
<1>4. TypeOK'
  <2>. TypeOK BY DEF IInv
  <2>1. CASE Close BY <1>1, <1>2, <2>1 DEF TypeOK, Close
  <2>2. CASE Crash
    <3>1. lane' \in [Keys -> Seq(Ops)]
      <4>1. <<>> \in Seq(Ops) OBVIOUS
      <4>. QED BY <2>2, <4>1 DEF Crash
    <3>. QED BY <1>1, <1>2, <2>2, <3>1 DEF TypeOK, Crash
  <2>3. CASE Resume BY <1>1, <1>2, <2>3, EffectsAssumption DEF TypeOK, Resume
  <2>4. CASE Activate BY <1>1, <1>2, <2>4 DEF TypeOK, Activate
  <2>5. CASE Refused BY <1>1, <1>2, <2>5 DEF TypeOK, Refused
  <2>6. CASE StartPump BY <1>1, <1>2, <2>6 DEF TypeOK, StartPump
  <2>. QED BY <2>1, <2>2, <2>3, <2>4, <2>5, <2>6
<1>5. OrderFits' BY <1>1, OrderKept
<1>6. ASSUME NEW p \in Ops
      PROVE  JournalFits(p)' /\ WorldFits(p)' /\ RefFits(p)' /\ ReceiptFits(p)'
  <2>1. pc'[p] = "idle" \/ pc'[p] = pc[p] BY <1>3
  <2>2. pc'[p] # "idle" => mode' = "running"
    <3>1. CASE Close BY <3>1 DEF IInv, JournalFits, Close
    <3>2. CASE Crash BY <3>2 DEF Crash
    <3>3. CASE Resume \/ Activate \/ Refused \/ StartPump
      BY <3>3 DEF IInv, JournalFits, Resume, Activate, Refused, StartPump
    <3>. QED BY <3>1, <3>2, <3>3
  <2>3. JournalFits(p)' BY <1>1, <1>2, <2>1, <2>2 DEF IInv, JournalFits, InFlight
  <2>4. WorldFits(p)' BY <1>1, <2>1 DEF IInv, WorldFits
  <2>5. RefFits(p)' BY <1>1, <1>2 DEF IInv, RefFits, Unresolved
  <2>6. ReceiptFits(p)'
    <3>1. /\ mode' \in {"running", "down"} => plan'[p] = "none"
          /\ plan'[p] \in {"none", plan[p]}
      BY DEF IInv, ReceiptFits, Close, Crash, Resume, Activate, Refused, StartPump
    <3>2. mode' = "activating" /\ receipt'[p] = "pending" =>
            plan'[p] \in {"completed", "failed", "interrupted"}
      BY DEF CanActivate, Pending, Close, Crash, Resume, Activate, Refused, StartPump
    <3>. QED BY <1>1, <1>2, <3>1, <3>2 DEF IInv, ReceiptFits
  <2>. QED BY <2>3, <2>4, <2>5, <2>6
<1>. QED BY <1>4, <1>5, <1>6 DEF IInv

\* What a reconciliation sees of an unresolved operation is so.
LEMMA ObservationsAreTrue ==
    ASSUME IInv, NEW o \in Ops, o \in prepared \cap Unresolved,
           NEW outcome \in Observations(o)
    PROVE  /\ outcome \in Settlements \ {"none"}
           /\ outcome = "applied" => o \in landed
           /\ outcome = "not_applied" => o \notin landed /\ o \notin alive
<1>1. /\ Kind[o] \in {"git", "remote", "program"}
      /\ Prior[o] # NewHead[o] /\ Foreign \notin {Prior[o], NewHead[o]}
      /\ o \in alive => Kind[o] = "program"
  BY EffectsAssumption DEF IInv, WorldFits
<1>2. CASE Kind[o] = "git"
  <2>1. outcome \in {"uncertain"} \cup (IF ref[Target[o]] = NewHead[o] THEN {"applied"}
                            ELSE IF ref[Target[o]] = Prior[o] THEN {"not_applied"} ELSE {})
    BY <1>2 DEF Observations
  <2>. QED BY <1>1, <1>2, <2>1 DEF IInv, RefFits, Settlements
<1>3. CASE Kind[o] = "program" /\ o \in alive
  <2>1. outcome = "uncertain" BY <1>3 DEF Observations
  <2>. QED BY <2>1 DEF Settlements
<1>4. CASE Kind[o] # "git" /\ ~(Kind[o] = "program" /\ o \in alive)
  <2>1. outcome \in {"uncertain", IF o \in landed THEN "applied" ELSE "not_applied"}
    BY <1>4 DEF Observations
  <2>. QED BY <1>1, <1>4, <2>1 DEF Settlements
<1>. QED BY <1>2, <1>3, <1>4

LEMMA RecoverUnintendedKeeps ==
    ASSUME IInv, NEW o \in Ops, RecoverUnintended(o) PROVE IInv'
<1>. USE DEF RecoverUnintended, journal, world
<1>1. UNCHANGED Journaled BY JournaledStays
<1>2. TypeOK' BY <1>1 DEF IInv, TypeOK
<1>3. OrderFits' BY OrderKept
<1>4. \A p \in Ops \ {o} : Untouched(p) BY <1>1 DEF IInv, TypeOK, Untouched
<1>5. plan'[o] = "interrupted" /\ o \notin Journaled BY DEF IInv, TypeOK
<1>6. JournalFits(o)' BY <1>1 DEF IInv, JournalFits, InFlight
<1>7. WorldFits(o)' /\ RefFits(o)' BY <1>1 DEF IInv, WorldFits, RefFits, Unresolved
<1>8. ReceiptFits(o)' BY <1>1, <1>5 DEF IInv, ReceiptFits
<1>. QED BY <1>2, <1>3, <1>4, <1>6, <1>7, <1>8, StepOfOne

LEMMA ReconcileKeeps == ASSUME IInv, NEW o \in Ops, Reconcile(o) PROVE IInv'
<1>. USE DEF Reconcile, world
<1>1. UNCHANGED Journaled BY JournaledStays
<1>2. PICK outcome \in IF o \notin Unresolved THEN {settled[o]}
                       ELSE IF o \notin prepared THEN {"not_applied"}
                       ELSE Observations(o) :
        /\ settled' = [settled EXCEPT ![o] = outcome]
        /\ plan' = [plan EXCEPT ![o] = Derived(outcome)]
  OBVIOUS
<1>3. /\ o \in Journaled /\ receipt[o] = "pending" /\ mode = "recovering"
      /\ pc[o] = "idle" /\ landed \subseteq prepared /\ alive \subseteq prepared
  BY DEF IInv, TypeOK, JournalFits, Pending
<1>4. /\ outcome \in Settlements \ {"none"}
      /\ outcome = "applied" => o \in landed
      /\ outcome = "not_applied" => o \notin landed /\ o \notin alive
      /\ o \notin Unresolved => outcome = settled[o]
  <2>1. CASE o \notin Unresolved
    BY <1>2, <1>3, <2>1 DEF IInv, TypeOK, Unresolved, WorldFits
  <2>2. CASE o \in Unresolved /\ o \notin prepared
    BY <1>2, <1>3, <2>2 DEF Settlements
  <2>3. CASE o \in Unresolved /\ o \in prepared
    BY <1>2, <2>3, ObservationsAreTrue
  <2>. QED BY <2>1, <2>2, <2>3
<1>5. /\ Derived(outcome) \in {"completed", "failed", "blocked"}
      /\ Derived(outcome) = "completed" => outcome = "applied"
      /\ Derived(outcome) = "failed" => outcome = "not_applied"
  BY <1>4 DEF Derived, Settlements
<1>6. settled'[o] = outcome /\ plan'[o] = Derived(outcome)
  BY <1>2 DEF IInv, TypeOK
<1>7. TypeOK' BY <1>1, <1>2, <1>4, <1>5 DEF IInv, TypeOK
<1>8. OrderFits'
  <2>1. settled[o] \in Definite => settled'[o] = settled[o]
    BY <1>4, <1>6 DEF Unresolved, Definite
  <2>2. \A p \in Ops \ {o} : settled'[p] = settled[p] BY <1>2 DEF IInv, TypeOK
  <2>. QED BY <2>1, <2>2, OrderKept
<1>9. \A p \in Ops \ {o} : Untouched(p) BY <1>1, <1>2 DEF IInv, TypeOK, Untouched
<1>10. JournalFits(o)' BY <1>1, <1>3 DEF JournalFits, InFlight
<1>11. WorldFits(o)' BY <1>3, <1>4, <1>6 DEF IInv, WorldFits
<1>12. RefFits(o)' BY <1>1, <1>4, <1>6 DEF IInv, RefFits, Unresolved, Settlements
<1>13. ReceiptFits(o)' BY <1>1, <1>3, <1>5, <1>6 DEF IInv, ReceiptFits
<1>. QED BY <1>7, <1>8, <1>9, <1>10, <1>11, <1>12, <1>13, StepOfOne

\* The resume that fails may leave its settlement behind.
LEMMA ReconcileLostKeeps ==
    ASSUME IInv, NEW o \in Ops, ReconcileLost(o) PROVE IInv'
<1>. USE DEF ReconcileLost, world
<1>1. UNCHANGED Journaled BY JournaledStays
<1>2. PICK outcome \in IF o \in prepared THEN Observations(o) ELSE {"not_applied"} :
        settled' \in {settled, [settled EXCEPT ![o] = outcome]}
  OBVIOUS
<1>3. /\ o \in Unresolved /\ mode = "recovering" /\ mode' = "down"
      /\ landed \subseteq prepared /\ alive \subseteq prepared
  BY DEF IInv, TypeOK
<1>4. /\ outcome \in Settlements \ {"none"}
      /\ outcome = "applied" => o \in landed
      /\ outcome = "not_applied" => o \notin landed /\ o \notin alive
  <2>1. CASE o \notin prepared BY <1>2, <1>3, <2>1 DEF Settlements
  <2>2. CASE o \in prepared BY <1>2, <1>3, <2>2, ObservationsAreTrue
  <2>. QED BY <2>1, <2>2
<1>5. /\ settled'[o] \in {settled[o], outcome}
      /\ \A p \in Ops \ {o} : settled'[p] = settled[p]
      /\ \A p \in Ops : plan'[p] = "none"
  BY <1>2 DEF IInv, TypeOK
<1>6. TypeOK' BY <1>1, <1>2, <1>4 DEF IInv, TypeOK
<1>7. OrderFits' BY <1>3, <1>5, OrderKept DEF Unresolved, Definite
<1>8. ASSUME NEW p \in Ops
      PROVE  JournalFits(p)' /\ WorldFits(p)' /\ RefFits(p)' /\ ReceiptFits(p)'
  <2>1. pc[p] = "idle" /\ (p = o => p \in Journaled /\ settled[p] \notin Definite)
    BY <1>3 DEF IInv, JournalFits, Unresolved, Definite
  <2>2. JournalFits(p)' BY <1>1, <1>5, <2>1 DEF IInv, JournalFits, InFlight
  <2>3. WorldFits(p)' BY <1>4, <1>5, <2>1 DEF IInv, WorldFits
  <2>4. RefFits(p)'
    <3>1. p \in Unresolved' => p \in Unresolved BY <1>1, <1>3, <1>5 DEF Unresolved
    <3>. QED BY <3>1 DEF IInv, RefFits
  <2>5. ReceiptFits(p)'
    BY <1>1, <1>3, <1>5, <2>1 DEF IInv, ReceiptFits, Pending, Definite
  <2>. QED BY <2>2, <2>3, <2>4, <2>5
<1>. QED BY <1>6, <1>7, <1>8 DEF IInv

LEMMA AppendReceiptKeeps ==
    ASSUME IInv, NEW o \in Ops, AppendReceipt(o) PROVE IInv'
<1>. USE DEF AppendReceipt, process, journal, world
<1>1. UNCHANGED Journaled BY JournaledStays
<1>2. /\ receipt[o] = "pending" /\ pc[o] = "idle" /\ mode = "activating"
      /\ plan[o] \in {"completed", "failed", "interrupted"}
  BY DEF IInv, JournalFits, ReceiptFits, Pending
<1>3. receipt'[o] = plan[o] BY <1>2 DEF IInv, TypeOK
<1>4. TypeOK' BY <1>1, <1>2 DEF IInv, TypeOK
<1>5. OrderFits' BY OrderKept
<1>6. \A p \in Ops \ {o} : Untouched(p) BY <1>1 DEF IInv, TypeOK, Untouched
<1>7. JournalFits(o)' BY <1>1, <1>2 DEF IInv, JournalFits, InFlight
<1>8. WorldFits(o)' /\ RefFits(o)' BY <1>1 DEF IInv, WorldFits, RefFits, Unresolved
<1>9. ReceiptFits(o)' BY <1>1, <1>2, <1>3 DEF IInv, ReceiptFits
<1>. QED BY <1>4, <1>5, <1>6, <1>7, <1>8, <1>9, StepOfOne

-----------------------------------------------------------------------------
(* The invariant.                                                          *)

LEMMA InitialInvariant == Init => IInv
<1>. SUFFICES ASSUME Init PROVE IInv OBVIOUS
<1>. USE DEF Init
<1>1. Journaled = {} BY DEF Journaled, Range
<1>2. TypeOK
  <2>1. <<>> \in Seq(Ops) OBVIOUS
  <2>2. lane \in [Keys -> Seq(Ops)] BY <2>1
  <2>3. life \in 1..MaxLives BY EffectsAssumption
  <2>4. intents \in Seq(Ops) BY <2>1
  <2>. QED BY <1>1, <2>2, <2>3, <2>4 DEF TypeOK, Settlements
<1>3. OrderFits BY DEF OrderFits
<1>4. \A o \in Ops : JournalFits(o) /\ WorldFits(o) /\ RefFits(o) /\ ReceiptFits(o)
  BY <1>1 DEF JournalFits, WorldFits, RefFits, ReceiptFits, InFlight
<1>. QED BY <1>2, <1>3, <1>4 DEF IInv

LEMMA InvariantStep == IInv /\ [Next]_vars => IInv'
<1>. SUFFICES ASSUME IInv, [Next]_vars PROVE IInv' OBVIOUS
<1>1. ASSUME NEW o \in Ops, Dispatch(o) PROVE IInv' BY <1>1, DispatchKeeps
<1>2. ASSUME NEW o \in Ops, Execute(o) PROVE IInv'
  BY <1>2, JoinLaneKeeps, RejectedKeeps, RefuseKeeps, AdmitKeeps, PrepareKeeps,
     ExecutionKeeps, WriteKeeps, SettleKeeps, ReportKeeps DEF Execute
<1>3. ASSUME NEW o \in Ops, Recover(o) PROVE IInv'
  BY <1>3, RecoverUnintendedKeeps, ReconcileKeeps, ReconcileLostKeeps,
     AppendReceiptKeeps DEF Recover
<1>4. ASSUME NEW o \in Ops, ProgramLands(o) \/ ProgramStops(o) PROVE IInv'
  BY <1>4, ProgramKeeps
<1>5. ASSUME NEW t \in DOMAIN ref, Intrude(t) PROVE IInv' BY <1>5, IntrudeKeeps
<1>6. CASE Close \/ Crash \/ Resume \/ Activate \/ Refused \/ StartPump
  BY <1>6, ProcessKeeps
<1>7. CASE UNCHANGED vars
  <2>. USE DEF vars
  <2>1. UNCHANGED <<vars, Journaled>> BY <1>7, JournaledStays
  <2>2. TypeOK' BY <2>1 DEF IInv, TypeOK
  <2>3. OrderFits' BY <2>1, OrderKept
  <2>4. \A p \in Ops : Untouched(p) BY <2>1 DEF Untouched
  <2>. QED BY <2>1, <2>2, <2>3, <2>4, UntouchedKeeps DEF IInv
<1>. QED BY <1>1, <1>2, <1>3, <1>4, <1>5, <1>6, <1>7 DEF Next

THEOREM Invariant == Spec => []IInv
BY InitialInvariant, InvariantStep, PTL DEF Spec

\* Journal, receipts and the plan of a recovery agree with the world: what is
\* settled applied has landed, what is settled not applied never lands, receipts
\* say the same, and nothing is unsettled when an activation begins.
THEOREM RecordsTellTheTruth == Spec => []RecordsAreTrue
<1>1. IInv => RecordsAreTrue
  <2>. SUFFICES ASSUME IInv PROVE RecordsAreTrue OBVIOUS
  <2>1. TypeOK BY DEF IInv
  <2>2. JournalIsTrue BY DEF IInv, WorldFits, JournalIsTrue
  <2>3. ReceiptsAreTrue BY DEF IInv, TypeOK, WorldFits, ReceiptFits, ReceiptsAreTrue
  <2>4. ActivatesSettled
    <3>1. SUFFICES ASSUME mode = "activating", NEW o \in Unresolved PROVE FALSE
      BY DEF ActivatesSettled
    <3>2. o \in Ops /\ o \in Journaled /\ settled[o] \in {"none", "uncertain"}
      BY JournaledIsOps DEF IInv, Unresolved
    <3>3. receipt[o] = "pending" BY <3>2 DEF IInv, TypeOK, ReceiptFits
    <3>. QED BY <3>1, <3>2, <3>3 DEF IInv, ReceiptFits
  <2>. QED BY <2>1, <2>2, <2>3, <2>4 DEF RecordsAreTrue
<1>. QED BY <1>1, Invariant, PTL

\* A logical effect happens at most once, for any number of retries of it in any
\* number of activations.
THEOREM EffectsHappenOnce == Spec => []AppliedOnce
<1>1. IInv => AppliedOnce
  <2>. SUFFICES ASSUME IInv, NEW o \in landed, NEW p \in landed,
                       Logical[o] = Logical[p]
                PROVE  o = p
    BY DEF AppliedOnce
  <2>1. /\ o \in Ops /\ p \in Ops /\ o \in Journaled /\ p \in Journaled
        /\ settled[o] # "not_applied" /\ settled[p] # "not_applied"
    BY JournaledIsOps DEF IInv, TypeOK, WorldFits
  <2>2. PICK i \in DOMAIN intents : intents[i] = o BY <2>1, JournaledIs
  <2>3. PICK j \in DOMAIN intents : intents[j] = p BY <2>1, JournaledIs
  <2>4. i \in Int /\ j \in Int BY LenProperties DEF IInv, TypeOK
  <2>5. ~(i < j) /\ ~(j < i) BY <2>1, <2>2, <2>3 DEF IInv, OrderFits
  <2>. QED BY <2>2, <2>3, <2>4, <2>5
<1>. QED BY <1>1, Invariant, PTL

\* Two operations that share a lane are never both between their intent and a
\* definite settlement, in one process or across a restart.
THEOREM LanesExclude == Spec => []LaneExclusion
<1>1. IInv => LaneExclusion
  <2>. SUFFICES ASSUME IInv, NEW o \in Unresolved, NEW p \in Unresolved, o # p
                PROVE  Range(Declared[o]) \cap Range(Declared[p]) = {}
    BY DEF LaneExclusion
  <2>. QED BY UnresolvedApart
<1>. QED BY <1>1, Invariant, PTL
=============================================================================
