-------------------------- MODULE ControllerEffects --------------------------
(***************************************************************************)
(* The effects of a controller: writes to Git refs, remote services and    *)
(* local programs that an adapter action asks for, and their journal.      *)
(*                                                                         *)
(*   src/src/host/controller/effect-broker.ts          execute, reconcile  *)
(*   src/src/host/controller/effect-broker-support.ts  lanes, settlements  *)
(*   src/src/host/controller/action-dispatcher.ts      the receipts        *)
(*   src/src/host/controller/production-effects.ts     effects of actions  *)
(*   src/src/host/controller/production-recovery.ts    the resume          *)
(*   src/src/persistence/controller-effect-timeline.ts the journal's rules *)
(*                                                                         *)
(* An operation is journaled as an intent, a prepared postcondition and a  *)
(* settlement.  It runs inside the lanes of the resources it conflicts     *)
(* over, which are promise chains of one process; the journal keeps the    *)
(* lanes closed across processes.  The write itself may land, be refused,  *)
(* or leave its caller without an answer, a process may die between any    *)
(* two steps, and an append may throw with its record on disk or not.      *)
(*                                                                         *)
(* Simplifications.  An operation stands for one action and its request;   *)
(* the sandboxed adapter that produced the request has ended.  A ref is a  *)
(* value; requests, digests and authorities that do not match are the      *)
(* failures of Refuse and of FailEarly.  The process records of a local    *)
(* program are what is known of `alive'.  A write to a ref or a service    *)
(* that is under way when its process dies, or when its answer is given    *)
(* up, has landed or never will once somebody observes it; nobody puts a   *)
(* ref back to a value it had before.                                      *)
(***************************************************************************)
EXTENDS Naturals, Sequences, FiniteSets, Functions

CONSTANTS Ops,        \* the operations the planner may ask for
          Declared,   \* the conflict lanes of an operation, as its grant lists them
          Logical,    \* its logical effect: a retry has the one of its original
          Target,     \* the ref it writes
          Prior,      \* the value it expects there
          NewHead,    \* the value it puts there
          Kind,       \* who performs it: git, a remote service or a local program
          Refs,       \* the initial value of every ref
          Foreign,    \* a value nobody in the run writes
          MaxActions, \* bound: actions the planner asks for
          MaxLives    \* bound: processes of the run

ASSUME EffectsAssumption ==
    /\ Declared \in [Ops -> Seq(Nat)]
    /\ Target \in [Ops -> DOMAIN Refs]
    /\ Kind \in [Ops -> {"git", "remote", "program"}]
    /\ MaxActions \in Nat /\ MaxLives \in Nat \ {0}
    /\ \A o \in Ops : /\ Declared[o] # <<>>
                      /\ Prior[o] # NewHead[o] /\ Foreign \notin {Prior[o], NewHead[o]}

\* effectLane: the lane of a ref is the ref, whatever else an operation locks.
ASSUME LaneOfRefAssumption ==
    \A o, p \in {q \in Ops : Kind[q] # "program"} :
        Target[o] = Target[p] => Range(Declared[o]) \cap Range(Declared[p]) # {}

VARIABLES
    mode,      \* the process: running, down, recovering or activating
    life,      \* how many processes there have been
    open,      \* the activation's fence admits new effects
    poisoned,  \* the broker has lost an append
    lane,      \* [key -> the operations in line, the first one inside]
    pc,        \* [operation -> where its execution is]
    intents,   \* journal: the intents in their order
    prepared,  \* journal: the operations with a prepared record
    settled,   \* journal: [operation -> its last settlement]
    receipt,   \* journal: [operation -> the last receipt of its action]
    plan,      \* [operation -> the receipt a resume has derived]
    ref,       \* the world: [ref -> value]
    alive,     \* the world: the operations whose program is running
    landed     \* the world: the operations whose write took effect

vars == <<mode, life, open, poisoned, lane, pc, intents, prepared, settled,
          receipt, plan, ref, alive, landed>>
journal == <<intents, prepared, settled>>
world == <<ref, alive, landed>>
process == <<mode, life, plan>>

Keys == UNION {Range(Declared[o]) : o \in Ops}
Journaled == Range(intents)
Pending == {o \in Ops : receipt[o] = "pending"}

\* An intent without a definite settlement.
Unresolved == {o \in Journaled : settled[o] \in {"none", "uncertain"}}

Init ==
    /\ mode = "running" /\ life = 1 /\ open = TRUE /\ poisoned = FALSE
    /\ lane = [k \in Keys |-> <<>>]
    /\ pc = [o \in Ops |-> "idle"]
    /\ intents = <<>> /\ prepared = {}
    /\ settled = [o \in Ops |-> "none"]
    /\ receipt = [o \in Ops |-> "none"]
    /\ plan = [o \in Ops |-> "none"]
    /\ ref = Refs /\ alive = {} /\ landed = {}

-----------------------------------------------------------------------------
(* Lanes: inEffectLanes takes the sorted keys one after the other.         *)

Missing(o) == {k \in Range(Declared[o]) : o \notin Range(lane[k])}

\* Mutant: the lanes in the order the grant lists them.
NextKeyDeclared(o) ==
    LET left == {i \in DOMAIN Declared[o] : Declared[o][i] \in Missing(o)}
    IN  Declared[o][CHOOSE i \in left : \A j \in left : i <= j]

NextKey(o) == CHOOSE k \in Missing(o) : \A other \in Missing(o) : k <= other

Inside(o, k) == lane[k] # <<>> /\ Head(lane[k]) = o
InLine(o) == {k \in Range(Declared[o]) : o \in Range(lane[k])}
HoldsItsPlace(o) == \A k \in InLine(o) : Inside(o, k)
HoldsAll(o) == Missing(o) = {} /\ HoldsItsPlace(o)

\* An execution ends inside every lane it is in, and lets the next one in.
Released(o) == [k \in Keys |-> IF Inside(o, k) THEN Tail(lane[k]) ELSE lane[k]]

\* The next lane is joined when those before it are held.
JoinLane(o) ==
    /\ pc[o] = "waiting" /\ Missing(o) # {} /\ HoldsItsPlace(o)
    /\ lane' = [lane EXCEPT ![NextKey(o)] = Append(@, o)]
    /\ UNCHANGED <<process, open, poisoned, pc, journal, receipt, world>>

-----------------------------------------------------------------------------
(* The journal.                                                            *)

\* The last of the operations of S that has an intent.
Latest(S) ==
    LET found == {i \in DOMAIN intents : intents[i] \in S}
    IN  {intents[i] : i \in {j \in found : \A k \in found : k <= j}}

SameEffect(o) == {p \in Ops : Logical[p] = Logical[o]}
InLane(k) == {p \in Ops : k \in Range(Declared[p])}

\* Mutant: an uncertain operation does not keep its lanes closed.
AdmissibleUncertain(o) ==
    /\ o \notin Journaled
    /\ \A p \in Latest(SameEffect(o)) : settled[p] = "not_applied"
    /\ \A k \in Range(Declared[o]) : \A p \in Latest(InLane(k)) : settled[p] # "none"
\* Mutant: a logical effect may be asked for again.
AdmissibleTwice(o) ==
    /\ o \notin Journaled
    /\ \A k \in Range(Declared[o]) : Latest(InLane(k)) \cap Unresolved = {}

\* reconstructControllerEffectTimeline accepts the journal with this intent.
Admissible(o) ==
    /\ o \notin Journaled
    /\ \A p \in Latest(SameEffect(o)) : settled[p] = "not_applied"
    /\ \A k \in Range(Declared[o]) : Latest(InLane(k)) \cap Unresolved = {}

\* The execution of o is over: its lanes are released.
Leave(o, where) ==
    /\ pc' = [pc EXCEPT ![o] = where]
    /\ lane' = Released(o)

\* onFatal: the session fails and closes its fence, the action gets no receipt.
Fatal(o) == Leave(o, "idle") /\ open' = FALSE

\* An append threw: the broker takes nothing more in this process.
Poison(o) == poisoned' = TRUE /\ Fatal(o)

-----------------------------------------------------------------------------
(* execute.                                                                *)

\* The action is committed, its receipt pending, its adapter has published.
Dispatch(o) ==
    /\ mode = "running" /\ open /\ receipt[o] = "none"
    /\ Cardinality({p \in Ops : receipt[p] # "none"}) < MaxActions
    /\ receipt' = [receipt EXCEPT ![o] = "pending"]
    /\ pc' = [pc EXCEPT ![o] = "waiting"]
    /\ UNCHANGED <<process, open, poisoned, lane, journal, world>>

\* A broken broker refuses at the door.
Rejected(o) ==
    /\ pc[o] = "waiting" /\ poisoned /\ InLine(o) = {}
    /\ open' = FALSE
    /\ pc' = [pc EXCEPT ![o] = "idle"]
    /\ UNCHANGED <<process, lane, poisoned, journal, receipt, world>>

\* Closed, out of time, without authority or refused by the timeline: no
\* intent was journaled, so the action has failed.
Refuse(o) ==
    /\ pc[o] = "waiting" /\ HoldsAll(o)
    /\ receipt' = [receipt EXCEPT ![o] = "failed"]
    /\ Leave(o, "idle")
    /\ UNCHANGED <<process, open, poisoned, journal, world>>

Admit(o) ==
    /\ pc[o] = "waiting" /\ HoldsAll(o) /\ open /\ Admissible(o)
    /\ \/ /\ ~poisoned
          /\ intents' = Append(intents, o)
          /\ pc' = [pc EXCEPT ![o] = "intended"]
          /\ UNCHANGED <<open, poisoned, lane>>
       \/ /\ ~poisoned /\ intents' \in {intents, Append(intents, o)}
          /\ Poison(o)
       \/ /\ poisoned /\ Fatal(o)
          /\ UNCHANGED <<intents, poisoned>>
    /\ UNCHANGED <<process, prepared, settled, receipt, world>>

Prepare(o) ==
    /\ pc[o] = "intended" /\ open
    /\ Kind[o] = "git" => ref[Target[o]] = Prior[o]
    /\ \/ /\ ~poisoned
          /\ prepared' = prepared \cup {o}
          /\ pc' = [pc EXCEPT ![o] = "prepared"]
          /\ UNCHANGED <<open, poisoned, lane>>
       \/ /\ ~poisoned /\ prepared' \in {prepared, prepared \cup {o}}
          /\ Poison(o)
       \/ /\ poisoned /\ Fatal(o)
          /\ UNCHANGED <<prepared, poisoned>>
    /\ UNCHANGED <<process, intents, settled, receipt, world>>

\* dispatchEffect throws before it has prepared, for whatever reason.
FailEarly(o) ==
    /\ pc[o] = "intended"
    /\ pc' = [pc EXCEPT ![o] = "refused"]
    /\ UNCHANGED <<process, open, poisoned, lane, journal, receipt, world>>

\* A ref takes the value if it has the expected one; the caller may miss the
\* answer, and the activation may close before anything is sent.
Write(o) ==
    /\ pc[o] = "prepared" /\ Kind[o] # "program"
    /\ \/ /\ open /\ ref[Target[o]] = Prior[o]
          /\ ref' = [ref EXCEPT ![Target[o]] = NewHead[o]]
          /\ landed' = landed \cup {o}
          /\ \E where \in {"landed", "failed"} : pc' = [pc EXCEPT ![o] = where]
       \/ /\ pc' = [pc EXCEPT ![o] = "failed"]
          /\ UNCHANGED <<ref, landed>>
       \/ /\ Kind[o] = "remote" /\ open
          /\ pc' = [pc EXCEPT ![o] = "refused"]
          /\ UNCHANGED <<ref, landed>>
    /\ UNCHANGED <<process, open, poisoned, lane, journal, receipt, alive>>

\* A local program is released once its process is journaled, or fails before.
StartProgram(o) ==
    /\ pc[o] = "prepared" /\ Kind[o] = "program"
    /\ \/ /\ open /\ alive' = alive \cup {o}
          /\ pc' = [pc EXCEPT ![o] = "released"]
       \/ /\ pc' = [pc EXCEPT ![o] = "failed"]
          /\ UNCHANGED alive
    /\ UNCHANGED <<process, open, poisoned, lane, journal, receipt, ref, landed>>

\* Its answer counts when nothing of it is left running; after a deadline or an
\* abort, or when its end cannot be confirmed, nothing is known.
ProgramAnswers(o) ==
    /\ pc[o] = "released"
    /\ \/ /\ o \notin alive
          /\ pc' = [pc EXCEPT ![o] = IF o \in landed THEN "landed" ELSE "refused"]
       \/ pc' = [pc EXCEPT ![o] = "failed"]
    /\ UNCHANGED <<process, open, poisoned, lane, journal, receipt, world>>

Outcome(o) ==
    CASE pc[o] = "landed" -> "applied"
      [] pc[o] = "failed" -> "uncertain"
      [] pc[o] = "refused" -> "not_applied"

\* A settlement is taken in a closing activation too.
Settle(o) ==
    /\ pc[o] \in {"landed", "failed", "refused"}
    /\ \/ /\ ~poisoned
          /\ settled' = [settled EXCEPT ![o] = Outcome(o)]
          /\ Leave(o, "settled")
          /\ UNCHANGED <<open, poisoned>>
       \/ /\ ~poisoned /\ settled' \in {settled, [settled EXCEPT ![o] = Outcome(o)]}
          /\ Poison(o)
       \/ /\ poisoned /\ Fatal(o)
          /\ UNCHANGED <<settled, poisoned>>
    /\ UNCHANGED <<process, intents, prepared, receipt, world>>

\* publishSettlement and the receipt.  A success needs the open fence; what
\* cannot be told is left to the resume.
Report(o) ==
    /\ pc[o] = "settled"
    /\ pc' = [pc EXCEPT ![o] = "idle"]
    /\ \/ /\ settled[o] = "applied" /\ open
          /\ receipt' = [receipt EXCEPT ![o] = "completed"]
          /\ UNCHANGED open
       \/ /\ settled[o] = "not_applied"
          /\ receipt' = [receipt EXCEPT ![o] = "failed"]
          /\ UNCHANGED open
       \/ /\ open' = FALSE
          /\ receipt' \in {receipt} \cup
                {[receipt EXCEPT ![o] = r] : r \in CASE settled[o] = "applied" -> {"completed"}
                                                     [] settled[o] = "not_applied" -> {"failed"}
                                                     [] OTHER -> {}}
    /\ UNCHANGED <<process, poisoned, lane, journal, world>>

-----------------------------------------------------------------------------
(* The end of a process, and whoever else writes a ref.                    *)

Close ==
    /\ mode = "running" /\ open /\ open' = FALSE
    /\ UNCHANGED <<process, poisoned, lane, pc, journal, receipt, world>>

Crash ==
    /\ mode # "down" /\ mode' = "down"
    /\ open' = FALSE /\ poisoned' = FALSE
    /\ lane' = [k \in Keys |-> <<>>]
    /\ pc' = [o \in Ops |-> "idle"]
    /\ plan' = [o \in Ops |-> "none"]
    /\ UNCHANGED <<life, journal, receipt, world>>

\* A program works on whether or not the host that released it still lives.
ProgramLands(o) ==
    /\ o \in alive \ landed
    /\ landed' = landed \cup {o}
    /\ UNCHANGED <<process, open, poisoned, lane, pc, journal, receipt, ref, alive>>

ProgramStops(o) ==
    /\ o \in alive
    /\ alive' = alive \ {o}
    /\ UNCHANGED <<process, open, poisoned, lane, pc, journal, receipt, ref, landed>>

Intrude(t) ==
    /\ \A u \in DOMAIN ref : ref[u] # Foreign
    /\ ref' = [ref EXCEPT ![t] = Foreign]
    /\ UNCHANGED <<process, open, poisoned, lane, pc, journal, receipt, alive, landed>>

-----------------------------------------------------------------------------
(* The resume: every effect is settled before the next activation starts.  *)

Resume ==
    /\ mode = "down" /\ life < MaxLives
    /\ mode' = "recovering" /\ life' = life + 1
    /\ UNCHANGED <<open, poisoned, lane, pc, journal, receipt, plan, world>>

\* Mutant: a program that still runs is asked what it has done.
ObservationsLive(o) ==
    {"uncertain", IF o \in landed THEN "applied" ELSE "not_applied"}

\* What a reconciliation may see; it looks and never writes.  A service and a
\* program answer for themselves, a program only when no earlier process of it
\* is left; of a ref there is its value.
Observations(o) ==
    {"uncertain"} \cup
    CASE Kind[o] = "git" -> IF ref[Target[o]] = NewHead[o] THEN {"applied"}
                            ELSE IF ref[Target[o]] = Prior[o] THEN {"not_applied"} ELSE {}
      [] Kind[o] = "program" /\ o \in alive -> {}
      [] OTHER -> {IF o \in landed THEN "applied" ELSE "not_applied"}

Derived(outcome) ==
    CASE outcome = "applied" -> "completed"
      [] outcome = "not_applied" -> "failed"
      [] outcome = "uncertain" -> "blocked"

\* No durable intent: nothing can have happened.
RecoverUnintended(o) ==
    /\ mode = "recovering" /\ o \in Pending \ Journaled /\ plan[o] = "none"
    /\ plan' = [plan EXCEPT ![o] = "interrupted"]
    /\ UNCHANGED <<mode, life, open, poisoned, lane, pc, journal, receipt, world>>

\* reconcile: a definite settlement stands; what was never prepared was not
\* applied; anything else is observed, and observed again by the second plan.
Reconcile(o) ==
    /\ mode = "recovering" /\ o \in Pending \cap Journaled /\ plan[o] \in {"none", "blocked"}
    /\ \E outcome \in IF o \notin Unresolved THEN {settled[o]}
                       ELSE IF o \notin prepared THEN {"not_applied"}
                       ELSE Observations(o) :
            /\ settled' = [settled EXCEPT ![o] = outcome]
            /\ plan' = [plan EXCEPT ![o] = Derived(outcome)]
    /\ UNCHANGED <<mode, life, open, poisoned, lane, pc, intents, prepared, receipt, world>>

\* The settlement of the reconciliation is lost: the resume fails.
ReconcileLost(o) ==
    /\ mode = "recovering" /\ o \in Pending \cap Unresolved /\ plan[o] \in {"none", "blocked"}
    /\ \E outcome \in IF o \in prepared THEN Observations(o) ELSE {"not_applied"} :
            settled' \in {settled, [settled EXCEPT ![o] = outcome]}
    /\ mode' = "down"
    /\ plan' = [p \in Ops |-> "none"]
    /\ UNCHANGED <<life, open, poisoned, lane, pc, intents, prepared, receipt, world>>

CanActivate == \A o \in Pending : plan[o] \in {"completed", "failed", "interrupted"}

\* appendControllerRecovery: the activation first, then the receipts.
Activate ==
    /\ mode = "recovering" /\ CanActivate
    /\ mode' = "activating"
    /\ UNCHANGED <<life, open, poisoned, lane, pc, journal, receipt, plan, world>>

Refused ==
    /\ mode = "recovering" /\ \E o \in Pending : plan[o] = "blocked"
    /\ \A o \in Pending : plan[o] # "none"
    /\ mode' = "down" /\ plan' = [o \in Ops |-> "none"]
    /\ UNCHANGED <<life, open, poisoned, lane, pc, journal, receipt, world>>

AppendReceipt(o) ==
    /\ mode = "activating" /\ o \in Pending
    /\ receipt' = [receipt EXCEPT ![o] = IF plan[o] = "blocked" THEN "failed" ELSE plan[o]]
    /\ UNCHANGED <<process, open, poisoned, lane, pc, journal, world>>

StartPump ==
    /\ mode = "activating" /\ Pending = {}
    /\ mode' = "running" /\ open' = TRUE
    /\ plan' = [o \in Ops |-> "none"]
    /\ UNCHANGED <<life, poisoned, lane, pc, journal, receipt, world>>

-----------------------------------------------------------------------------
Execute(o) == \/ JoinLane(o) \/ Rejected(o) \/ Refuse(o) \/ Admit(o)
              \/ Prepare(o) \/ FailEarly(o) \/ Write(o) \/ StartProgram(o)
              \/ ProgramAnswers(o) \/ Settle(o) \/ Report(o)

Recover(o) == RecoverUnintended(o) \/ Reconcile(o) \/ ReconcileLost(o) \/ AppendReceipt(o)

Next ==
    \/ \E o \in Ops : Dispatch(o) \/ Execute(o) \/ Recover(o)
                      \/ ProgramLands(o) \/ ProgramStops(o)
    \/ \E t \in DOMAIN ref : Intrude(t)
    \/ Close \/ Crash \/ Resume \/ Activate \/ Refused \/ StartPump

Spec == Init /\ [][Next]_vars

\* While an execution can take a step one does; requests have deadlines.
FairSpec == Spec /\ WF_vars(\E o \in Ops : Execute(o))

-----------------------------------------------------------------------------
Settlements == {"none", "applied", "not_applied", "uncertain"}

(* The variables have their types. *)
TypeOK ==
    /\ mode \in {"running", "down", "recovering", "activating"}
    /\ life \in 1..MaxLives /\ open \in BOOLEAN /\ poisoned \in BOOLEAN
    /\ lane \in [Keys -> Seq(Ops)]
    /\ pc \in [Ops -> {"idle", "waiting", "intended", "prepared",
                       "released", "landed", "failed", "refused", "settled"}]
    /\ intents \in Seq(Ops) /\ prepared \subseteq Journaled
    /\ settled \in [Ops -> Settlements]
    /\ receipt \in [Ops -> {"none", "pending", "completed", "failed", "interrupted"}]
    /\ plan \in [Ops -> {"none", "completed", "failed", "interrupted", "blocked"}]
    /\ DOMAIN ref = DOMAIN Refs /\ landed \subseteq prepared /\ alive \subseteq prepared

(* What the journal says for certain of the world is so, after any lost      *)
(* answer, lost append, closure and crash (effect-broker.ts:152-166).        *)
JournalIsTrue ==
    \A o \in Ops : /\ settled[o] = "applied" => o \in landed
                   /\ settled[o] = "not_applied" => o \notin landed

(* A logical effect happens once at most, however often it is asked for in   *)
(* however many activations (controller-effect-timeline.ts:51-53).           *)
AppliedOnce ==
    \A o, p \in landed : Logical[o] = Logical[p] => o = p

(* Two operations that share a resource are never both between their intent  *)
(* and a definite settlement, neither within a process nor across them       *)
(* (controller-effect-timeline.ts:54-58).                                    *)
LaneExclusion ==
    \A o, p \in Unresolved :
        o # p => Range(Declared[o]) \cap Range(Declared[p]) = {}

(* The planner is told the truth: an action completed exactly when its       *)
(* effect happened, and one that failed or was interrupted did nothing       *)
(* (action-dispatcher.ts:98-147, production-effects.ts:313-371).             *)
ReceiptsAreTrue ==
    \A o \in Ops : /\ receipt[o] = "completed" => o \in landed
                   /\ receipt[o] \in {"failed", "interrupted"} => o \notin landed

(* A new activation owns no unsettled effect of an older one: nothing that   *)
(* may still be unknown is left behind it (production-recovery.ts:43-123).   *)
ActivatesSettled == mode = "activating" => Unresolved = {}

(* Journal, receipts and the plan of a recovery agree with the world and     *)
(* with one another.                                                         *)
RecordsAreTrue == TypeOK /\ JournalIsTrue /\ ReceiptsAreTrue /\ ActivatesSettled

(* Lanes are taken in one order, so no two executions wait for each other    *)
(* and the dispatcher's settle, which a close awaits, comes to its end       *)
(* (effect-broker-support.ts:188-203, role-session.ts:78-92).                *)
BrokerDrains == (\E o \in Ops : pc[o] # "idle") ~> (\A o \in Ops : pc[o] = "idle")

=============================================================================
