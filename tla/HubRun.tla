------------------------------- MODULE HubRun -------------------------------
(***************************************************************************)
(* What a run promises to whoever reads its checkpoints, whatever crashes, *)
(* model failures, aborts and restarts happen underneath: control only     *)
(* moves between the hub and one spoke at a time, a spoke is entered at    *)
(* most max_visits times, nobody is dispatched once the spend has reached  *)
(* the run cap, and the run ends once, by a role that has the authority to *)
(* end it or by the run cost cap.                                          *)
(*                                                                         *)
(* RunLoop implements this specification (RunLoop!Promise).                *)
(***************************************************************************)
EXTENDS Naturals

CONSTANTS Orchestrator, Workers, Done, None, MaxVisits, Gated, EndRequestRoles, RunCap

VARIABLES
    role,    \* who holds control, or Done
    visits,  \* how often each worker was entered
    asker,   \* the worker whose end request is pending, or None
    spent    \* the accounted cost of the run

vars == <<role, visits, asker, spent>>

Init ==
    /\ role = Orchestrator
    /\ visits = [w \in Workers |-> 0]
    /\ asker = None
    /\ spent = 0

Dispatch(w) ==
    /\ role = Orchestrator
    /\ visits[w] < MaxVisits[w]
    /\ spent < RunCap
    /\ role' = w
    /\ visits' = [visits EXCEPT ![w] = @ + 1]
    /\ asker' = None
    /\ UNCHANGED spent

Return ==
    /\ role \in Workers
    /\ role' = Orchestrator
    /\ \/ asker' = asker
       \/ Gated /\ role \in EndRequestRoles /\ asker' = role
    /\ UNCHANGED <<visits, spent>>

Finish ==
    /\ role = Orchestrator
    /\ ~Gated \/ asker # None \/ spent >= RunCap
    /\ role' = Done
    /\ asker' = None
    /\ UNCHANGED <<visits, spent>>

Spend ==
    /\ spent' \in Nat /\ spent' > spent
    /\ UNCHANGED <<role, visits, asker>>

Next == (\E w \in Workers : Dispatch(w)) \/ Return \/ Finish \/ Spend

Spec == Init /\ [][Next]_vars
=============================================================================
