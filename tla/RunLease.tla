------------------------------ MODULE RunLease ------------------------------
(***************************************************************************)
(* The execution lease of one run (src/host/log-file.ts:164-199): a host   *)
(* claims the run by listening on the first of a fixed sequence of         *)
(* loopback ports that is not busy, and asks whoever keeps a busy one      *)
(* whether it does so for this run. The hosts that start, resume, inspect  *)
(* or reconcile the run share nothing else.                                *)
(*                                                                         *)
(* A host makes one claim at a time. Other programs may come to any of the *)
(* ports and leave it. What a lease does not do is out of the model: it    *)
(* says nothing to another machine or another network namespace.           *)
(***************************************************************************)
EXTENDS Naturals

CONSTANTS
    Hosts,      \* processes that may claim the run
    Candidates, \* how many ports are tried (64 in the code)
    Others,     \* whether other programs use the ports
    Slow,       \* whether a holder can be too busy to answer a probe in time
    MaxClaims   \* claims per host

ASSUME LeaseAssumption ==
    /\ Candidates \in Nat \ {0} /\ MaxClaims \in Nat \ {0}
    /\ Others \in BOOLEAN /\ Slow \in BOOLEAN
    /\ "free" \notin Hosts /\ "other" \notin Hosts

VARIABLES
    port,    \* who listens on each candidate, as the kernel sees it
    stage,   \* where each host is
    at,      \* the candidate its claim has come to
    claims,  \* claims each host has made
    rival,   \* history: during the claim somebody else held the lease
    calm     \* history: nothing was let go and no probe went unanswered

leaseVars == <<port, stage, at, claims, rival, calm>>

Ports == 1..Candidates
Holders == {h \in Hosts : stage[h] = "held"}

LeaseInit ==
    /\ port \in [Ports -> IF Others THEN {"free", "other"} ELSE {"free"}]
    /\ stage = [h \in Hosts |-> "idle"]
    /\ at = [h \in Hosts |-> 1]
    /\ claims = [h \in Hosts |-> 0]
    /\ rival = [h \in Hosts |-> FALSE]
    /\ calm = TRUE

\* acquireRunLease, of a start, a resume, an inspection or a reconciliation.
Claim(h) ==
    /\ stage[h] \in {"idle", "refused", "unavailable"} /\ claims[h] < MaxClaims
    /\ stage' = [stage EXCEPT ![h] = "listen"]
    /\ at' = [at EXCEPT ![h] = 1]
    /\ claims' = [claims EXCEPT ![h] = @ + 1]
    /\ rival' = [rival EXCEPT ![h] = Holders # {}]
    /\ UNCHANGED <<port, calm>>

\* The kernel gives the port to one listener; EADDRINUSE leads to a probe.
Listen(h) ==
    /\ stage[h] = "listen"
    /\ IF port[at[h]] = "free"
       THEN /\ port' = [port EXCEPT ![at[h]] = h]
            /\ stage' = [stage EXCEPT ![h] = "held"]
            /\ rival' = [g \in Hosts |-> rival[g] \/ g # h]
       ELSE stage' = [stage EXCEPT ![h] = "probe"] /\ UNCHANGED <<port, rival>>
    /\ UNCHANGED <<at, claims, calm>>

\* Any other error of listen.
ListenFails(h) ==
    /\ stage[h] = "listen" /\ stage' = [stage EXCEPT ![h] = "unavailable"]
    /\ UNCHANGED <<port, at, claims, rival, calm>>

\* Mutant: the reply is compared with its newline.
TellsIdentityUntrimmed(h) == FALSE

\* Mutant: whoever listens on the port is taken for a holder.
TellsAnyIdentity(h) == port[at[h]] # "free"

\* The listener of the candidate is a lease of this run and says so.
TellsIdentity(h) == port[at[h]] \in Hosts

\* The reply is on its way, whatever becomes of the one who sent it.
ProbeAnswered(h) ==
    /\ stage[h] = "probe" /\ TellsIdentity(h)
    /\ stage' = [stage EXCEPT ![h] = "told"]
    /\ UNCHANGED <<port, at, claims, rival, calm>>

\* RunInProgressError.
Refuse(h) ==
    /\ stage[h] = "told" /\ stage' = [stage EXCEPT ![h] = "refused"]
    /\ UNCHANGED <<port, at, claims, rival, calm>>

\* A refused connection, another reply and no reply in 100 ms all mean that
\* this candidate is not the lease: on to the next, or there is none.
ProbeMisses(h) ==
    /\ stage[h] = "probe" /\ (~TellsIdentity(h) \/ Slow)
    /\ IF at[h] < Candidates
       THEN at' = [at EXCEPT ![h] = @ + 1] /\ stage' = [stage EXCEPT ![h] = "listen"]
       ELSE stage' = [stage EXCEPT ![h] = "unavailable"] /\ UNCHANGED at
    /\ calm' = (calm /\ ~TellsIdentity(h))
    /\ UNCHANGED <<port, claims, rival>>

Freed(h) == [p \in Ports |-> IF port[p] = h THEN "free" ELSE port[p]]

\* The run has ended, or its host has thrown: the server is closed.
LetGo(h) ==
    /\ stage[h] = "held" /\ stage' = [stage EXCEPT ![h] = "idle"]
    /\ port' = Freed(h) /\ calm' = FALSE
    /\ UNCHANGED <<at, claims, rival>>

\* The process dies; the kernel takes its port back. Another one may follow.
Crash(h) ==
    /\ stage[h] # "idle" /\ stage' = [stage EXCEPT ![h] = "idle"]
    /\ port' = Freed(h) /\ calm' = (calm /\ stage[h] # "held")
    /\ UNCHANGED <<at, claims, rival>>

OtherComes(p) ==
    /\ Others /\ port[p] = "free" /\ port' = [port EXCEPT ![p] = "other"]
    /\ UNCHANGED <<stage, at, claims, rival, calm>>

OtherLeaves(p) ==
    /\ port[p] = "other" /\ port' = [port EXCEPT ![p] = "free"] /\ calm' = FALSE
    /\ UNCHANGED <<stage, at, claims, rival>>

\* Every host has made its claims and let go of what it held.
LeaseRest ==
    /\ \A h \in Hosts : claims[h] = MaxClaims /\ stage[h] \in {"idle", "refused", "unavailable"}
    /\ UNCHANGED leaseVars

LeaseNext ==
    \/ \E h \in Hosts :
        \/ Claim(h) \/ Listen(h) \/ ListenFails(h) \/ ProbeAnswered(h) \/ Refuse(h)
        \/ ProbeMisses(h) \/ LetGo(h) \/ Crash(h)
    \/ \E p \in Ports : OtherComes(p) \/ OtherLeaves(p)
    \/ LeaseRest

LeaseSpec == LeaseInit /\ [][LeaseNext]_leaseVars

-----------------------------------------------------------------------------
(* Properties.                                                             *)

LeaseTypeOK ==
    /\ port \in [Ports -> Hosts \cup {"free", "other"}]
    /\ stage \in [Hosts -> {"idle", "listen", "probe", "told", "held", "refused", "unavailable"}]
    /\ at \in [Hosts -> Ports] /\ claims \in [Hosts -> 0..MaxClaims]
    /\ rival \in [Hosts -> BOOLEAN] /\ calm \in BOOLEAN

\* Hosts that race for a run get one lease between them while nobody lets go, no
\* other program leaves its port and no probe of a live holder goes unanswered
\* (calm), whatever ports other programs keep; and when they are through they
\* have not all refused one another.
OneWinner ==
    /\ LeaseTypeOK
    /\ calm => /\ \A g, h \in Holders : g = h
               /\ (\E h \in Hosts : stage[h] = "refused") => Holders # {}

\* A host is only told that the run is in progress when, during its claim,
\* another one did hold the lease: not by a port of somebody else's, and not
\* by a lease that was gone before.
RefusalsAreTrue == \A h \in Hosts : stage[h] \in {"told", "refused"} => rival[h]

\* Two hosts never execute the same run (src/host/api.ts:302-303).
OneHolder == \A g, h \in Holders : g = h
=============================================================================
