----------------------------- MODULE HostProofs ------------------------------
(***************************************************************************)
(* TLAPS proofs about the two parts of a host that face the outside.       *)
(* RunControl, where the operator's guidance comes in, for any number of   *)
(* messages and sessions, shared or in child processes; and RunLease, the  *)
(* lease that keeps other hosts from the run, for any set of hosts, any    *)
(* number of candidate ports and of claims, other programs and slow        *)
(* holders or none.  The two share no state.                               *)
(***************************************************************************)
EXTENDS RunControl, RunLease, TLAPS

-----------------------------------------------------------------------------
(* The inductive invariant of RunControl.                                  *)

\* Envelopes that are settled for good or wait in the mailbox.
Safe == {g \in Ids : heard[g] > 0} \cup refused \cup Waiting

\* A session is active exactly from its installation to its release.
ActiveIsLive ==
    /\ pc \in {"between", "disposing", "closed"} => active = 0
    /\ pc = "top" => active \in {0, sess}
    /\ pc \notin {"between", "top", "disposing", "closed"} => active = sess
    /\ pc \notin {"between", "closed"} => sess # 0

\* What the seam has sealed, run control has closed.
SealCloses == active # 0 /\ sealed[active] => ~addressable[active]

\* A session that was never active has received nothing.
FreshIsEmpty ==
    \A s \in SessionIds :
        s > sess \/ (s = sess /\ active = 0 /\ pc = "top") =>
            queue[s] = {} /\ \A f \in flying : f.to # s

\* What is queued in the active session is known to the host and dispatched,
\* so a reclaim finds it; what another session still holds is safe elsewhere,
\* unless it landed in a child that was released while it could be steered.
QueueIsKept ==
    \A s \in SessionIds : \A g \in queue[s] :
        \/ g \in Safe
        \/ s = active /\ g \in known[s] /\ g \in dispatched[s]
        \/ s # active /\ remote /\ addressable[s]

\* A call under way is still dispatched, so its answer returns the envelope.
CallsAreKept ==
    \A f \in flying :
        \/ f.id \in Safe
        \/ f.id \in dispatched[f.to] /\ (f.to = active \/ addressable[f.to])

\* Only what was sent is anywhere.
OnlySent ==
    /\ Waiting \subseteq Sent
    /\ \A f \in flying : f.id \in Sent
    /\ \A s \in SessionIds : dispatched[s] \subseteq Sent

\* Whatever was sent is somewhere.
SentIsSomewhere ==
    \A g \in Sent : g \in Safe \cup InFlight \/ \E s \in SessionIds : g \in queue[s]

\* A shared session queues at once what it is steered with, the host knows
\* its queue, and a closed one has none.
SharedQueue ==
    ~remote =>
        /\ flying = {} /\ known = queue
        /\ \A g \in Ids : pending[g] <= 1
        /\ active # 0 => /\ queue[active] \subseteq dispatched[active]
                         /\ dispatched[active] \cap Waiting = {}
                         /\ ~addressable[active] => queue[active] = {}

Control == ActiveIsLive /\ SealCloses
Guidance ==
    FreshIsEmpty /\ QueueIsKept /\ CallsAreKept /\ OnlySent /\ SentIsSomewhere /\ SharedQueue

IInv == TypeOK /\ Control /\ Guidance

LEMMA InitialInvariant == Init => IInv
<1> SUFFICES ASSUME Init PROVE IInv
  OBVIOUS
<1> USE ControlAssumption
<1>1. TypeOK
  <2>1. next \in 1..(MaxGuidance + 1) /\ pending \in [Ids -> Nat] /\ heard \in [Ids -> Nat]
    BY DEF Init
  <2>2. {dispatched, queue, known} \subseteq [SessionIds -> SUBSET Ids]
    BY DEF Init
  <2>3. /\ addressable \in [SessionIds -> BOOLEAN] /\ sealed \in [SessionIds -> BOOLEAN]
        /\ flying \subseteq [id : Ids, to : SessionIds]
    BY DEF Init
  <2>4. {calls, told, missed} \subseteq SUBSET SessionIds /\ decided \in 0..(MaxGuidance + 1)
    BY DEF Init
  <2>. QED BY <2>1, <2>2, <2>3, <2>4 DEF Init, TypeOK, Places, Fates
<1>2. Control BY DEF Init, Control, ActiveIsLive, SealCloses
<1>3. Waiting = {} /\ Sent = {} /\ flying = {} BY DEF Init, Waiting, Sent, Ids
<1>4. \A s \in SessionIds : queue[s] = {} /\ dispatched[s] = {} BY DEF Init
<1>5. active = 0 /\ known = queue /\ \A g \in Ids : pending[g] = 0 BY DEF Init
<1>6. FreshIsEmpty /\ QueueIsKept /\ CallsAreKept /\ OnlySent /\ SentIsSomewhere
  BY <1>3, <1>4 DEF FreshIsEmpty, QueueIsKept, CallsAreKept, OnlySent, SentIsSomewhere
<1>7. SharedQueue BY <1>3, <1>5 DEF SharedQueue
<1>. QED BY <1>1, <1>2, <1>6, <1>7 DEF IInv, Guidance

-----------------------------------------------------------------------------
(* The mailbox.                                                            *)

\* Put adds one of each of the ids and keeps the rest.
LEMMA PutAdds ==
    ASSUME pending \in [Ids -> Nat], NEW ids \in SUBSET Ids, pending' = Put(pending, ids)
    PROVE  /\ pending' \in [Ids -> Nat] /\ Waiting' = Waiting \cup ids
           /\ \A g \in Ids : pending'[g] = IF g \in ids THEN pending[g] + 1 ELSE pending[g]
<1>1. \A g \in Ids : pending'[g] = IF g \in ids THEN pending[g] + 1 ELSE pending[g]
  <2> SUFFICES ASSUME NEW g \in Ids
               PROVE  pending'[g] = IF g \in ids THEN pending[g] + 1 ELSE pending[g]
    OBVIOUS
  <2>1. pending[g] \in Nat OBVIOUS
  <2>2. pending'[g] = pending[g] + (IF g \in ids THEN 1 ELSE 0) BY DEF Put
  <2>. QED BY <2>1, <2>2
<1>2. pending' \in [Ids -> Nat] BY <1>1 DEF Put
<1>3. \A g \in Ids : pending'[g] > 0 <=> pending[g] > 0 \/ g \in ids BY <1>1
<1>. QED BY <1>1, <1>2, <1>3 DEF Waiting

\* What was safe stays safe when nothing leaves the mailbox.
LEMMA SafeGrows ==
    ASSUME heard' = heard, refused \subseteq refused', Waiting \subseteq Waiting'
    PROVE  Safe \subseteq Safe'
BY DEF Safe

\* The envelope about to be sent is new.
LEMMA NextIsNew ==
    ASSUME IInv, Accepting
    PROVE  /\ next \in Ids /\ next + 1 \in 1..(MaxGuidance + 1)
           /\ next \notin Sent /\ next \notin Waiting
           /\ next' = next + 1 => Sent' = Sent \cup {next}
<1>1. next \in Ids /\ next + 1 \in 1..(MaxGuidance + 1)
  BY ControlAssumption DEF IInv, TypeOK, Accepting, Ids
<1>2. next \notin Sent BY <1>1 DEF Sent, Ids
<1>3. next' = next + 1 => Sent' = Sent \cup {next}
  BY <1>1, ControlAssumption DEF Sent, Ids
<1>. QED BY <1>1, <1>2, <1>3 DEF IInv, Guidance, OnlySent

\* A step that changes no place an envelope can be in keeps the guidance.
LEMMA GuidanceUntouched ==
    ASSUME TypeOK, Guidance, UNCHANGED <<next, pending, dispatched, queues, flying, history, active>>,
           \A s \in SessionIds : addressable[s] => addressable'[s], FreshIsEmpty'
    PROVE  Guidance'
<1>1. Safe' = Safe /\ Waiting' = Waiting /\ Sent' = Sent /\ InFlight' = InFlight
  BY DEF Safe, Waiting, Sent, InFlight, history
<1>2. /\ queue' = queue /\ known' = known /\ dispatched' = dispatched /\ flying' = flying
      /\ active' = active /\ remote' = remote /\ pending' = pending
  BY DEF queues, history
<1>3. QueueIsKept' BY <1>1, <1>2 DEF Guidance, QueueIsKept
<1>4. CallsAreKept'
  <2> SUFFICES ASSUME NEW f \in flying
               PROVE  f.id \in Safe \/ (f.id \in dispatched[f.to]
                                          /\ (f.to = active \/ addressable'[f.to]))
    BY <1>1, <1>2 DEF CallsAreKept
  <2>1. f.to \in SessionIds BY DEF TypeOK
  <2>. QED BY <2>1 DEF Guidance, CallsAreKept
<1>5. OnlySent' /\ SentIsSomewhere' BY <1>1, <1>2 DEF Guidance, OnlySent, SentIsSomewhere
<1>6. SharedQueue' BY <1>1, <1>2 DEF TypeOK, Guidance, SharedQueue
<1>. QED BY <1>3, <1>4, <1>5, <1>6 DEF Guidance

LEMMA ControlUntouched ==
    ASSUME Control, UNCHANGED <<active, addressable, sealed, sess, pc>>
    PROVE  Control'
BY DEF Control, ActiveIsLive, SealCloses

\* A session that was not active yet.
Fresh(s) == s > sess \/ (s = sess /\ active = 0 /\ pc = "top")

LEMMA ActiveIsNotFresh ==
    ASSUME IInv, active # 0
    PROVE  active \in SessionIds /\ active = sess /\ ~Fresh(active)
BY ControlAssumption DEF IInv, TypeOK, Control, ActiveIsLive, Fresh, SessionIds, Places

\* What a step that touches one session s has to show.
LEMMA OneSession ==
    ASSUME IInv, TypeOK', NEW s \in SessionIds, remote' = remote,
           Safe \subseteq Safe', Sent \subseteq Sent', Waiting' \subseteq Sent',
           \A r \in SessionIds : r # s =>
               /\ queue'[r] = queue[r] /\ known'[r] = known[r] /\ dispatched'[r] = dispatched[r]
               /\ addressable'[r] = addressable[r]
               /\ r = active' <=> r = active,
           \A r \in SessionIds : Fresh(r)' => Fresh(r) /\ r # s,
           \A f \in flying' : f \in flying \/ (f.to = s /\ f.id \in Sent'),
           dispatched'[s] \subseteq Sent',
           \A g \in queue'[s] :
               \/ g \in Safe'
               \/ s = active' /\ g \in known'[s] /\ g \in dispatched'[s]
               \/ s # active' /\ remote /\ addressable'[s],
           \A f \in flying' : f.to = s =>
               \/ f.id \in Safe'
               \/ f.id \in dispatched'[s] /\ (s = active' \/ addressable'[s]),
           \A g \in Sent' : g \in Sent \/ g \in Safe' \cup InFlight' \cup queue'[s],
           \A g \in InFlight \cup queue[s] : g \in Safe' \cup InFlight' \cup queue'[s]
    PROVE  FreshIsEmpty' /\ QueueIsKept' /\ CallsAreKept' /\ OnlySent' /\ SentIsSomewhere'
<1> USE DEF IInv, Guidance
<1>1. FreshIsEmpty'
  <2> SUFFICES ASSUME NEW r \in SessionIds, Fresh(r)'
               PROVE  queue'[r] = {} /\ \A f \in flying' : f.to # r
    BY DEF FreshIsEmpty, Fresh
  <2>1. Fresh(r) /\ r # s OBVIOUS
  <2>2. queue[r] = {} /\ \A f \in flying : f.to # r BY <2>1 DEF FreshIsEmpty, Fresh
  <2>. QED BY <2>1, <2>2
<1>2. QueueIsKept'
  <2> SUFFICES ASSUME NEW r \in SessionIds, NEW g \in queue'[r], r # s
               PROVE  \/ g \in Safe'
                      \/ r = active' /\ g \in known'[r] /\ g \in dispatched'[r]
                      \/ r # active' /\ remote /\ addressable'[r]
    BY DEF QueueIsKept
  <2>. QED BY DEF QueueIsKept
<1>3. CallsAreKept'
  <2> SUFFICES ASSUME NEW f \in flying', f.to # s
               PROVE  \/ f.id \in Safe'
                      \/ f.id \in dispatched'[f.to] /\ (f.to = active' \/ addressable'[f.to])
    BY DEF CallsAreKept
  <2>1. f \in flying /\ f.to \in SessionIds BY DEF TypeOK
  <2>. QED BY <2>1 DEF CallsAreKept
<1>4. OnlySent' BY DEF OnlySent
<1>5. SentIsSomewhere'
  <2> SUFFICES ASSUME NEW g \in Sent', g \in Sent
               PROVE  g \in Safe' \cup InFlight' \/ \E r \in SessionIds : g \in queue'[r]
    BY DEF SentIsSomewhere
  <2>1. CASE g \in Safe BY <2>1
  <2>2. CASE g \in InFlight BY <2>2
  <2>3. CASE \E r \in SessionIds : g \in queue[r] BY <2>3
  <2>. QED BY <2>1, <2>2, <2>3 DEF SentIsSomewhere
<1>. QED BY <1>1, <1>2, <1>3, <1>4, <1>5

\* What a reclaim does to session s, of whatever queue it has and however many
\* of its envelopes are taken back.
TakesBack(s, q, k, ids) ==
    /\ pending' = Put(pending, ids)
    /\ dispatched' = [dispatched EXCEPT ![s] = dispatched[s] \ ids]
    /\ known' = [known EXCEPT ![s] = IF dispatched[s] = {} THEN k ELSE {}]
    /\ queue' = [queue EXCEPT ![s] = IF dispatched[s] = {} \/ remote THEN q ELSE {}]

LEMMA ReclaimedMailbox ==
    ASSUME TypeOK, NEW s \in SessionIds, NEW q \in SUBSET Ids, NEW k \in SUBSET Ids,
           NEW ids \in SUBSET dispatched[s], TakesBack(s, q, k, ids)
    PROVE  /\ pending' \in [Ids -> Nat]
           /\ Waiting' = Waiting \cup ids
           /\ \A g \in Ids : pending'[g] = IF g \in ids THEN pending[g] + 1 ELSE pending[g]
<1>1. dispatched[s] \in SUBSET Ids /\ ids \in SUBSET Ids BY DEF TypeOK
<1>. QED BY <1>1, PutAdds DEF TypeOK, TakesBack

LEMMA ReclaimedSession ==
    ASSUME TypeOK, NEW s \in SessionIds, NEW q \in SUBSET Ids, NEW k \in SUBSET Ids,
           NEW ids \in SUBSET dispatched[s], TakesBack(s, q, k, ids)
    PROVE  /\ {dispatched, queue, known}' \subseteq [SessionIds -> SUBSET Ids]
           /\ dispatched'[s] = dispatched[s] \ ids
           /\ known'[s] = IF dispatched[s] = {} THEN k ELSE {}
           /\ queue'[s] = IF dispatched[s] = {} \/ remote THEN q ELSE {}
           /\ \A r \in SessionIds : r # s =>
                queue'[r] = queue[r] /\ known'[r] = known[r] /\ dispatched'[r] = dispatched[r]
<1>1. dispatched[s] \in SUBSET Ids /\ ids \in SUBSET Ids BY DEF TypeOK
<1>2. /\ dispatched \in [SessionIds -> SUBSET Ids] /\ known \in [SessionIds -> SUBSET Ids]
      /\ queue \in [SessionIds -> SUBSET Ids]
  BY DEF TypeOK
<1>3. {dispatched, queue, known}' \subseteq [SessionIds -> SUBSET Ids]
  BY <1>1, <1>2 DEF TakesBack
<1>. QED BY <1>1, <1>2, <1>3 DEF TakesBack

-----------------------------------------------------------------------------
(* The operator's calls and their answers.                                 *)

\* An envelope goes into the mailbox.
LEMMA EnqueueStep ==
    ASSUME IInv, Accepting, pending' = Put(pending, {next}), next' = next + 1,
           UNCHANGED <<open, bridge, aborts, sealed, queues, flying, loop, history>>
    PROVE  IInv'
<1>1. /\ next \in Ids /\ next' \in 1..(MaxGuidance + 1)
      /\ next \notin Sent /\ next \notin Waiting /\ Sent' = Sent \cup {next}
  BY NextIsNew
<1>2. /\ pending' \in [Ids -> Nat] /\ Waiting' = Waiting \cup {next}
      /\ \A g \in Ids : pending'[g] = IF g \in {next} THEN pending[g] + 1 ELSE pending[g]
  <2>1. {next} \in SUBSET Ids /\ pending \in [Ids -> Nat] BY <1>1 DEF IInv, TypeOK
  <2>. QED BY <2>1, PutAdds
<1>3. UNCHANGED <<open, active, addressable, dispatched, abort, calls, told, cause, missed, sealed,
                  queue, known, flying, sess, pc, capture, returned, outcome, decided, heard, refused, remote>>
  BY DEF bridge, aborts, queues, loop, history
<1>4. TypeOK' BY <1>1, <1>2, <1>3 DEF IInv, TypeOK
<1>5. Control' BY <1>3, ControlUntouched DEF IInv
<1>6. Safe' = Safe \cup {next} /\ InFlight' = InFlight BY <1>2, <1>3 DEF Safe, InFlight
<1> USE DEF IInv, Guidance
<1>7. FreshIsEmpty' BY <1>3 DEF FreshIsEmpty
<1>8. QueueIsKept' BY <1>3, <1>6 DEF QueueIsKept
<1>9. CallsAreKept' BY <1>3, <1>6 DEF CallsAreKept
<1>10. OnlySent' BY <1>1, <1>2, <1>3 DEF OnlySent
<1>11. SentIsSomewhere' BY <1>1, <1>3, <1>6 DEF SentIsSomewhere
<1>12. SharedQueue'
  <2> SUFFICES ASSUME ~remote PROVE SharedQueue'
    BY <1>3 DEF SharedQueue
  <2>1. \A g \in Ids : pending'[g] <= 1
    <3>1. pending[next] = 0 BY <1>1 DEF TypeOK, Waiting
    <3>2. \A g \in Ids : pending[g] <= 1 BY DEF SharedQueue
    <3>. QED BY <1>2, <3>1, <3>2
  <2>2. active # 0 => next \notin dispatched[active] /\ active \in SessionIds
    BY <1>1 DEF OnlySent, TypeOK
  <2>. QED BY <1>2, <1>3, <2>1, <2>2 DEF SharedQueue
<1>. QED BY <1>4, <1>5, <1>7, <1>8, <1>9, <1>10, <1>11, <1>12

LEMMA FollowUpStep == IInv /\ FollowUp => IInv'
BY EnqueueStep DEF FollowUp

LEMMA SteerToMailboxStep == IInv /\ SteerToMailbox => IInv'
BY EnqueueStep DEF SteerToMailbox

\* The seal has closed the session: what it still holds goes back with the
\* steer.
LEMMA SteerToClosedSessionStep == ASSUME IInv, SteerToClosedSession PROVE IInv'
<1> DEFINE s == active
           back == dispatched[s] \cap known[s]
           ids == back \cup {next}
<1>1. s \in SessionIds /\ s = sess /\ ~Fresh(s) /\ ~addressable[s]
  BY ActiveIsNotFresh DEF SteerToClosedSession
<1>2. /\ next \in Ids /\ next' \in 1..(MaxGuidance + 1)
      /\ next \notin Sent /\ next \notin Waiting /\ Sent' = Sent \cup {next}
  BY NextIsNew DEF SteerToClosedSession
<1>3. UNCHANGED <<open, active, addressable, abort, calls, told, cause, missed, sealed, flying,
                  sess, pc, capture, returned, outcome, decided, heard, refused, remote>>
  BY DEF SteerToClosedSession, aborts, loop, history
<1>4. /\ dispatched \in [SessionIds -> SUBSET Ids] /\ known \in [SessionIds -> SUBSET Ids]
      /\ queue \in [SessionIds -> SUBSET Ids]
  BY DEF IInv, TypeOK
<1>5. /\ pending' \in [Ids -> Nat] /\ Waiting' = Waiting \cup ids
      /\ \A g \in Ids : pending'[g] = IF g \in ids THEN pending[g] + 1 ELSE pending[g]
  <2>1. ids \in SUBSET Ids BY <1>1, <1>2, <1>4
  <2>. QED BY <2>1, PutAdds DEF IInv, TypeOK, SteerToClosedSession
<1>6. /\ dispatched' = [dispatched EXCEPT ![s] = dispatched[s] \ back]
      /\ known' = [known EXCEPT ![s] = IF dispatched[s] = {} THEN known[s] ELSE {}]
      /\ queue' = [queue EXCEPT ![s] = IF dispatched[s] = {} \/ remote THEN queue[s] ELSE {}]
  BY <1>1, <1>4 DEF SteerToClosedSession, queues
<1>7. /\ {dispatched, queue, known}' \subseteq [SessionIds -> SUBSET Ids]
      /\ dispatched'[s] = dispatched[s] \ back
      /\ queue'[s] = IF dispatched[s] = {} \/ remote THEN queue[s] ELSE {}
      /\ known'[s] = IF dispatched[s] = {} THEN known[s] ELSE {}
      /\ \A r \in SessionIds : r # s =>
           queue'[r] = queue[r] /\ known'[r] = known[r] /\ dispatched'[r] = dispatched[r]
  BY <1>1, <1>4, <1>6
<1>8. TypeOK' BY <1>2, <1>3, <1>5, <1>7 DEF IInv, TypeOK
<1>9. Control' BY <1>3, ControlUntouched DEF IInv
<1>10. Safe' = Safe \cup ids /\ InFlight' = InFlight BY <1>3, <1>5 DEF Safe, InFlight
<1>11. \A g \in queue[s] : g \in Safe'
  BY <1>1, <1>10 DEF IInv, Guidance, QueueIsKept
<1>12. /\ Waiting \subseteq Sent /\ \A r \in SessionIds : dispatched[r] \subseteq Sent
       /\ \A f \in flying : f.to = s => f.id \in Safe \/ f.id \in dispatched[s]
  BY DEF IInv, Guidance, OnlySent, CallsAreKept
<1>13. /\ Waiting' \subseteq Sent' /\ dispatched'[s] \subseteq Sent'
       /\ \A f \in flying : f.to = s => f.id \in Safe' \/ f.id \in dispatched'[s]
       /\ \A g \in queue'[s] : g \in Safe'
       /\ Safe \subseteq Safe' /\ Sent \subseteq Sent'
       /\ \A g \in Sent' : g \in Sent \/ g \in Safe'
  BY <1>1, <1>2, <1>5, <1>7, <1>10, <1>11, <1>12
<1>14. \A r \in SessionIds : Fresh(r)' => Fresh(r) /\ r # s BY <1>1, <1>3 DEF Fresh
<1>15. FreshIsEmpty' /\ QueueIsKept' /\ CallsAreKept' /\ OnlySent' /\ SentIsSomewhere'
  BY <1>1, <1>3, <1>7, <1>8, <1>10, <1>11, <1>13, <1>14, OneSession
<1>16. SharedQueue'
  <2> SUFFICES ASSUME ~remote PROVE SharedQueue'
    BY <1>3 DEF SharedQueue
  <2>1. /\ flying = {} /\ known = queue /\ queue[s] \subseteq dispatched[s]
        /\ dispatched[s] \cap Waiting = {} /\ queue[s] = {}
        /\ \A g \in Ids : pending[g] <= 1
    BY <1>1, ControlAssumption DEF IInv, Guidance, SharedQueue, SessionIds
  <2>2. \A g \in Ids : pending'[g] <= 1
    <3>1. \A g \in ids : g \notin Waiting BY <1>2, <2>1
    <3>2. \A g \in Ids : g \in ids => pending[g] = 0 BY <3>1 DEF IInv, TypeOK, Waiting
    <3>. QED BY <1>5, <2>1, <3>2 DEF IInv, TypeOK
  <2>3. known' = queue'
    <3>1. known'[s] = queue'[s] BY <1>7, <2>1
    <3>2. \A r \in SessionIds : known'[r] = queue'[r] BY <1>7, <2>1, <3>1
    <3>. QED BY <1>4, <1>6, <3>2
  <2>4. queue'[s] = {} BY <1>7, <2>1
  <2>5. dispatched'[s] \cap Waiting' = {}
    BY <1>1, <1>2, <1>5, <1>7, <1>12, <2>1
  <2>. QED BY <1>3, <2>1, <2>2, <2>3, <2>4, <2>5 DEF SharedQueue
<1>. QED BY <1>8, <1>9, <1>15, <1>16 DEF IInv, Guidance

\* A child is asked to queue the steer.
LEMMA SteerToChildStep == ASSUME IInv, SteerToSession, remote PROVE IInv'
<1> DEFINE s == active
           call == [id |-> next, to |-> s]
<1>1. s \in SessionIds /\ s = sess /\ ~Fresh(s) /\ addressable[s] /\ s # 0
  BY ActiveIsNotFresh DEF SteerToSession
<1>2. /\ next \in Ids /\ next' \in 1..(MaxGuidance + 1)
      /\ next \notin Sent /\ next \notin Waiting /\ Sent' = Sent \cup {next}
  BY NextIsNew DEF SteerToSession
<1>3. UNCHANGED <<open, active, addressable, abort, calls, told, cause, missed, sealed, pending,
                  queue, known,
                  sess, pc, capture, returned, outcome, decided, heard, refused, remote>>
  BY DEF SteerToSession, aborts, loop, history, queues
<1>4. dispatched \in [SessionIds -> SUBSET Ids]
  BY DEF IInv, TypeOK
<1>5. flying' = flying \cup {call} /\ dispatched' = [dispatched EXCEPT ![s] = dispatched[s] \cup {next}]
  BY DEF SteerToSession
<1>6. /\ dispatched' \in [SessionIds -> SUBSET Ids] /\ dispatched'[s] = dispatched[s] \cup {next}
      /\ \A r \in SessionIds : r # s => dispatched'[r] = dispatched[r]
  BY <1>1, <1>2, <1>4, <1>5
<1>7. call \in [id : Ids, to : SessionIds] /\ call.id = next /\ call.to = s
  BY <1>1, <1>2
<1>8. TypeOK' BY <1>2, <1>3, <1>5, <1>6, <1>7 DEF IInv, TypeOK
<1>9. Control' BY <1>3, ControlUntouched DEF IInv
<1>10. Safe' = Safe /\ InFlight' = InFlight \cup {next} /\ Waiting' = Waiting
  BY <1>3, <1>5, <1>7 DEF Safe, InFlight, Waiting
<1>11. /\ Waiting \subseteq Sent /\ \A r \in SessionIds : dispatched[r] \subseteq Sent
       /\ \A f \in flying : f.to = s => f.id \in Safe \/ f.id \in dispatched[s]
       /\ \A g \in queue[s] : g \in Safe \/ (g \in known[s] /\ g \in dispatched[s])
  BY <1>1 DEF IInv, Guidance, OnlySent, CallsAreKept, QueueIsKept
<1>12. \A r \in SessionIds : Fresh(r)' => Fresh(r) /\ r # s BY <1>1, <1>3 DEF Fresh
<1>13. \A f \in flying' : f.to = s => f.id \in Safe' \/ f.id \in dispatched'[s]
  BY <1>5, <1>6, <1>7, <1>10, <1>11
<1>14. \A f \in flying' : f \in flying \/ (f.to = s /\ f.id \in Sent')
  BY <1>2, <1>5, <1>7
<1>15. \A g \in queue'[s] : g \in Safe' \/ (g \in known'[s] /\ g \in dispatched'[s])
  BY <1>3, <1>6, <1>10, <1>11
<1>16. /\ Safe \subseteq Safe' /\ Sent \subseteq Sent' /\ Waiting' \subseteq Sent'
       /\ dispatched'[s] \subseteq Sent'
       /\ \A g \in Sent' : g \in Sent \/ g \in InFlight'
       /\ \A g \in InFlight \cup queue[s] : g \in InFlight' \cup queue'[s]
  BY <1>1, <1>2, <1>3, <1>6, <1>10, <1>11
<1> HIDE DEF s
<1>17. FreshIsEmpty' /\ QueueIsKept' /\ CallsAreKept' /\ OnlySent' /\ SentIsSomewhere'
  <2>1. s = active' BY <1>3 DEF s
  <2>. QED BY <1>1, <1>3, <1>6, <1>8, <1>12, <1>13, <1>14, <1>15, <1>16, <2>1, OneSession
<1>18. SharedQueue' BY <1>3 DEF SharedQueue
<1>. QED BY <1>8, <1>9, <1>17, <1>18 DEF IInv, Guidance

\* The shared SDK queues the steer before the call returns.
LEMMA SteerToSharedStep == ASSUME IInv, SteerToSession, ~remote PROVE IInv'
<1> DEFINE s == active
           q == queue[s] \cup {next}
           d == dispatched[s] \cup {next}
<1>1. s \in SessionIds /\ s = sess /\ ~Fresh(s) /\ addressable[s] /\ s # 0
  BY ActiveIsNotFresh DEF SteerToSession
<1>2. /\ next \in Ids /\ next' \in 1..(MaxGuidance + 1)
      /\ next \notin Sent /\ next \notin Waiting /\ Sent' = Sent \cup {next}
  BY NextIsNew DEF SteerToSession
<1>3. UNCHANGED <<open, active, addressable, abort, calls, told, cause, missed, sealed, flying,
                  sess, pc, capture, returned, outcome, decided, heard, refused, remote>>
  BY DEF SteerToSession, aborts, loop, history, queues
<1>4. /\ dispatched \in [SessionIds -> SUBSET Ids] /\ known \in [SessionIds -> SUBSET Ids]
      /\ queue \in [SessionIds -> SUBSET Ids]
  BY DEF IInv, TypeOK
<1>5. /\ queue' = [queue EXCEPT ![s] = q] /\ known' = [known EXCEPT ![s] = q]
      /\ dispatched' = [dispatched EXCEPT ![s] = d] /\ pending' = pending
  BY <1>1 DEF SteerToSession, Requeued
<1>6. /\ {dispatched, queue, known}' \subseteq [SessionIds -> SUBSET Ids]
      /\ dispatched'[s] = d /\ queue'[s] = q /\ known'[s] = q
      /\ \A r \in SessionIds : r # s =>
           queue'[r] = queue[r] /\ known'[r] = known[r] /\ dispatched'[r] = dispatched[r]
  BY <1>1, <1>2, <1>4, <1>5
<1>7. TypeOK' BY <1>2, <1>3, <1>5, <1>6 DEF IInv, TypeOK
<1>8. Control' BY <1>3, ControlUntouched DEF IInv
<1>9. Safe' = Safe /\ InFlight' = InFlight /\ Waiting' = Waiting
  BY <1>3, <1>5 DEF Safe, InFlight, Waiting
<1>10. /\ flying = {} /\ known = queue /\ queue[s] \subseteq dispatched[s]
       /\ dispatched[s] \cap Waiting = {}
       /\ \A g \in Ids : pending[g] <= 1
  BY <1>1 DEF IInv, Guidance, SharedQueue
<1>11. Waiting \subseteq Sent /\ \A r \in SessionIds : dispatched[r] \subseteq Sent
  BY DEF IInv, Guidance, OnlySent
<1>12. \A r \in SessionIds : Fresh(r)' => Fresh(r) /\ r # s BY <1>1, <1>3 DEF Fresh
<1>13. \A g \in queue'[s] : g \in known'[s] /\ g \in dispatched'[s]
  BY <1>6, <1>10
<1>14. /\ Safe \subseteq Safe' /\ Sent \subseteq Sent' /\ Waiting' \subseteq Sent'
       /\ dispatched'[s] \subseteq Sent'
       /\ \A g \in Sent' : g \in Sent \/ g \in queue'[s]
       /\ \A g \in InFlight \cup queue[s] : g \in InFlight' \cup queue'[s]
  BY <1>1, <1>2, <1>6, <1>9, <1>11
<1>15. SharedQueue'
  <2>1. known' = queue' BY <1>5, <1>10
  <2>2. dispatched'[s] \cap Waiting' = {} BY <1>2, <1>6, <1>9, <1>10
  <2>3. queue'[s] \subseteq dispatched'[s] BY <1>6, <1>10
  <2>. QED BY <1>1, <1>3, <1>5, <1>10, <2>1, <2>2, <2>3 DEF SharedQueue
<1> HIDE DEF s
<1>16. FreshIsEmpty' /\ QueueIsKept' /\ CallsAreKept' /\ OnlySent' /\ SentIsSomewhere'
  <2>1. s = active' BY <1>3 DEF s
  <2>2. flying' = {} BY <1>3, <1>10
  <2>. QED BY <1>1, <1>3, <1>6, <1>7, <1>12, <1>13, <1>14, <2>1, <2>2, OneSession
<1>. QED BY <1>7, <1>8, <1>15, <1>16 DEF IInv, Guidance

\* Only a child answers later, and never one that was not active.
LEMMA CallFacts ==
    ASSUME IInv, NEW f \in flying
    PROVE  /\ remote /\ f.id \in Ids /\ f.to \in SessionIds /\ ~Fresh(f.to) /\ f.id \in Sent
           /\ f.id \in Safe \/ (f.id \in dispatched[f.to] /\ (f.to = active \/ addressable[f.to]))
<1>1. f.id \in Ids /\ f.to \in SessionIds BY DEF IInv, TypeOK
<1>2. remote BY DEF IInv, Guidance, SharedQueue
<1>3. ~Fresh(f.to) BY <1>1 DEF IInv, Guidance, FreshIsEmpty, Fresh
<1>. QED BY <1>1, <1>2, <1>3 DEF IInv, Guidance, OnlySent, CallsAreKept

\* The child has queued the steer.  A session that was closed meanwhile gives
\* it back with whatever else the host now knows it holds.
LEMMA SteerLandsStep == ASSUME IInv, NEW f \in flying, SteerLands(f) PROVE IInv'
<1> DEFINE s == f.to
           q == queue[s] \cup {f.id}
<1>1. /\ remote /\ f.id \in Ids /\ s \in SessionIds /\ ~Fresh(s) /\ f.id \in Sent
      /\ f.id \in Safe \/ (f.id \in dispatched[s] /\ (s = active \/ addressable[s]))
  BY CallFacts
<1>2. UNCHANGED <<next, open, active, addressable, abort, calls, told, cause, missed, sealed,
                  sess, pc, capture, returned, outcome, decided, heard, refused, remote>>
  BY DEF SteerLands, aborts, loop, history
<1>3. /\ dispatched \in [SessionIds -> SUBSET Ids] /\ known \in [SessionIds -> SUBSET Ids]
      /\ queue \in [SessionIds -> SUBSET Ids] /\ pending \in [Ids -> Nat]
  BY DEF IInv, TypeOK
<1>4. flying' = flying \ {f} /\ Requeued(s, q, dispatched[s])
  BY DEF SteerLands
<1>5. q \in SUBSET Ids BY <1>1, <1>3
<1>6. PICK ids \in SUBSET Ids :
        /\ ids = IF active = s /\ ~addressable[s] THEN dispatched[s] \cap q ELSE {}
        /\ pending' \in [Ids -> Nat]
        /\ {dispatched, queue, known}' \subseteq [SessionIds -> SUBSET Ids]
        /\ Waiting' = Waiting \cup ids
        /\ dispatched'[s] = dispatched[s] \ ids
        /\ known'[s] = IF active = s /\ ~addressable[s] /\ dispatched[s] # {} THEN {} ELSE q
        /\ queue'[s] = q
        /\ \A r \in SessionIds : r # s =>
             queue'[r] = queue[r] /\ known'[r] = known[r] /\ dispatched'[r] = dispatched[r]
  <2>1. CASE active = s /\ ~addressable[s]
    <3> DEFINE back == dispatched[s] \cap q
    <3>1. TakesBack(s, q, q, back) BY <1>4, <2>1 DEF Requeued, Reclaim, TakesBack
    <3>2. /\ back \in SUBSET Ids /\ back \in SUBSET dispatched[s] /\ TypeOK
          /\ s \in SessionIds /\ q \in SUBSET Ids
      BY <1>1, <1>5 DEF IInv
    <3> HIDE DEF back, q, s
    <3>3. pending' \in [Ids -> Nat] /\ Waiting' = Waiting \cup back
      BY ONLY <3>1, <3>2, ReclaimedMailbox
    <3>4. /\ {dispatched, queue, known}' \subseteq [SessionIds -> SUBSET Ids]
          /\ dispatched'[s] = dispatched[s] \ back
          /\ known'[s] = IF dispatched[s] = {} THEN q ELSE {}
          /\ queue'[s] = IF dispatched[s] = {} \/ remote THEN q ELSE {}
          /\ \A r \in SessionIds : r # s =>
               queue'[r] = queue[r] /\ known'[r] = known[r] /\ dispatched'[r] = dispatched[r]
      BY ONLY <3>1, <3>2, ReclaimedSession
    <3>5. back = dispatched[s] \cap q BY DEF back
    <3>. QED BY <1>1, <2>1, <3>2, <3>3, <3>4, <3>5
  <2>2. CASE ~(active = s /\ ~addressable[s])
    <3>1. /\ queue' = [queue EXCEPT ![s] = q] /\ known' = [known EXCEPT ![s] = q]
          /\ dispatched' = [dispatched EXCEPT ![s] = dispatched[s]] /\ pending' = pending
      BY <1>4, <2>2 DEF Requeued
    <3>2. /\ {dispatched, queue, known}' \subseteq [SessionIds -> SUBSET Ids]
          /\ dispatched' = dispatched /\ known'[s] = q /\ queue'[s] = q
          /\ \A r \in SessionIds : r # s => queue'[r] = queue[r] /\ known'[r] = known[r]
      BY <1>1, <1>3, <1>5, <3>1
    <3>3. Waiting' = Waiting BY <3>1 DEF Waiting
    <3> HIDE DEF q, s
    <3>4. {} \in SUBSET Ids OBVIOUS
    <3>. QED BY <1>3, <2>2, <3>1, <3>2, <3>3, <3>4
  <2>. QED BY <2>1, <2>2
<1>7. TypeOK' BY <1>2, <1>4, <1>6 DEF IInv, TypeOK
<1>8. Control' BY <1>2, ControlUntouched DEF IInv
<1>9. Safe' = Safe \cup ids /\ Sent' = Sent BY <1>2, <1>6 DEF Safe, Sent
<1>10. /\ Waiting \subseteq Sent /\ \A r \in SessionIds : dispatched[r] \subseteq Sent
       /\ \A g \in queue[s] :
            \/ g \in Safe
            \/ s = active /\ g \in known[s] /\ g \in dispatched[s]
            \/ s # active /\ remote /\ addressable[s]
  BY <1>1 DEF IInv, Guidance, OnlySent, QueueIsKept
<1>11. \A r \in SessionIds : Fresh(r)' => Fresh(r) /\ r # s BY <1>1, <1>2 DEF Fresh
<1>12. \A g \in queue'[s] :
         \/ g \in Safe'
         \/ s = active' /\ g \in known'[s] /\ g \in dispatched'[s]
         \/ s # active' /\ remote /\ addressable'[s]
  <2> SUFFICES ASSUME NEW g \in q
               PROVE  \/ g \in Safe'
                      \/ s = active /\ g \in known'[s] /\ g \in dispatched'[s]
                      \/ s # active /\ remote /\ addressable[s]
    BY <1>2, <1>6
  <2>1. CASE s # active BY <1>1, <1>9, <1>10, <2>1
  <2>2. CASE s = active
    <3>1. g \in Safe \/ g \in dispatched[s] BY <1>1, <1>10, <2>2
    <3>. QED BY <1>6, <1>9, <2>2, <3>1
  <2>. QED BY <2>1, <2>2
<1>13. \A c \in flying' : c.to = s =>
         c.id \in Safe' \/ (c.id \in dispatched'[s] /\ (s = active' \/ addressable'[s]))
  <2> SUFFICES ASSUME NEW c \in flying, c.to = s
               PROVE  c.id \in Safe' \/ (c.id \in dispatched'[s] /\ (s = active \/ addressable[s]))
    BY <1>2, <1>4
  <2>. QED BY <1>6, <1>9 DEF IInv, Guidance, CallsAreKept
<1>14. \A g \in InFlight \cup queue[s] : g \in InFlight' \cup queue'[s]
  <2>1. \A c \in flying : c.id \in InFlight' \/ c.id = f.id BY <1>4 DEF InFlight
  <2>2. \A g \in InFlight : g \in InFlight' \/ g = f.id BY <2>1 DEF InFlight
  <2>. QED BY <1>6, <2>2
<1>15. /\ Safe \subseteq Safe' /\ Sent \subseteq Sent' /\ Waiting' \subseteq Sent'
       /\ dispatched'[s] \subseteq Sent' /\ flying' \subseteq flying
       /\ \A g \in Sent' : g \in Sent
  BY <1>1, <1>4, <1>6, <1>9, <1>10
<1> HIDE DEF s, q
<1>16. FreshIsEmpty' /\ QueueIsKept' /\ CallsAreKept' /\ OnlySent' /\ SentIsSomewhere'
  BY <1>1, <1>2, <1>6, <1>7, <1>11, <1>12, <1>13, <1>14, <1>15, OneSession
<1>17. SharedQueue' BY <1>1, <1>2 DEF SharedQueue
<1>. QED BY <1>7, <1>8, <1>16, <1>17 DEF IInv, Guidance

\* The child has refused the steer: the operator hears of it, or the envelope
\* goes back to the mailbox with what the closed session still holds.
LEMMA SteerFailsStep == ASSUME IInv, NEW f \in flying, SteerFails(f) PROVE IInv'
<1> DEFINE s == f.to
           kept == dispatched[s] \ {f.id}
           back == kept \cap known[s]
<1>1. /\ remote /\ f.id \in Ids /\ s \in SessionIds /\ ~Fresh(s) /\ f.id \in Sent
      /\ f.id \in Safe \/ (f.id \in dispatched[s] /\ (s = active \/ addressable[s]))
  BY CallFacts
<1>2. /\ UNCHANGED <<next, open, active, addressable, abort, calls, told, cause, missed, sealed,
                     queue, sess, pc, capture, returned, outcome, decided, heard, remote>>
      /\ flying' = flying \ {f}
  BY DEF SteerFails, aborts, loop
<1>3. /\ dispatched \in [SessionIds -> SUBSET Ids] /\ known \in [SessionIds -> SUBSET Ids]
      /\ pending \in [Ids -> Nat] /\ refused \subseteq Ids
  BY DEF IInv, TypeOK
<1>4. kept \in SUBSET Ids /\ back \cup {f.id} \in SUBSET Ids BY <1>1, <1>3
<1>5. /\ pending' \in [Ids -> Nat] /\ refused' \subseteq Ids /\ refused \subseteq refused'
      /\ dispatched' \in [SessionIds -> SUBSET Ids] /\ known' \in [SessionIds -> SUBSET Ids]
      /\ \A r \in SessionIds : r # s => known'[r] = known[r] /\ dispatched'[r] = dispatched[r]
      /\ dispatched'[s] \subseteq dispatched[s]
      /\ Waiting \subseteq Waiting' /\ Waiting' \subseteq Waiting \cup back \cup {f.id}
      /\ f.id \in refused' \cup Waiting'
      /\ \A g \in dispatched[s] : g \in dispatched'[s] \cup refused' \cup Waiting'
      /\ \A g \in dispatched[s] \cap known[s] :
           g \in (dispatched'[s] \cap known'[s]) \cup refused' \cup Waiting'
  <2>1. CASE addressable[s]
    <3>1. /\ refused' = refused \cup {f.id} /\ dispatched' = [dispatched EXCEPT ![s] = kept]
          /\ pending' = pending /\ known' = known
      BY <2>1 DEF SteerFails
    <3>2. Waiting' = Waiting BY <3>1 DEF Waiting
    <3>. QED BY <1>1, <1>3, <1>4, <3>1, <3>2
  <2>2. CASE ~addressable[s]
    <3>1. /\ pending' = Put(pending, back \cup {f.id}) /\ refused' = refused
          /\ dispatched' = [dispatched EXCEPT ![s] = kept \ back]
          /\ known' = [known EXCEPT ![s] = IF kept = {} THEN known[s] ELSE {}]
      BY <2>2 DEF SteerFails
    <3>2. pending' \in [Ids -> Nat] /\ Waiting' = Waiting \cup (back \cup {f.id})
      BY <1>3, <1>4, <3>1, PutAdds
    <3>3. /\ dispatched' \in [SessionIds -> SUBSET Ids] /\ known' \in [SessionIds -> SUBSET Ids]
          /\ \A r \in SessionIds : r # s => known'[r] = known[r] /\ dispatched'[r] = dispatched[r]
          /\ dispatched'[s] = kept \ back
      BY <1>1, <1>3, <1>4, <3>1
    <3>. QED BY <1>3, <3>1, <3>2, <3>3
  <2>. QED BY <2>1, <2>2
<1>6. TypeOK' BY <1>2, <1>5 DEF IInv, TypeOK
<1>7. Control' BY <1>2, ControlUntouched DEF IInv
<1>8. Safe \subseteq Safe' /\ refused' \subseteq Safe' /\ Waiting' \subseteq Safe' /\ Sent' = Sent
  BY <1>2, <1>5, SafeGrows DEF Safe, Sent
<1>9. /\ Waiting \subseteq Sent /\ \A r \in SessionIds : dispatched[r] \subseteq Sent
      /\ \A g \in queue[s] :
           \/ g \in Safe
           \/ s = active /\ g \in known[s] /\ g \in dispatched[s]
           \/ s # active /\ remote /\ addressable[s]
  BY <1>1 DEF IInv, Guidance, OnlySent, QueueIsKept
<1>10. \A r \in SessionIds : Fresh(r)' => Fresh(r) /\ r # s BY <1>1, <1>2 DEF Fresh
<1>11. \A g \in queue'[s] :
         \/ g \in Safe'
         \/ s = active' /\ g \in known'[s] /\ g \in dispatched'[s]
         \/ s # active' /\ remote /\ addressable'[s]
  BY <1>2, <1>5, <1>8, <1>9
<1>12. \A c \in flying' : c.to = s =>
         c.id \in Safe' \/ (c.id \in dispatched'[s] /\ (s = active' \/ addressable'[s]))
  <2> SUFFICES ASSUME NEW c \in flying, c.to = s
               PROVE  c.id \in Safe' \/ (c.id \in dispatched'[s] /\ (s = active \/ addressable[s]))
    BY <1>2
  <2>1. c.id \in Safe \/ (c.id \in dispatched[s] /\ (s = active \/ addressable[s]))
    BY DEF IInv, Guidance, CallsAreKept
  <2>. QED BY <1>5, <1>8, <2>1
<1>13. \A g \in InFlight \cup queue[s] : g \in Safe' \cup InFlight' \cup queue'[s]
  <2>1. \A c \in flying : c.id \in InFlight' \/ c.id = f.id BY <1>2 DEF InFlight
  <2>2. \A g \in InFlight : g \in InFlight' \/ g = f.id BY <2>1 DEF InFlight
  <2>. QED BY <1>2, <1>5, <1>8, <2>2
<1>14. /\ Sent \subseteq Sent' /\ Waiting' \subseteq Sent' /\ dispatched'[s] \subseteq Sent'
       /\ flying' \subseteq flying /\ \A g \in Sent' : g \in Sent
  BY <1>1, <1>2, <1>5, <1>8, <1>9
<1> HIDE DEF s, kept, back
<1>15. FreshIsEmpty' /\ QueueIsKept' /\ CallsAreKept' /\ OnlySent' /\ SentIsSomewhere'
  BY <1>1, <1>2, <1>5, <1>6, <1>8, <1>10, <1>11, <1>12, <1>13, <1>14, OneSession
<1>16. SharedQueue' BY <1>1, <1>2 DEF SharedQueue
<1>. QED BY <1>6, <1>7, <1>15, <1>16 DEF IInv, Guidance

\* An abort moves no envelope.
LEMMA AbortStep ==
    ASSUME IInv, RequestAbort \/ CauseArises \/ RetryAnnounced \/ \E s \in calls : AbortMarks(s)
    PROVE  IInv'
<1>1. UNCHANGED <<mailbox, bridge, sealed, queues, flying, loop, history>>
  BY DEF RequestAbort, CauseArises, RetryAnnounced, AbortMarks
<1>2. UNCHANGED <<next, open, pending, active, addressable, dispatched, sess, pc, capture, returned,
                  outcome, decided, heard, refused, remote, queue, known>>
  BY <1>1 DEF mailbox, bridge, loop, history, queues
<1>3. abort' \in BOOLEAN /\ {calls, told, missed}' \subseteq SUBSET SessionIds /\ cause' \in BOOLEAN
  <2>1. abort \in BOOLEAN /\ {calls, told, missed} \subseteq SUBSET SessionIds /\ cause \in BOOLEAN
        /\ active \in SessionIds \cup {0}
    BY DEF IInv, TypeOK
  <2>2. CASE RequestAbort BY <2>1, <2>2 DEF RequestAbort
  <2>3. CASE CauseArises \/ RetryAnnounced BY <2>1, <2>3 DEF CauseArises, RetryAnnounced
  <2>4. CASE \E s \in calls : AbortMarks(s)
    <3>1. PICK s \in calls : AbortMarks(s) BY <2>4
    <3>2. CASE s = sess /\ cause BY <2>1, <3>1, <3>2 DEF AbortMarks
    <3>3. CASE ~(s = sess /\ cause) BY <2>1, <3>1, <3>3 DEF AbortMarks
    <3>. QED BY <3>2, <3>3
  <2>. QED BY <2>2, <2>3, <2>4
<1>4. TypeOK' BY <1>1, <1>2, <1>3 DEF IInv, TypeOK
<1>5. Control' BY <1>1, <1>2, ControlUntouched DEF IInv
<1>6. FreshIsEmpty' BY <1>1, <1>2 DEF IInv, Guidance, FreshIsEmpty
<1>7. Guidance' BY <1>1, <1>2, <1>6, GuidanceUntouched DEF IInv
<1>. QED BY <1>4, <1>5, <1>7 DEF IInv

-----------------------------------------------------------------------------
(* The agent's steps, and the release.                                     *)

\* Whatever of the active session's envelopes a reclaim finds is kept: all it
\* has, or those the host knows to be queued.
LEMMA ReclaimKeeps ==
    ASSUME IInv, TypeOK', active # 0, NEW s \in SessionIds, s = active,
           NEW q \in SUBSET queue[s], NEW k \in SUBSET Ids, NEW ids \in SUBSET dispatched[s],
           TakesBack(s, q, k, ids), ids = dispatched[s] \/ (k = known[s] /\ ids = dispatched[s] \cap k),
           UNCHANGED <<next, flying, history>>, active' = s \/ active' = 0,
           \A r \in SessionIds : r # s => addressable'[r] = addressable[r],
           active' = 0 => ids = dispatched[s] \/ addressable'[s],
           \A r \in SessionIds : Fresh(r)' => Fresh(r) /\ r # s
    PROVE  FreshIsEmpty' /\ QueueIsKept' /\ CallsAreKept' /\ OnlySent' /\ SentIsSomewhere'
<1>1. /\ q \in SUBSET Ids /\ q \in SUBSET queue[s] /\ k \in SUBSET Ids /\ ids \in SUBSET dispatched[s]
      /\ TakesBack(s, q, k, ids) /\ s \in SessionIds /\ TypeOK
  BY DEF IInv, TypeOK
<1>2. /\ Waiting' = Waiting \cup ids
      /\ dispatched'[s] = dispatched[s] \ ids
      /\ queue'[s] \subseteq queue[s]
      /\ \A r \in SessionIds : r # s =>
           queue'[r] = queue[r] /\ known'[r] = known[r] /\ dispatched'[r] = dispatched[r]
  <2>1. Waiting' = Waiting \cup ids BY ONLY <1>1, ReclaimedMailbox
  <2>2. /\ dispatched'[s] = dispatched[s] \ ids
        /\ queue'[s] = IF dispatched[s] = {} \/ remote THEN q ELSE {}
        /\ \A r \in SessionIds : r # s =>
             queue'[r] = queue[r] /\ known'[r] = known[r] /\ dispatched'[r] = dispatched[r]
    BY ONLY <1>1, ReclaimedSession
  <2>. QED BY <2>1, <2>2
<1>3. heard' = heard /\ refused' = refused /\ remote' = remote /\ flying' = flying
  BY DEF history
<1>4. Safe' = Safe \cup ids /\ Sent' = Sent /\ InFlight' = InFlight
  BY <1>2, <1>3 DEF Safe, Sent, InFlight
<1>5. /\ \A g \in queue[s] : g \in Safe \/ (g \in known[s] /\ g \in dispatched[s])
      /\ \A f \in flying : f.to = s => f.id \in Safe \/ f.id \in dispatched[s]
      /\ Waiting \subseteq Sent /\ dispatched[s] \subseteq Sent
  BY DEF IInv, Guidance, QueueIsKept, CallsAreKept, OnlySent
<1>6. \A g \in queue[s] : g \in Safe' BY <1>4, <1>5
<1>7. \A f \in flying : f.to = s =>
        f.id \in Safe' \/ (f.id \in dispatched'[s] /\ (s = active' \/ addressable'[s]))
  BY <1>2, <1>4, <1>5
<1>8. /\ Safe \subseteq Safe' /\ Waiting' \subseteq Sent' /\ dispatched'[s] \subseteq Sent'
      /\ \A g \in queue'[s] : g \in Safe'
      /\ \A g \in InFlight \cup queue[s] : g \in Safe' \cup InFlight'
  BY <1>2, <1>4, <1>5, <1>6
<1>9. \A r \in SessionIds : r # s => (r = active' <=> r = active)
  <2>1. \A r \in SessionIds : r # 0 BY ControlAssumption DEF SessionIds
  <2>. QED BY <2>1
<1>. QED BY <1>2, <1>3, <1>4, <1>7, <1>8, <1>9, OneSession

\* A shared session whose queue is reclaimed has none.
LEMMA SharedReclaim ==
    ASSUME IInv, TypeOK', ~remote, active # 0, NEW s \in SessionIds, s = active,
           NEW ids \in SUBSET dispatched[s], TakesBack(s, queue[s], known[s], ids),
           ids = dispatched[s] \/ ids = dispatched[s] \cap known[s],
           UNCHANGED <<flying, remote>>, active' = s \/ active' = 0
    PROVE  SharedQueue'
<1>0. /\ queue[s] \in SUBSET Ids /\ known[s] \in SUBSET Ids
      /\ ids \in SUBSET dispatched[s] /\ TakesBack(s, queue[s], known[s], ids)
      /\ s \in SessionIds /\ TypeOK
  BY DEF IInv, TypeOK
<1>1. /\ flying = {} /\ known = queue /\ queue[s] \subseteq dispatched[s]
      /\ dispatched[s] \cap Waiting = {}
      /\ \A g \in Ids : pending[g] <= 1
  BY DEF IInv, Guidance, SharedQueue
<1>2. /\ dispatched[s] \in SUBSET Ids /\ queue[s] \in SUBSET Ids /\ known[s] \in SUBSET Ids
      /\ \A g \in Ids : pending[g] \in Nat
      /\ queue \in [SessionIds -> SUBSET Ids]
  BY DEF IInv, TypeOK
<1>3. /\ Waiting' = Waiting \cup ids
      /\ \A g \in Ids : pending'[g] = IF g \in ids THEN pending[g] + 1 ELSE pending[g]
      /\ dispatched'[s] = dispatched[s] \ ids
      /\ queue'[s] = IF dispatched[s] = {} \/ remote THEN queue[s] ELSE {}
  <2>1. /\ Waiting' = Waiting \cup ids
        /\ \A g \in Ids : pending'[g] = IF g \in ids THEN pending[g] + 1 ELSE pending[g]
    BY ONLY <1>0, ReclaimedMailbox
  <2>2. /\ dispatched'[s] = dispatched[s] \ ids
        /\ queue'[s] = IF dispatched[s] = {} \/ remote THEN queue[s] ELSE {}
    BY ONLY <1>0, ReclaimedSession
  <2>. QED BY <2>1, <2>2
<1>4. queue'[s] = {} BY <1>1, <1>3
<1>5. known' = queue' BY <1>1 DEF TakesBack
<1>6. \A g \in Ids : pending'[g] <= 1
  <2>1. \A g \in ids : g \in Ids /\ g \notin Waiting BY <1>1, <1>2
  <2>2. \A g \in ids : pending[g] = 0 BY <1>2, <2>1 DEF Waiting
  <2>. QED BY <1>1, <1>2, <1>3, <2>2
<1>7. dispatched'[s] \cap Waiting' = {} BY <1>1, <1>3
<1>. QED BY <1>1, <1>4, <1>5, <1>6, <1>7 DEF SharedQueue

\* The capture is pushed and the session sealed.
LEMMA EmitStep == ASSUME IInv, NEW kind \in {"handoff", "end"}, Emit(kind) PROVE IInv'
<1> DEFINE s == sess
           ids == dispatched[s] \cap known[s]
<1>1. s = active /\ s \in SessionIds /\ active # 0 /\ ~Fresh(s)
  BY ActiveIsNotFresh DEF IInv, Control, ActiveIsLive, Emit, MayCapture
<1>2. UNCHANGED <<next, open, active, abort, calls, told, cause, missed, flying, sess, pc, returned,
                  outcome, decided, heard, refused, remote>>
  BY DEF Emit, aborts, history
<1>3. /\ sealed' = [sealed EXCEPT ![s] = TRUE] /\ addressable' = [addressable EXCEPT ![s] = FALSE]
      /\ capture' = kind
  BY DEF Emit
<1>4. TakesBack(s, queue[s], known[s], ids) BY DEF Emit, Reclaim, TakesBack
<1>5. /\ dispatched[s] \in SUBSET Ids /\ queue[s] \in SUBSET Ids /\ known[s] \in SUBSET Ids
      /\ ids \in SUBSET dispatched[s] /\ TypeOK
      /\ addressable \in [SessionIds -> BOOLEAN] /\ sealed \in [SessionIds -> BOOLEAN]
  BY <1>1 DEF IInv, TypeOK
<1> HIDE DEF s
<1>6. pending' \in [Ids -> Nat] /\ {dispatched, queue, known}' \subseteq [SessionIds -> SUBSET Ids]
  <2>1. pending' \in [Ids -> Nat] BY ONLY <1>1, <1>4, <1>5, ReclaimedMailbox
  <2>2. {dispatched, queue, known}' \subseteq [SessionIds -> SUBSET Ids]
    BY ONLY <1>1, <1>4, <1>5, ReclaimedSession
  <2>. QED BY <2>1, <2>2
<1>7. TypeOK' BY <1>1, <1>2, <1>3, <1>5, <1>6 DEF IInv, TypeOK
<1>8. Control'
  <2>1. ActiveIsLive' BY <1>2 DEF IInv, Control, ActiveIsLive
  <2>2. SealCloses' BY <1>1, <1>2, <1>3, <1>5 DEF SealCloses
  <2>. QED BY <2>1, <2>2 DEF Control
<1>9. FreshIsEmpty' /\ QueueIsKept' /\ CallsAreKept' /\ OnlySent' /\ SentIsSomewhere'
  <2>1. \A r \in SessionIds : Fresh(r)' => Fresh(r) /\ r # s BY <1>1, <1>2 DEF Fresh
  <2>2. active' = s /\ active' # 0 BY <1>1, <1>2
  <2>3. \A r \in SessionIds : r # s => addressable'[r] = addressable[r]
    BY <1>3, <1>5
  <2>4. UNCHANGED <<next, flying, history>> BY <1>2 DEF history
  <2>. QED BY <1>1, <1>4, <1>5, <1>7, <2>1, <2>2, <2>3, <2>4, ReclaimKeeps
<1>10. SharedQueue'
  <2>1. CASE remote BY <1>2, <2>1 DEF SharedQueue
  <2>2. CASE ~remote BY <1>1, <1>2, <1>4, <1>5, <1>7, <2>2, SharedReclaim
  <2>. QED BY <2>1, <2>2
<1>. QED BY <1>7, <1>8, <1>9, <1>10 DEF IInv, Guidance

\* The emission's result arrives: whatever was dispatched goes back, and a
\* child forgets its queue.
LEMMA EmissionReturnsStep == ASSUME IInv, EmissionReturns PROVE IInv'
<1> DEFINE s == sess
           ids == dispatched[s]
           q == IF remote THEN {} ELSE queue[s]
           k == IF remote THEN {} ELSE known[s]
<1>1. s = active /\ s \in SessionIds /\ active # 0 /\ ~Fresh(s)
  BY ActiveIsNotFresh DEF IInv, Control, ActiveIsLive, EmissionReturns
<1>2. UNCHANGED <<next, open, active, addressable, sealed, abort, calls, told, cause, missed, flying,
                  sess, pc, capture, outcome, decided, heard, refused, remote>>
  BY DEF EmissionReturns, aborts, history
<1>3. returned' = TRUE BY DEF EmissionReturns
<1>4. TakesBack(s, q, k, ids) BY DEF EmissionReturns, Reclaim, TakesBack
<1>5. /\ q \in SUBSET Ids /\ k \in SUBSET Ids /\ q \in SUBSET queue[s]
      /\ ids \in SUBSET dispatched[s] /\ ids = dispatched[s] /\ TypeOK
      /\ (~remote => q = queue[s] /\ k = known[s])
  BY <1>1 DEF IInv, TypeOK
<1> HIDE DEF s, q, k, ids
<1>6. pending' \in [Ids -> Nat] /\ {dispatched, queue, known}' \subseteq [SessionIds -> SUBSET Ids]
  <2>1. pending' \in [Ids -> Nat] BY ONLY <1>1, <1>4, <1>5, ReclaimedMailbox
  <2>2. {dispatched, queue, known}' \subseteq [SessionIds -> SUBSET Ids]
    BY ONLY <1>1, <1>4, <1>5, ReclaimedSession
  <2>. QED BY <2>1, <2>2
<1>7. TypeOK' BY <1>1, <1>2, <1>3, <1>6 DEF IInv, TypeOK
<1>8. Control' BY <1>2, ControlUntouched DEF IInv
<1>9. FreshIsEmpty' /\ QueueIsKept' /\ CallsAreKept' /\ OnlySent' /\ SentIsSomewhere'
  <2>1. \A r \in SessionIds : Fresh(r)' => Fresh(r) /\ r # s BY <1>1, <1>2 DEF Fresh
  <2>2. active' = s /\ active' # 0 BY <1>1, <1>2
  <2>3. UNCHANGED <<next, flying, history>> BY <1>2 DEF history
  <2>. QED BY <1>1, <1>2, <1>4, <1>5, <1>7, <2>1, <2>2, <2>3, ReclaimKeeps
<1>10. SharedQueue'
  <2>1. CASE remote BY <1>2, <2>1 DEF SharedQueue
  <2>2. CASE ~remote BY <1>1, <1>2, <1>4, <1>5, <1>7, <2>2, SharedReclaim
  <2>. QED BY <2>1, <2>2
<1>. QED BY <1>7, <1>8, <1>9, <1>10 DEF IInv, Guidance

\* A session is released: its envelopes are reclaimed, all of them if it was
\* closed, and what is queued of them otherwise.
LEMMA ReleaseStep == ASSUME IInv, Release PROVE IInv'
<1> DEFINE s == sess
           ids == IF ~addressable[s] THEN dispatched[s] ELSE dispatched[s] \cap known[s]
<1>1. s = active /\ s \in SessionIds /\ active # 0 /\ ~Fresh(s)
  BY ActiveIsNotFresh DEF IInv, Control, ActiveIsLive, Release
<1>2. UNCHANGED <<next, open, addressable, sealed, abort, calls, told, cause, missed, flying, sess, capture,
                  returned, outcome, decided, heard, refused, remote>>
  BY DEF Release, aborts, history
<1>3. pc' = "disposing" /\ active' = 0 BY DEF Release
<1>4. TakesBack(s, queue[s], known[s], ids) BY DEF Release, Reclaim, TakesBack
<1>5. /\ queue[s] \in SUBSET Ids /\ known[s] \in SUBSET Ids /\ queue[s] \in SUBSET queue[s]
      /\ ids \in SUBSET dispatched[s] /\ TypeOK
      /\ ids = dispatched[s] \/ ids = dispatched[s] \cap known[s]
      /\ ids = dispatched[s] \/ addressable[s]
  BY <1>1 DEF IInv, TypeOK
<1> HIDE DEF s, ids
<1>6. pending' \in [Ids -> Nat] /\ {dispatched, queue, known}' \subseteq [SessionIds -> SUBSET Ids]
  <2>1. pending' \in [Ids -> Nat] BY ONLY <1>1, <1>4, <1>5, ReclaimedMailbox
  <2>2. {dispatched, queue, known}' \subseteq [SessionIds -> SUBSET Ids]
    BY ONLY <1>1, <1>4, <1>5, ReclaimedSession
  <2>. QED BY <2>1, <2>2
<1>7. TypeOK' BY <1>1, <1>2, <1>3, <1>6 DEF IInv, TypeOK, Places
<1>8. Control'
  <2>1. sess # 0 BY DEF IInv, Control, ActiveIsLive, Release
  <2>2. ActiveIsLive' BY <1>2, <1>3, <2>1 DEF ActiveIsLive
  <2>3. SealCloses' BY <1>3 DEF SealCloses
  <2>. QED BY <2>2, <2>3 DEF Control
<1>9. FreshIsEmpty' /\ QueueIsKept' /\ CallsAreKept' /\ OnlySent' /\ SentIsSomewhere'
  <2>1. \A r \in SessionIds : Fresh(r)' => Fresh(r) /\ r # s
    <3>1. ~(s > sess) BY <1>1 DEF Fresh
    <3>. QED BY <1>2, <1>3, <3>1 DEF Fresh
  <2>2. UNCHANGED <<next, flying, history>> BY <1>2 DEF history
  <2>. QED BY <1>1, <1>2, <1>3, <1>4, <1>5, <1>7, <2>1, <2>2, ReclaimKeeps
<1>10. SharedQueue'
  <2>1. CASE remote BY <1>2, <2>1 DEF SharedQueue
  <2>2. CASE ~remote BY <1>1, <1>2, <1>3, <1>4, <1>5, <1>7, <2>2, SharedReclaim
  <2>. QED BY <2>1, <2>2
<1>. QED BY <1>7, <1>8, <1>9, <1>10 DEF IInv, Guidance

\* The agent takes a queued message.  What a closed child still queues goes
\* back; a closed shared session has nothing to take.
LEMMA ConsumeStep == ASSUME IInv, NEW g \in Ids, Consume(g) PROVE IInv'
<1> DEFINE s == sess
           q == queue[s] \ {g}
<1>1. s = active /\ s \in SessionIds /\ active # 0 /\ ~Fresh(s) /\ g \in queue[s]
  BY ActiveIsNotFresh DEF IInv, Control, ActiveIsLive, Consume
<1>2. UNCHANGED <<next, open, active, addressable, abort, calls, told, cause, missed, sealed, flying,
                  sess, pc, capture, returned, outcome, decided, refused, remote>>
  BY DEF Consume, aborts, loop
<1>3. /\ dispatched \in [SessionIds -> SUBSET Ids] /\ known \in [SessionIds -> SUBSET Ids]
      /\ queue \in [SessionIds -> SUBSET Ids] /\ pending \in [Ids -> Nat] /\ TypeOK
  BY DEF IInv, TypeOK
<1>4. /\ heard' \in [Ids -> Nat]
      /\ \A h \in Ids : heard'[h] = IF h = g THEN heard[h] + 1 ELSE heard[h]
  <2>1. heard \in [Ids -> Nat] /\ heard' = [heard EXCEPT ![g] = heard[g] + 1]
    BY DEF IInv, TypeOK, Consume
  <2>2. heard[g] + 1 \in Nat BY <2>1
  <2>. QED BY <2>1, <2>2
<1>5. q \in SUBSET Ids /\ Requeued(s, q, dispatched[s])
  BY <1>1, <1>3 DEF Consume
<1>6. ~remote => /\ addressable[s] /\ known = queue /\ queue[s] \subseteq dispatched[s]
                 /\ dispatched[s] \cap Waiting = {} /\ flying = {}
                 /\ \A h \in Ids : pending[h] <= 1
  BY <1>1 DEF IInv, Guidance, SharedQueue
<1>7. PICK ids \in SUBSET Ids :
        /\ ids = IF ~addressable[s] THEN dispatched[s] \cap q ELSE {}
        /\ pending' \in [Ids -> Nat]
        /\ {dispatched, queue, known}' \subseteq [SessionIds -> SUBSET Ids]
        /\ Waiting' = Waiting \cup ids
        /\ dispatched'[s] = dispatched[s] \ ids
        /\ addressable[s] => known'[s] = q /\ pending' = pending
        /\ queue'[s] = q
        /\ \A r \in SessionIds : r # s =>
             queue'[r] = queue[r] /\ known'[r] = known[r] /\ dispatched'[r] = dispatched[r]
  <2>1. CASE ~addressable[s]
    <3> DEFINE back == dispatched[s] \cap q
    <3>1. TakesBack(s, q, q, back) BY <1>1, <1>5, <2>1 DEF Requeued, Reclaim, TakesBack
    <3>2. /\ back \in SUBSET Ids /\ back \in SUBSET dispatched[s] /\ TypeOK
          /\ s \in SessionIds /\ q \in SUBSET Ids
      BY <1>1, <1>3, <1>5
    <3> HIDE DEF back, q, s
    <3>3. pending' \in [Ids -> Nat] /\ Waiting' = Waiting \cup back
      BY ONLY <3>1, <3>2, ReclaimedMailbox
    <3>4. /\ {dispatched, queue, known}' \subseteq [SessionIds -> SUBSET Ids]
          /\ dispatched'[s] = dispatched[s] \ back
          /\ queue'[s] = IF dispatched[s] = {} \/ remote THEN q ELSE {}
          /\ \A r \in SessionIds : r # s =>
               queue'[r] = queue[r] /\ known'[r] = known[r] /\ dispatched'[r] = dispatched[r]
      BY ONLY <3>1, <3>2, ReclaimedSession
    <3>5. back = dispatched[s] \cap q BY DEF back
    <3>. QED BY <1>6, <2>1, <3>2, <3>3, <3>4, <3>5
  <2>2. CASE addressable[s]
    <3>1. /\ queue' = [queue EXCEPT ![s] = q] /\ known' = [known EXCEPT ![s] = q]
          /\ dispatched' = [dispatched EXCEPT ![s] = dispatched[s]] /\ pending' = pending
      BY <1>5, <2>2 DEF Requeued
    <3>2. /\ {dispatched, queue, known}' \subseteq [SessionIds -> SUBSET Ids]
          /\ dispatched' = dispatched /\ known'[s] = q /\ queue'[s] = q
          /\ \A r \in SessionIds : r # s => queue'[r] = queue[r] /\ known'[r] = known[r]
      BY <1>1, <1>3, <1>5, <3>1
    <3>3. Waiting' = Waiting BY <3>1 DEF Waiting
    <3> HIDE DEF q, s
    <3>4. {} \in SUBSET Ids OBVIOUS
    <3>. QED BY <1>3, <2>2, <3>1, <3>2, <3>3, <3>4
  <2>. QED BY <2>1, <2>2
<1>8. TypeOK' BY <1>2, <1>4, <1>7 DEF IInv, TypeOK
<1>9. Control' BY <1>2, ControlUntouched DEF IInv
<1>10. /\ Safe \subseteq Safe' /\ ids \subseteq Safe' /\ g \in Safe'
       /\ Sent' = Sent /\ InFlight' = InFlight
  <2>1. \A h \in Ids : heard[h] \in Nat BY DEF IInv, TypeOK
  <2>2. \A h \in Ids : heard[h] > 0 => heard'[h] > 0 BY <1>4, <2>1
  <2>3. heard'[g] > 0 BY <1>4, <2>1
  <2>. QED BY <1>2, <1>7, <2>2, <2>3 DEF Safe, Sent, InFlight
<1>11. /\ \A h \in queue[s] : h \in Safe \/ (h \in known[s] /\ h \in dispatched[s])
       /\ \A f \in flying : f.to = s => f.id \in Safe \/ f.id \in dispatched[s]
       /\ Waiting \subseteq Sent /\ dispatched[s] \subseteq Sent
  BY <1>1 DEF IInv, Guidance, QueueIsKept, CallsAreKept, OnlySent
<1>12. \A h \in queue'[s] : h \in Safe' \/ (h \in known'[s] /\ h \in dispatched'[s])
  BY <1>7, <1>10, <1>11
<1>13. \A f \in flying' : f.to = s => f.id \in Safe' \/ f.id \in dispatched'[s]
  BY <1>2, <1>7, <1>10, <1>11
<1>14. /\ Waiting' \subseteq Sent' /\ dispatched'[s] \subseteq Sent'
       /\ \A h \in InFlight \cup queue[s] : h \in Safe' \cup InFlight' \cup queue'[s]
  BY <1>7, <1>10, <1>11
<1>15. \A r \in SessionIds : Fresh(r)' => Fresh(r) /\ r # s BY <1>1, <1>2 DEF Fresh
<1>16. SharedQueue'
  <2> SUFFICES ASSUME ~remote PROVE SharedQueue'
    BY <1>2 DEF SharedQueue
  <2>1. known' = queue' BY <1>5, <1>6 DEF Requeued
  <2>. QED BY <1>1, <1>2, <1>6, <1>7, <2>1 DEF SharedQueue
<1> HIDE DEF s, q
<1>17. FreshIsEmpty' /\ QueueIsKept' /\ CallsAreKept' /\ OnlySent' /\ SentIsSomewhere'
  <2>1. s = active' /\ flying' = flying BY <1>1, <1>2
  <2>. QED BY <1>1, <1>2, <1>7, <1>8, <1>10, <1>12, <1>13, <1>14, <1>15, <2>1, OneSession
<1>. QED BY <1>8, <1>9, <1>16, <1>17 DEF IInv, Guidance

-----------------------------------------------------------------------------
(* The steps of the loop.                                                  *)

\* A step that only moves the loop.
LEMMA QuietStep ==
    ASSUME IInv, UNCHANGED <<next, pending, bridge, sealed, queues, flying, history>>,
           open' \in BOOLEAN, abort' \in BOOLEAN, cause' \in BOOLEAN,
           {calls, told, missed}' \subseteq SUBSET SessionIds,
           sess' \in SessionIds \cup {0}, pc' \in Places, returned' \in BOOLEAN,
           capture' \in {"none", "handoff", "end"},
           outcome' \in Fates, decided' \in 0..(MaxGuidance + 1),
           ActiveIsLive', \A r \in SessionIds : Fresh(r)' => Fresh(r)
    PROVE  IInv'
<1>1. UNCHANGED <<next, pending, active, addressable, dispatched, sealed, queue, known,
                  flying, heard, refused, remote>>
  BY DEF bridge, history, queues
<1>2. TypeOK' BY <1>1 DEF IInv, TypeOK
<1>3. Control' BY <1>1 DEF IInv, Control, SealCloses
<1>4. FreshIsEmpty'
  <2> SUFFICES ASSUME NEW r \in SessionIds, Fresh(r)'
               PROVE  queue'[r] = {} /\ \A f \in flying' : f.to # r
    BY DEF FreshIsEmpty, Fresh
  <2>1. Fresh(r) OBVIOUS
  <2>. QED BY <1>1, <2>1 DEF IInv, Guidance, FreshIsEmpty, Fresh
<1>5. Guidance' BY <1>1, <1>4, GuidanceUntouched DEF IInv, queues, history
<1>. QED BY <1>2, <1>3, <1>5 DEF IInv

\* A step between two awaits of one turn, of the session that is active.
LEMMA TurnStep ==
    ASSUME IInv, Still, sess' = sess, pc \notin {"between", "top", "disposing", "closed"},
           pc' \in Places \ {"between", "disposing", "closed"}, returned' \in BOOLEAN,
           capture' \in {"none", "handoff", "end"},
           outcome' \in Fates /\ decided' \in 0..(MaxGuidance + 1)
    PROVE  IInv'
<1>1. active = sess /\ sess # 0 /\ UNCHANGED <<active, sess>>
  BY DEF IInv, Control, ActiveIsLive, Still, bridge
<1>2. ActiveIsLive' BY <1>1 DEF ActiveIsLive, Places
<1>3. \A r \in SessionIds : Fresh(r)' => Fresh(r) BY <1>1 DEF Fresh
<1>4. /\ UNCHANGED <<next, pending, bridge, sealed, queues, flying, history>>
      /\ open' \in BOOLEAN /\ abort' \in BOOLEAN /\ {calls, told, missed}' \subseteq SUBSET SessionIds
      /\ cause' \in BOOLEAN /\ sess' \in SessionIds \cup {0} /\ pc' \in Places
  BY <1>1 DEF IInv, TypeOK, Still, mailbox, aborts
<1>. QED BY <1>2, <1>3, <1>4, QuietStep

LEMMA SettleStep ==
    ASSUME IInv, NEW here \in Places \ {"between", "top", "disposing", "closed"},
           NEW next_pc \in Places \ {"between", "disposing", "closed"},
           NEW how \in Fates,
           Settle(here, next_pc, how)
    PROVE  IInv'
BY TurnStep DEF Settle, IInv, TypeOK

LEMMA DecideStep == ASSUME IInv, NEW here \in {"settled", "guard"}, DecideEnd(here) PROVE IInv'
<1>1. /\ Still /\ UNCHANGED <<sess, returned, capture>> /\ outcome' \in Fates
      /\ decided' = next /\ pc \in {"settled", "guard"} /\ pc' = "commit"
  BY DEF DecideEnd, Fates
<1>2. decided' \in 0..(MaxGuidance + 1) BY <1>1, ControlAssumption DEF IInv, TypeOK
<1>. QED BY <1>1, <1>2, TurnStep DEF IInv, TypeOK, Places

LEMMA SettlingSteps ==
    ASSUME IInv,
           \/ FinishUserAbort \/ RecoverNoEmission \/ SessionFails \/ StartEndGuard
           \/ EndGuardStops \/ EndGuardPasses \/ Accept \/ CapCloses \/ Commit
    PROVE  IInv'
<1> USE DEF Places, Fates
<1>1. CASE FinishUserAbort BY <1>1, SettleStep DEF FinishUserAbort
<1>2. CASE RecoverNoEmission BY <1>2, SettleStep DEF RecoverNoEmission
<1>3. CASE SessionFails BY <1>3, SettleStep DEF SessionFails
<1>4. CASE StartEndGuard BY <1>4, SettleStep DEF StartEndGuard
<1>5. CASE EndGuardStops BY <1>5, SettleStep DEF EndGuardStops
<1>6. CASE EndGuardPasses BY <1>6, DecideStep DEF EndGuardPasses
<1>7. CASE Accept BY <1>7, SettleStep, DecideStep DEF Accept
<1>8. CASE CapCloses BY <1>8, SettleStep DEF CapCloses
<1>9. CASE Commit BY <1>9, SettleStep DEF Commit, IInv, TypeOK
<1>. QED BY <1>1, <1>2, <1>3, <1>4, <1>5, <1>6, <1>7, <1>8, <1>9

LEMMA AwaitingSteps == ASSUME IInv, Installed \/ Assess \/ PromptEnds PROVE IInv'
<1>1. Still /\ UNCHANGED <<sess, returned, capture, outcome, decided>>
  BY DEF Installed, Assess, PromptEnds, Still
<1>2. /\ pc \notin {"between", "top", "disposing", "closed"}
      /\ pc' \in Places \ {"between", "disposing", "closed"}
  BY DEF Installed, Assess, PromptEnds, Places
<1>. QED BY <1>1, <1>2, TurnStep DEF IInv, TypeOK

\* The next session, which nothing has reached yet.
LEMMA SpawnStep == ASSUME IInv, Spawn PROVE IInv'
<1> USE ControlAssumption
<1>1. /\ pc = "between" /\ active = 0 /\ sess' = sess + 1 /\ pc' = "top" /\ active' = active
      /\ UNCHANGED <<mailbox, bridge, abort, calls, told, missed, sealed, queues, flying, capture,
                     returned, outcome, decided, history>>
      /\ cause' = FALSE
  BY DEF IInv, Control, ActiveIsLive, Spawn, bridge
<1>2. sess \in Nat /\ sess' \in SessionIds
  BY <1>1 DEF Spawn, IInv, TypeOK, SessionIds
<1>3. ActiveIsLive' BY <1>1, <1>2 DEF ActiveIsLive, SessionIds
<1>4. \A r \in SessionIds : Fresh(r)' => Fresh(r) BY <1>1, <1>2 DEF Fresh, SessionIds
<1>5. /\ UNCHANGED <<next, pending, bridge, sealed, queues, flying, history>>
      /\ open' \in BOOLEAN /\ abort' \in BOOLEAN /\ {calls, told, missed}' \subseteq SUBSET SessionIds
      /\ cause' \in BOOLEAN /\ pc' \in Places /\ returned' \in BOOLEAN
      /\ capture' \in {"none", "handoff", "end"}
      /\ outcome' \in Fates /\ decided' \in 0..(MaxGuidance + 1)
  BY <1>1 DEF IInv, TypeOK, mailbox, Places
<1>. QED BY <1>2, <1>3, <1>4, <1>5, QuietStep

\* The session is gone, and the run goes on to the next one or is closed.
LEMMA OverStep == ASSUME IInv, Disposed \/ Close PROVE IInv'
<1>1. /\ active = 0 /\ pc \in {"between", "disposing"} /\ pc' \in {"between", "closed"}
      /\ UNCHANGED <<active, sess>>
  BY DEF IInv, Control, ActiveIsLive, Disposed, Close, Settle, Still, bridge
<1>2. ActiveIsLive' BY <1>1 DEF ActiveIsLive
<1>3. \A r \in SessionIds : Fresh(r)' => Fresh(r) BY <1>1 DEF Fresh
<1>4. UNCHANGED <<next, pending, bridge, sealed, queues, flying, history>>
  BY DEF Disposed, Close, Settle, Still, mailbox
<1>5. /\ open' \in BOOLEAN /\ abort' \in BOOLEAN /\ {calls, told, missed}' \subseteq SUBSET SessionIds
      /\ cause' \in BOOLEAN /\ sess' \in SessionIds \cup {0} /\ pc' \in Places
      /\ returned' \in BOOLEAN /\ capture' \in {"none", "handoff", "end"}
      /\ outcome' \in Fates /\ decided' \in 0..(MaxGuidance + 1)
  BY <1>1 DEF IInv, TypeOK, Disposed, Close, Settle, Still, mailbox, aborts, Places, Fates
<1>. QED BY <1>2, <1>3, <1>4, <1>5, QuietStep

\* The session is installed at its first turn, and stays at the others.
LEMMA SetActiveStep == ASSUME IInv, SetActive PROVE IInv'
<1> DEFINE s == sess
<1>1. /\ pc = "top" /\ pc' = "installing" /\ s \in SessionIds /\ s # 0 /\ active \in {0, s}
      /\ UNCHANGED <<next, pending, open, abort, told, cause, missed, sealed, queue, known, flying, sess,
                     capture, returned, outcome, decided, heard, refused, remote>>
  BY DEF IInv, TypeOK, Control, ActiveIsLive, SetActive, mailbox, queues, history
<1>2. CASE active = s
  <2>1. UNCHANGED <<bridge, calls>> BY <1>2 DEF SetActive
  <2>2. active' = s /\ sess' = s BY <1>1, <1>2, <2>1 DEF bridge
  <2>3. ActiveIsLive' BY <1>1, <2>2 DEF ActiveIsLive
  <2>4. \A r \in SessionIds : Fresh(r)' => Fresh(r) BY <1>1, <2>2 DEF Fresh
  <2>5. UNCHANGED <<next, pending, bridge, sealed, queues, flying, history>>
    BY <1>1, <2>1 DEF queues, history
  <2>6. /\ open' \in BOOLEAN /\ abort' \in BOOLEAN /\ {calls, told, missed}' \subseteq SUBSET SessionIds
        /\ cause' \in BOOLEAN /\ sess' \in SessionIds \cup {0} /\ pc' \in Places
        /\ returned' \in BOOLEAN /\ capture' \in {"none", "handoff", "end"}
        /\ outcome' \in Fates /\ decided' \in 0..(MaxGuidance + 1)
    BY <1>1, <2>1 DEF IInv, TypeOK, Places
  <2>. QED BY <2>3, <2>4, <2>5, <2>6, QuietStep
<1>3. CASE active = 0
  <2>1. /\ active' = s /\ addressable' = [addressable EXCEPT ![s] = ~sealed[s]]
        /\ dispatched' = [dispatched EXCEPT ![s] = {}]
        /\ calls' = calls \cup (IF abort THEN {s} ELSE {})
    BY <1>1, <1>3 DEF SetActive
  <2>2. queue[s] = {} /\ \A f \in flying : f.to # s
    BY <1>1, <1>3 DEF IInv, Guidance, FreshIsEmpty
  <2>3. /\ addressable \in [SessionIds -> BOOLEAN] /\ sealed \in [SessionIds -> BOOLEAN]
        /\ dispatched \in [SessionIds -> SUBSET Ids] /\ calls \subseteq SessionIds
    BY DEF IInv, TypeOK
  <2>4. /\ addressable' \in [SessionIds -> BOOLEAN] /\ addressable'[s] = ~sealed[s]
        /\ dispatched' \in [SessionIds -> SUBSET Ids] /\ dispatched'[s] = {}
        /\ calls' \subseteq SessionIds
        /\ \A r \in SessionIds : r # s =>
             dispatched'[r] = dispatched[r] /\ addressable'[r] = addressable[r]
    BY <1>1, <2>1, <2>3
  <2>5. TypeOK' BY <1>1, <2>1, <2>4 DEF IInv, TypeOK, Places
  <2>6. Control'
    <3>1. ActiveIsLive' BY <1>1, <2>1 DEF ActiveIsLive
    <3>2. SealCloses' BY <1>1, <2>1, <2>4 DEF SealCloses
    <3>. QED BY <3>1, <3>2 DEF Control
  <2>7. Safe' = Safe /\ Sent' = Sent /\ InFlight' = InFlight /\ Waiting' = Waiting
    BY <1>1 DEF Safe, Sent, InFlight, Waiting
  <2>8. \A r \in SessionIds : Fresh(r)' => Fresh(r) /\ r # s
    BY <1>1, ControlAssumption DEF Fresh, SessionIds
  <2>9. \A r \in SessionIds : r # s => (r = active' <=> r = active)
    BY <1>3, <2>1, ControlAssumption DEF SessionIds
  <2>10. Waiting \subseteq Sent BY DEF IInv, Guidance, OnlySent
  <2>11. SharedQueue' BY <1>1, <2>1, <2>2, <2>4, <2>7 DEF IInv, Guidance, SharedQueue
  <2> HIDE DEF s
  <2>12. FreshIsEmpty' /\ QueueIsKept' /\ CallsAreKept' /\ OnlySent' /\ SentIsSomewhere'
    BY <1>1, <2>2, <2>4, <2>5, <2>7, <2>8, <2>9, <2>10, OneSession
  <2>. QED BY <2>5, <2>6, <2>11, <2>12 DEF IInv, Guidance
<1>. QED BY <1>1, <1>2, <1>3

\* The mailbox goes into the prompt.
LEMMA PromptStep == ASSUME IInv, Prompt PROVE IInv'
<1>1. /\ pc' = "prompting" /\ capture' = "none" /\ returned' = FALSE
      /\ active = sess /\ sess # 0
      /\ UNCHANGED <<next, open, active, addressable, dispatched, abort, calls, told, cause, missed,
                     sealed, queue, known, flying, sess, outcome, decided, refused, remote>>
  BY DEF IInv, Control, ActiveIsLive, Prompt, bridge, aborts, queues
<1>2. /\ \A g \in Ids : pending[g] \in Nat /\ heard[g] \in Nat
      /\ heard' = [g \in Ids |-> heard[g] + pending[g]] /\ pending' = [g \in Ids |-> 0]
  BY DEF IInv, TypeOK, Prompt
<1>3. /\ pending' \in [Ids -> Nat] /\ heard' \in [Ids -> Nat] /\ Waiting' = {}
      /\ \A g \in Ids : pending'[g] = 0 /\ (heard'[g] > 0 <=> heard[g] > 0 \/ pending[g] > 0)
  BY <1>2 DEF Waiting
<1>4. TypeOK' BY <1>1, <1>3 DEF IInv, TypeOK, Places
<1>5. Control' BY <1>1 DEF IInv, Control, ActiveIsLive, SealCloses
<1>6. Safe' = Safe /\ Sent' = Sent /\ InFlight' = InFlight
  BY <1>1, <1>3 DEF Safe, Sent, InFlight, Waiting
<1> USE DEF IInv, Guidance
<1>7. FreshIsEmpty' BY <1>1 DEF FreshIsEmpty
<1>8. QueueIsKept' BY <1>1, <1>6 DEF QueueIsKept
<1>9. CallsAreKept' BY <1>1, <1>6 DEF CallsAreKept
<1>10. OnlySent' BY <1>1, <1>3, <1>6 DEF OnlySent
<1>11. SentIsSomewhere' BY <1>1, <1>6 DEF SentIsSomewhere
<1>12. SharedQueue' BY <1>1, <1>3 DEF SharedQueue
<1>. QED BY <1>4, <1>5, <1>7, <1>8, <1>9, <1>10, <1>11, <1>12

\* The seam is opened again, and the session with it when it is reopened.
LEMMA RepromptStep ==
    ASSUME IInv, NEW here \in {"settled", "guard"}, NEW reopened \in BOOLEAN,
           Reprompt(here, reopened)
    PROVE  IInv'
<1>1. /\ pc = here /\ pc' = "top" /\ active = sess /\ sess # 0 /\ sess \in SessionIds
      /\ UNCHANGED <<next, pending, open, active, dispatched, abort, calls, told, cause, missed,
                     queue, known, flying, sess, capture, returned, outcome, decided, heard, refused, remote>>
  BY DEF IInv, TypeOK, Control, ActiveIsLive, Reprompt, mailbox, aborts, queues, history
<1>2. /\ sealed' = [sealed EXCEPT ![sess] = FALSE]
      /\ addressable' = [addressable EXCEPT ![sess] = addressable[sess] \/ reopened]
      /\ addressable \in [SessionIds -> BOOLEAN] /\ sealed \in [SessionIds -> BOOLEAN]
  BY DEF IInv, TypeOK, Reprompt
<1>3. /\ sealed' \in [SessionIds -> BOOLEAN] /\ addressable' \in [SessionIds -> BOOLEAN]
      /\ ~sealed'[sess] /\ \A s \in SessionIds : addressable[s] => addressable'[s]
  BY <1>1, <1>2
<1>4. TypeOK' BY <1>1, <1>3 DEF IInv, TypeOK, Places
<1>5. Control'
  <2>1. ActiveIsLive' BY <1>1 DEF ActiveIsLive
  <2>2. SealCloses' BY <1>1, <1>3 DEF SealCloses
  <2>. QED BY <2>1, <2>2 DEF Control
<1>6. FreshIsEmpty' BY <1>1 DEF IInv, Guidance, FreshIsEmpty
<1>7. UNCHANGED <<next, pending, dispatched, queues, flying, history, active>>
  BY <1>1 DEF queues, history
<1>8. Guidance' BY <1>3, <1>6, <1>7, GuidanceUntouched DEF IInv
<1>. QED BY <1>4, <1>5, <1>8 DEF IInv

LEMMA RepromptingSteps ==
    ASSUME IInv, SendBack \/ DeferEnd \/ Reject \/ EndGuardRetries \/ EndGuardPassesLate
    PROVE  IInv'
BY RepromptStep DEF SendBack, DeferEnd, Reject, EndGuardRetries, EndGuardPassesLate

LEMMA StutterStep == ASSUME IInv, UNCHANGED vars PROVE IInv'
<1>1. /\ UNCHANGED <<next, pending, bridge, sealed, queues, flying, history>>
      /\ UNCHANGED <<open, aborts, loop, active>>
  BY DEF vars, mailbox, bridge
<1>2. ActiveIsLive' BY <1>1 DEF IInv, Control, ActiveIsLive, loop
<1>3. \A r \in SessionIds : Fresh(r)' => Fresh(r) BY <1>1 DEF Fresh, loop
<1>. QED BY <1>1, <1>2, <1>3, QuietStep DEF IInv, TypeOK, aborts, loop

LEMMA InvariantStep == IInv /\ [Next]_vars => IInv'
<1> SUFFICES ASSUME IInv, [Next]_vars PROVE IInv'
  OBVIOUS
<1>1. CASE Operator
  <2>1. CASE SteerToSession BY <2>1, SteerToChildStep, SteerToSharedStep
  <2>. QED BY <1>1, <2>1, FollowUpStep, SteerToMailboxStep, SteerToClosedSessionStep, AbortStep
           DEF Operator
<1>2. CASE Agent
  BY <1>2, ConsumeStep, EmitStep, EmissionReturnsStep, AwaitingSteps, AbortStep DEF Agent
<1>3. CASE Answers BY <1>3, SteerLandsStep, SteerFailsStep DEF Answers
<1>4. CASE Marks BY <1>4, AbortStep DEF Marks
<1>5. CASE LoopStep
  BY <1>5, SpawnStep, SetActiveStep, AwaitingSteps, PromptStep, SettlingSteps, RepromptingSteps,
     ReleaseStep, OverStep
     DEF LoopStep
<1>6. CASE Rest BY <1>6, StutterStep DEF Rest
<1>7. CASE UNCHANGED vars BY <1>7, StutterStep
<1>. QED BY <1>1, <1>2, <1>3, <1>4, <1>5, <1>6, <1>7 DEF Next

\* Every reachable state of RunControl satisfies the conjunction the theorems
\* about it follow from.
THEOREM Invariant == Spec => []IInv
<1>. QED BY InitialInvariant, InvariantStep, PTL DEF Spec

-----------------------------------------------------------------------------
(* What the end of a run was decided on.                                   *)

\* From its emission on the session takes no steer, and once the result of
\* the emission is delivered nothing is dispatched to it any more.
EmittedIsReclaimed ==
    /\ pc \in {"prompting", "settled", "guard"} /\ capture # "none" => ~addressable[sess]
    /\ pc = "prompting" /\ returned => capture # "none" /\ dispatched[sess] = {}
    /\ pc \in {"settled", "guard"} /\ capture # "none" => dispatched[sess] = {}
    /\ pc = "guard" => capture # "none"

\* A session is not gone before its calls are answered.
CallsAreLive == \A f \in flying : f.to = sess /\ pc \notin {"between", "closed"}

Ending == {"commit", "final", "disposing", "closed"}

\* Whatever was sent before a role's end was decided has been answered by then.
EndIsAnswered ==
    /\ decided > 0 <=> outcome = "done"
    /\ decided > 0 => pc \in Ending
    /\ decided <= next
    /\ decided > 0 =>
          \A g \in Sent : g < decided => heard[g] > 0 \/ g \in refused \/ KeptByChild(g)

EndInv == EmittedIsReclaimed /\ CallsAreLive /\ EndIsAnswered

LEMMA EmittedStays ==
    ASSUME IInv, EmittedIsReclaimed, UNCHANGED <<sess, pc, capture, returned, addressable>>,
           pc \in {"prompting", "settled", "guard"} =>
             addressable[sess] \/ dispatched'[sess] \subseteq dispatched[sess]
    PROVE  EmittedIsReclaimed'
BY DEF EmittedIsReclaimed

\* What a session was sent and is asked about again: its own part of the
\* dispatched envelopes shrinks.
LEMMA RequeueShrinks ==
    ASSUME IInv, NEW s \in SessionIds, NEW q, Requeued(s, q, dispatched[s])
    PROVE  \A r \in SessionIds : dispatched'[r] \subseteq dispatched[r]
<1>1. dispatched \in [SessionIds -> SUBSET Ids] BY DEF IInv, TypeOK
<1>2. \/ dispatched' = [dispatched EXCEPT ![s] = dispatched[s]]
      \/ dispatched' = [dispatched EXCEPT ![s] = dispatched[s] \ (dispatched[s] \cap q)]
  BY DEF Requeued, Reclaim
<1>. QED BY <1>1, <1>2

LEMMA EmittedStep == ASSUME IInv, EmittedIsReclaimed, [Next]_vars PROVE EmittedIsReclaimed'
<1>1. dispatched \in [SessionIds -> SUBSET Ids] /\ addressable \in [SessionIds -> BOOLEAN]
  BY DEF IInv, TypeOK
<1>2. /\ sess # 0 /\ sess \in SessionIds /\ active = sess
      \/ pc \in {"between", "top", "disposing", "closed"}
  BY DEF IInv, TypeOK, Control, ActiveIsLive
<1>3. ASSUME UNCHANGED <<bridge, loop>> PROVE EmittedIsReclaimed'
  BY <1>3, EmittedStays DEF bridge, loop
<1>4. ASSUME UNCHANGED <<addressable, loop>>,
             \A r \in SessionIds : dispatched'[r] \subseteq dispatched[r]
      PROVE  EmittedIsReclaimed'
  BY <1>2, <1>4, EmittedStays DEF loop
<1>5. ASSUME pc' \notin {"prompting", "settled", "guard"} PROVE EmittedIsReclaimed'
  BY <1>5 DEF EmittedIsReclaimed
<1>6. CASE Operator
  <2>1. CASE FollowUp \/ SteerToMailbox \/ RequestAbort
    BY <1>3, <2>1 DEF FollowUp, SteerToMailbox, RequestAbort
  <2>2. CASE SteerToClosedSession
    <3>1. dispatched' = [dispatched EXCEPT ![active] = dispatched[active] \ (dispatched[active] \cap known[active])]
      BY <2>2 DEF SteerToClosedSession
    <3>2. UNCHANGED <<addressable, loop>> BY <2>2 DEF SteerToClosedSession
    <3>. QED BY <1>1, <1>4, <3>1, <3>2
  <2>3. CASE SteerToSession
    <3>1. UNCHANGED <<addressable, loop>> /\ addressable[active] BY <2>3 DEF SteerToSession
    <3>. QED BY <1>2, <3>1, EmittedStays DEF loop
  <2>. QED BY <1>6, <2>1, <2>2, <2>3 DEF Operator
<1>7. CASE Agent
  <2>1. CASE CauseArises \/ RetryAnnounced BY <1>3, <2>1 DEF CauseArises, RetryAnnounced
  <2>2. ASSUME NEW g \in Ids, Consume(g) PROVE EmittedIsReclaimed'
    <3>1. UNCHANGED <<addressable, loop>> /\ sess \in SessionIds
      BY <1>2, <2>2 DEF Consume
    <3>. QED BY <1>4, <2>2, <3>1, RequeueShrinks DEF Consume
  <2>3. ASSUME NEW kind \in {"handoff", "end"}, Emit(kind) PROVE EmittedIsReclaimed'
    <3>1. /\ pc = "prompting" /\ pc' = pc /\ capture = "none" /\ capture' = kind
          /\ UNCHANGED <<sess, returned>>
          /\ addressable' = [addressable EXCEPT ![sess] = FALSE]
      BY <2>3 DEF Emit, MayCapture
    <3>2. ~returned BY <3>1 DEF EmittedIsReclaimed
    <3>. QED BY <1>1, <1>2, <3>1, <3>2 DEF EmittedIsReclaimed
  <2>4. CASE EmissionReturns
    <3>1. /\ pc = "prompting" /\ capture # "none" /\ returned' = TRUE
          /\ UNCHANGED <<pc, capture, sess, addressable>>
          /\ dispatched' = [dispatched EXCEPT ![sess] = dispatched[sess] \ dispatched[sess]]
      BY <2>4 DEF EmissionReturns, Reclaim
    <3>. QED BY <1>1, <1>2, <3>1 DEF EmittedIsReclaimed
  <2>5. CASE PromptEnds
    <3>1. /\ pc = "prompting" /\ pc' = "settled" /\ (capture # "none" => returned)
          /\ UNCHANGED <<capture, sess, addressable, dispatched>>
      BY <2>5 DEF PromptEnds, bridge
    <3>. QED BY <3>1 DEF EmittedIsReclaimed
  <2>. QED BY <1>7, <2>1, <2>2, <2>3, <2>4, <2>5 DEF Agent
<1>8. CASE Answers
  <2>1. PICK f \in flying : SteerLands(f) \/ SteerFails(f) BY <1>8 DEF Answers
  <2>2. UNCHANGED <<addressable, loop>> /\ f.to \in SessionIds
    BY <2>1 DEF SteerLands, SteerFails, IInv, TypeOK
  <2>3. CASE SteerLands(f) BY <1>4, <2>2, <2>3, RequeueShrinks DEF SteerLands
  <2>4. CASE SteerFails(f)
    <3>1. \A r \in SessionIds : dispatched'[r] \subseteq dispatched[r]
      BY <1>1, <2>2, <2>4 DEF SteerFails
    <3>. QED BY <1>4, <2>2, <3>1
  <2>. QED BY <2>1, <2>3, <2>4
<1>9. CASE Marks BY <1>3, <1>9 DEF Marks, AbortMarks
<1>10. CASE LoopStep
  <2>1. CASE StartEndGuard
    <3>1. /\ pc = "settled" /\ pc' = "guard" /\ capture = "end"
          /\ UNCHANGED <<capture, sess, addressable, dispatched>>
      BY <2>1 DEF StartEndGuard, Settle, Still, bridge
    <3>. QED BY <3>1 DEF EmittedIsReclaimed
  <2>2. CASE Prompt
    <3>1. capture' = "none" /\ returned' = FALSE /\ pc' = "prompting" BY <2>2 DEF Prompt
    <3>. QED BY <3>1 DEF EmittedIsReclaimed
  <2>3. CASE LoopStep /\ ~StartEndGuard /\ ~Prompt
    <3>1. pc' \notin {"prompting", "settled", "guard"}
      BY <2>3 DEF LoopStep, Spawn, SetActive, Installed, Assess, FinishUserAbort, RecoverNoEmission,
           SessionFails, SendBack, DeferEnd, Reject, EndGuardStops, EndGuardRetries,
           EndGuardPassesLate, EndGuardPasses, DecideEnd, Accept, CapCloses, Commit, Release,
           Disposed, Close, Settle, Reprompt
    <3>. QED BY <1>5, <3>1
  <2>. QED BY <1>10, <2>1, <2>2, <2>3
<1>11. CASE Rest \/ UNCHANGED vars BY <1>3, <1>11 DEF Rest, vars
<1>. QED BY <1>6, <1>7, <1>8, <1>9, <1>10, <1>11 DEF Next

LEMMA CallsStep == ASSUME IInv, CallsAreLive, [Next]_vars PROVE CallsAreLive'
<1>1. ASSUME flying' \subseteq flying, UNCHANGED <<sess, pc>> PROVE CallsAreLive'
  BY <1>1 DEF CallsAreLive
<1>2. ASSUME UNCHANGED <<flying, sess>>, pc' \notin {"between", "closed"} PROVE CallsAreLive'
  BY <1>2 DEF CallsAreLive
<1>3. CASE Operator
  <2>1. CASE SteerToSession
    <3>1. /\ active = sess /\ pc \notin {"between", "closed"} /\ UNCHANGED <<sess, pc>>
          /\ flying' \subseteq flying \cup {[id |-> next, to |-> active]}
      BY <2>1, ActiveIsNotFresh DEF SteerToSession, loop, IInv, Control, ActiveIsLive
    <3>. QED BY <3>1 DEF CallsAreLive
  <2>. QED BY <1>1, <1>3, <2>1
           DEF Operator, FollowUp, SteerToMailbox, SteerToClosedSession, RequestAbort, loop
<1>4. CASE Agent
  <2>1. CASE PromptEnds BY <1>2, <2>1 DEF PromptEnds
  <2>. QED BY <1>1, <1>4, <2>1
           DEF Agent, Consume, Emit, EmissionReturns, CauseArises, RetryAnnounced, loop
<1>5. CASE Answers BY <1>1, <1>5 DEF Answers, SteerLands, SteerFails, loop
<1>6. CASE Marks BY <1>1, <1>6 DEF Marks, AbortMarks, loop
<1>7. CASE LoopStep
  <2>1. CASE Spawn BY <2>1 DEF Spawn, CallsAreLive
  <2>2. CASE Disposed \/ Close
    <3>1. flying' = flying /\ sess' = sess /\ \A f \in flying : f.to # sess \/ pc = "between"
      BY <2>2 DEF Disposed, Close, Settle, Still
    <3>. QED BY <3>1 DEF CallsAreLive
  <2>3. CASE LoopStep /\ ~Spawn /\ ~Disposed /\ ~Close
    <3>1. UNCHANGED <<flying, sess>> /\ pc' \notin {"between", "closed"}
      BY <2>3 DEF LoopStep, SetActive, Installed, Assess, Prompt, FinishUserAbort,
           RecoverNoEmission, SessionFails, SendBack, DeferEnd, Reject, StartEndGuard,
           EndGuardStops, EndGuardRetries, EndGuardPassesLate, EndGuardPasses, DecideEnd, Accept,
           CapCloses, Commit, Release, Settle, Still, Reprompt
    <3>. QED BY <1>2, <3>1
  <2>. QED BY <1>7, <2>1, <2>2, <2>3
<1>8. CASE Rest \/ UNCHANGED vars BY <1>1, <1>8 DEF Rest, vars, loop
<1>. QED BY <1>3, <1>4, <1>5, <1>6, <1>7, <1>8 DEF Next

\* What was answered stays so, whatever happens while the end is carried out.
LEMMA AnsweredStays ==
    ASSUME IInv, EndIsAnswered, decided' = decided, next' \in Nat, next <= next',
           decided > 0 <=> outcome' = "done", decided > 0 => pc' \in Ending,
           decided > 0 =>
             /\ heard' = heard /\ refused \subseteq refused' /\ remote' = remote
             /\ addressable' = addressable
             /\ \A s \in SessionIds : s # active => s # active' /\ queue[s] \subseteq queue'[s]
    PROVE  EndIsAnswered'
<1>1. decided \in Nat /\ next \in Nat BY ControlAssumption DEF IInv, TypeOK
<1>2. decided' <= next' BY <1>1 DEF EndIsAnswered
<1>3. ASSUME NEW g \in Sent', decided > 0, g < decided
      PROVE  heard'[g] > 0 \/ g \in refused' \/ KeptByChild(g)'
  <2>1. g \in Sent BY <1>1, <1>3 DEF Sent, Ids, EndIsAnswered
  <2>2. KeptByChild(g) => KeptByChild(g)' BY <1>3 DEF KeptByChild
  <2>. QED BY <1>3, <2>1, <2>2 DEF EndIsAnswered
<1>. QED BY <1>1, <1>2, <1>3 DEF EndIsAnswered

\* When the end is decided the mailbox is empty and the session has nothing
\* left that was not in it.
LEMMA DecisionIsAnswered ==
    ASSUME IInv, EmittedIsReclaimed, CallsAreLive, NEW here \in {"settled", "guard"},
           DecideEnd(here), here = "settled" => capture = "end"
    PROVE  EndIsAnswered'
<1>1. /\ Waiting = {} /\ decided' = next /\ next' = next /\ pc' = "commit" /\ outcome' = "done"
      /\ UNCHANGED <<heard, refused, remote, active, addressable, queue>> /\ pc = here
  BY DEF DecideEnd, Still, mailbox, bridge, queues, history
<1>2. active = sess /\ sess # 0 /\ capture # "none" /\ dispatched[sess] = {}
  BY <1>1 DEF IInv, Control, ActiveIsLive, EmittedIsReclaimed
<1>3. next \in Nat /\ next > 0 BY ControlAssumption DEF IInv, TypeOK
<1>4. Sent' = Sent /\ \A g \in Ids : KeptByChild(g) => KeptByChild(g)'
  BY <1>1 DEF Sent, KeptByChild
<1>5. ASSUME NEW g \in Sent PROVE heard[g] > 0 \/ g \in refused \/ KeptByChild(g)
  <2>1. CASE g \in Safe BY <1>1, <2>1 DEF Safe
  <2>2. CASE g \in InFlight
    <3>1. PICK f \in flying : f.id = g BY <2>2 DEF InFlight
    <3>2. f.to = sess BY DEF CallsAreLive
    <3>3. g \in Safe BY <1>2, <3>1, <3>2 DEF IInv, Guidance, CallsAreKept
    <3>. QED BY <1>1, <3>3 DEF Safe
  <2>3. ASSUME NEW s \in SessionIds, g \in queue[s]
        PROVE  heard[g] > 0 \/ g \in refused \/ KeptByChild(g)
    <3>1. g \in Safe \/ (s # active /\ remote /\ addressable[s])
      BY <1>2, <2>3 DEF IInv, Guidance, QueueIsKept
    <3>. QED BY <1>1, <2>3, <3>1 DEF Safe, KeptByChild
  <2>. QED BY <2>1, <2>2, <2>3 DEF IInv, Guidance, SentIsSomewhere
<1>. QED BY <1>1, <1>3, <1>4, <1>5 DEF EndIsAnswered, Ending, Sent

LEMMA EndStep ==
    ASSUME IInv, EmittedIsReclaimed, CallsAreLive, EndIsAnswered, [Next]_vars
    PROVE  EndIsAnswered'
<1>1. /\ decided \in Nat /\ next \in Nat /\ active \in SessionIds \cup {0} /\ 0 \notin SessionIds
      /\ queue \in [SessionIds -> SUBSET Ids]
  BY ControlAssumption DEF IInv, TypeOK, SessionIds
<1>2. decided > 0 => pc \in Ending /\ (pc \in {"disposing", "closed"} => active = 0)
  BY DEF EndIsAnswered, IInv, Control, ActiveIsLive
<1>3. ASSUME UNCHANGED <<next, bridge, queue, history>>, decided' = decided,
             decided > 0 <=> outcome' = "done", decided > 0 => pc' \in Ending
      PROVE  EndIsAnswered'
  BY <1>1, <1>3, AnsweredStays DEF bridge, history
<1>4. ASSUME UNCHANGED <<active, addressable, loop, heard, remote>>, next' \in {next, next + 1},
             refused \subseteq refused',
             \A s \in SessionIds : s # active => queue[s] \subseteq queue'[s]
      PROVE  EndIsAnswered'
  BY <1>1, <1>4, AnsweredStays DEF loop, EndIsAnswered
<1>5. ASSUME pc \notin Ending, outcome' = outcome \/ outcome' # "done", decided' = decided, next' = next
      PROVE  EndIsAnswered'
  <2>1. decided = 0 /\ outcome # "done" BY <1>1, <1>5 DEF EndIsAnswered
  <2>. QED BY <1>1, <1>5, <2>1, AnsweredStays
<1>6. CASE Operator
  <2>1. CASE FollowUp \/ SteerToMailbox
    BY <1>4, <2>1 DEF FollowUp, SteerToMailbox, bridge, queues, history
  <2>2. CASE RequestAbort BY <1>4, <2>2 DEF RequestAbort, mailbox, bridge, queues, history
  <2>3. CASE SteerToClosedSession
    <3>1. \A s \in SessionIds : s # active => queue[s] \subseteq queue'[s]
      BY <1>1, <2>3 DEF SteerToClosedSession, queues
    <3>. QED BY <1>4, <2>3, <3>1 DEF SteerToClosedSession, history
  <2>4. CASE SteerToSession
    <3>1. \A s \in SessionIds : s # active => queue[s] \subseteq queue'[s]
      BY <1>1, <2>4 DEF SteerToSession, Requeued, Reclaim, queues
    <3>. QED BY <1>4, <2>4, <3>1 DEF SteerToSession, history
  <2>. QED BY <1>6, <2>1, <2>2, <2>3, <2>4 DEF Operator
<1>7. CASE Agent
  <2>1. /\ pc = "prompting" /\ pc' \in {"prompting", "settled"} /\ decided' = decided
        /\ next' = next /\ outcome' = outcome
    BY <1>7 DEF Agent, Consume, Emit, MayCapture, EmissionReturns, CauseArises, RetryAnnounced,
         PromptEnds, loop, mailbox
  <2>. QED BY <1>5, <2>1 DEF Ending
<1>8. CASE Answers
  <2>1. PICK f \in flying : SteerLands(f) \/ SteerFails(f) BY <1>8 DEF Answers
  <2>2. f.to \in SessionIds BY DEF IInv, TypeOK
  <2>3. CASE SteerLands(f)
    <3>1. \A s \in SessionIds : s # active => queue[s] \subseteq queue'[s]
      BY <1>1, <2>2, <2>3 DEF SteerLands, Requeued, Reclaim
    <3>. QED BY <1>4, <2>3, <3>1 DEF SteerLands, history
  <2>4. CASE SteerFails(f)
    BY <1>4, <2>4 DEF SteerFails
  <2>. QED BY <2>1, <2>3, <2>4
<1>9. CASE Marks BY <1>4, <1>9 DEF Marks, AbortMarks, mailbox, bridge, queues, history
<1>10. CASE LoopStep
  <2>1. CASE EndGuardPasses BY <2>1, DecisionIsAnswered DEF EndGuardPasses
  <2>2. CASE Accept
    <3>1. CASE Settle("settled", "commit", "advance") BY <1>5, <3>1 DEF Settle, Still, mailbox, Ending
    <3>2. CASE capture = "end" /\ DecideEnd("settled") BY <3>2, DecisionIsAnswered
    <3>. QED BY <2>2, <3>1, <3>2 DEF Accept
  <2>3. CASE Release
    <3>1. /\ pc = "final" /\ pc' = "disposing" /\ active' = 0
          /\ UNCHANGED <<next, addressable, outcome, decided, history>>
          /\ \A s \in SessionIds : s # sess => queue'[s] = queue[s]
      BY <1>1, <2>3 DEF Release, Reclaim
    <3>2. active = sess BY <3>1 DEF IInv, Control, ActiveIsLive
    <3>3. (decided > 0 <=> outcome' = "done") /\ (decided > 0 => pc' \in Ending)
      BY <3>1 DEF EndIsAnswered, Ending
    <3>. QED BY <1>1, <3>1, <3>2, <3>3, AnsweredStays DEF history
  <2>4. CASE Commit \/ Disposed \/ Close
    <3>1. UNCHANGED <<next, bridge, queue, history>> /\ decided' = decided
      BY <2>4 DEF Commit, Disposed, Close, Settle, Still, mailbox, queues
    <3>2. (decided > 0 <=> outcome' = "done") /\ (decided > 0 => pc' \in Ending)
      <4>1. CASE Commit BY <4>1 DEF Commit, Settle, EndIsAnswered, Ending
      <4>2. CASE Disposed BY <4>2 DEF Disposed, Settle, EndIsAnswered, Ending
      <4>3. CASE Close BY <4>3 DEF Close, EndIsAnswered, Ending
      <4>. QED BY <2>4, <4>1, <4>2, <4>3
    <3>. QED BY <1>3, <3>1, <3>2
  <2>5. CASE CapCloses
    BY <1>5, <2>5 DEF CapCloses, NotAborted, Settle, Still, mailbox, Ending
  <2>6. CASE /\ LoopStep /\ ~EndGuardPasses /\ ~Accept /\ ~Release /\ ~Commit /\ ~Disposed
             /\ ~Close /\ ~CapCloses
    <3>1. CASE Spawn \/ SetActive \/ Installed \/ Assess \/ Prompt
      <4>1. pc \notin Ending /\ outcome' = outcome /\ decided' = decided /\ next' = next
        BY <3>1 DEF Spawn, SetActive, Installed, Assess, Prompt, Still, mailbox, Ending
      <4>. QED BY <1>5, <4>1
    <3>2. CASE SendBack \/ DeferEnd \/ Reject \/ EndGuardRetries \/ EndGuardPassesLate
      <4>1. pc \notin Ending /\ outcome' = outcome /\ decided' = decided /\ next' = next
        BY <3>2 DEF SendBack, DeferEnd, Reject, EndGuardRetries, EndGuardPassesLate, Reprompt,
             mailbox, Ending
      <4>. QED BY <1>5, <4>1
    <3>3. CASE FinishUserAbort \/ RecoverNoEmission \/ SessionFails \/ StartEndGuard \/ EndGuardStops
      <4>1. pc \notin Ending /\ outcome' # "done" /\ decided' = decided /\ next' = next
        BY <3>3 DEF FinishUserAbort, RecoverNoEmission, SessionFails, StartEndGuard, EndGuardStops,
             Settle, Still, mailbox, Ending
      <4>. QED BY <1>5, <4>1
    <3>. QED BY <2>6, <3>1, <3>2, <3>3 DEF LoopStep
  <2>. QED BY <1>10, <2>1, <2>2, <2>3, <2>4, <2>5, <2>6
<1>11. CASE Rest \/ UNCHANGED vars
  BY <1>4, <1>11 DEF Rest, vars, mailbox, bridge, queues, history
<1>. QED BY <1>6, <1>7, <1>8, <1>9, <1>10, <1>11 DEF Next

LEMMA EndInvariant == Spec => []EndInv
<1>1. Init => EndInv
  BY ControlAssumption DEF Init, EndInv, EmittedIsReclaimed, CallsAreLive, EndIsAnswered, Ending
<1>2. IInv /\ EndInv /\ [Next]_vars => EndInv'
  BY EmittedStep, CallsStep, EndStep DEF EndInv
<1>. QED BY <1>1, <1>2, Invariant, PTL DEF Spec

-----------------------------------------------------------------------------
(* The theorems about RunControl.                                          *)

\* Whatever the operator sends is heard, refused, or where a role will find
\* it, for any number of messages and sessions and in both kinds of host, and a
\* run that a role ended had answered all that was sent before that end was
\* decided.  Excepted are what lands in a child after its release, and the
\* mailbox of a run that is over otherwise.  In a host with shared sessions an
\* envelope is in one place only.
THEOREM GuidanceStaysKept == Spec => []GuidanceIsKept
<1>1. IInv /\ EndInv => GuidanceIsKept
  <2> SUFFICES ASSUME IInv, EndInv PROVE GuidanceIsKept
    OBVIOUS
  <2> USE DEF IInv, Guidance
  <2>1. NothingIsLost
    <3> SUFFICES ASSUME NEW g \in Sent
                 PROVE  \/ heard[g] > 0 \/ g \in refused \/ g \in InFlight
                        \/ active # 0 /\ g \in queue[active]
                        \/ KeptByChild(g)
                        \/ g \in Waiting /\ (pc = "closed" => OverWithout(g))
      BY DEF NothingIsLost
    <3>1. CASE g \in Waiting
      <4>1. decided \in Nat /\ g \in Nat BY ControlAssumption DEF TypeOK, Sent, Ids
      <4>2. pc = "closed" /\ outcome = "done" /\ g < decided =>
              heard[g] > 0 \/ g \in refused \/ KeptByChild(g)
        BY DEF EndInv, EndIsAnswered, Ending
      <4>. QED BY <3>1, <4>1, <4>2 DEF OverWithout
    <3>2. CASE g \in Safe /\ g \notin Waiting BY <3>2 DEF Safe
    <3>3. CASE g \in InFlight BY <3>3
    <3>4. ASSUME NEW s \in SessionIds, g \in queue[s]
          PROVE  g \in Safe \/ (active # 0 /\ g \in queue[active]) \/ KeptByChild(g)
      <4>1. 0 \notin SessionIds BY DEF SessionIds
      <4>. QED BY <3>4, <4>1 DEF QueueIsKept, KeptByChild
    <3>. QED BY <3>1, <3>2, <3>3, <3>4 DEF SentIsSomewhere
  <2>2. ~remote => OnePlace
    <3> SUFFICES ASSUME ~remote PROVE OnePlace
      OBVIOUS
    <3>. QED BY DEF SharedQueue, OnePlace
  <2>. QED BY <2>1, <2>2 DEF GuidanceIsKept
<1>. QED BY <1>1, Invariant, EndInvariant, PTL

\* During a prompt an envelope is only heard when the agent takes it.
LEMMA HeardIsConsumed ==
    ASSUME [Next]_vars, pc = "prompting", heard' # heard
    PROVE  \E g \in Ids : Consume(g)
<1>1. ~UNCHANGED history BY DEF history
<1>2. ~Operator
  BY <1>1 DEF Operator, FollowUp, SteerToMailbox, SteerToClosedSession, SteerToSession, RequestAbort
<1>3. ~Answers BY <1>1 DEF Answers, SteerLands, SteerFails
<1>4. ~Marks BY <1>1 DEF Marks, AbortMarks
<1>5. ~LoopStep
  <2>1. ~(SetActive \/ Prompt \/ Release \/ Close)
    BY DEF SetActive, Prompt, Release, Close
  <2>2. ~Still BY <1>1 DEF Still
  <2>3. ~(Spawn \/ Installed \/ Assess) BY <1>1, <2>2 DEF Spawn, Installed, Assess
  <2>4. \A here, next_pc, how : ~Settle(here, next_pc, how) BY <2>2 DEF Settle
  <2>5. \A here, reopened : ~Reprompt(here, reopened) BY <1>1 DEF Reprompt
  <2>6. \A here : ~DecideEnd(here) BY <2>2 DEF DecideEnd
  <2>. QED BY <2>1, <2>3, <2>4, <2>5, <2>6
           DEF LoopStep, FinishUserAbort, RecoverNoEmission, SessionFails, SendBack, DeferEnd,
               Reject, StartEndGuard, EndGuardStops, EndGuardRetries, EndGuardPassesLate,
               EndGuardPasses, Accept, CapCloses, Commit, Disposed
<1>6. ~Rest /\ ~UNCHANGED vars BY <1>1 DEF Rest, vars
<1>7. Agent BY <1>2, <1>3, <1>4, <1>5, <1>6 DEF Next
<1>8. \A kind \in {"handoff", "end"} : ~Emit(kind) BY <1>1 DEF Emit
<1>9. ~(EmissionReturns \/ PromptEnds \/ CauseArises \/ RetryAnnounced)
  BY <1>1 DEF EmissionReturns, PromptEnds, CauseArises, RetryAnnounced
<1>. QED BY <1>7, <1>8, <1>9 DEF Agent

\* A shared session whose role has emitted its transition hears no more of
\* what the operator steers: its queue was reclaimed at the seal.
THEOREM SealedRolesHearNothing == Spec => SealedHearsNothing
<1>1. IInv /\ [Next]_vars =>
        [pc = "prompting" /\ pc' = "prompting" /\ heard' # heard => remote \/ ~sealed[sess]]_vars
  <2> SUFFICES ASSUME IInv, [Next]_vars, pc = "prompting", heard' # heard, ~remote, sealed[sess]
               PROVE  FALSE
    OBVIOUS
  <2>1. active = sess /\ sess # 0 BY DEF IInv, Control, ActiveIsLive
  <2>2. ~addressable[active] BY <2>1 DEF IInv, Control, SealCloses
  <2>3. queue[sess] = {} BY <2>1, <2>2 DEF IInv, Guidance, SharedQueue
  <2>4. \A g \in Ids : ~Consume(g) BY <2>3 DEF Consume
  <2>. QED BY <2>4, HeardIsConsumed
<1>. QED BY <1>1, Invariant, PTL DEF Spec, SealedHearsNothing

\* The live session of an aborted run is told, or about to be, by the abort
\* itself when it was active and otherwise when it is installed; or its call
\* came while another reason stood.
AbortIsTold == abort /\ active # 0 => active \in calls \cup told \cup missed

\* An operator's abort reaches every session that is active from then on, the
\* one it found and those installed after it: the check before a first prompt,
\* which waits for the call, cannot miss it.  Only where another terminal reason
\* stands when the call arrives does it leave no mark.
THEOREM AbortReachesTheSession == Spec => []AbortIsTold
<1>1. Init => AbortIsTold BY DEF Init, AbortIsTold
<1>2. ASSUME AbortIsTold, UNCHANGED <<aborts, bridge>> PROVE AbortIsTold'
  BY <1>2 DEF AbortIsTold, aborts, bridge
<1>3. ASSUME AbortIsTold, UNCHANGED aborts, active' \in {0, active} PROVE AbortIsTold'
  BY <1>3 DEF AbortIsTold, aborts
<1>4. ASSUME AbortIsTold, [Next]_vars PROVE AbortIsTold'
  <2>1. CASE Operator
    <3>1. CASE RequestAbort BY <3>1 DEF RequestAbort, AbortIsTold, bridge
    <3>2. CASE FollowUp BY <1>3, <1>4, <3>2 DEF FollowUp, bridge
    <3>3. CASE SteerToMailbox BY <1>3, <1>4, <3>3 DEF SteerToMailbox, bridge
    <3>4. CASE SteerToClosedSession BY <1>3, <1>4, <3>4 DEF SteerToClosedSession
    <3>5. CASE SteerToSession BY <1>3, <1>4, <3>5 DEF SteerToSession
    <3>. QED BY <2>1, <3>1, <3>2, <3>3, <3>4, <3>5 DEF Operator
  <2>2. CASE Agent
    <3>1. CASE CauseArises \/ RetryAnnounced
      BY <1>4, <3>1 DEF CauseArises, RetryAnnounced, AbortIsTold, bridge
    <3>. QED BY <1>3, <1>4, <2>2, <3>1
             DEF Agent, Consume, Emit, EmissionReturns, PromptEnds, bridge
  <2>3. CASE Answers BY <1>3, <1>4, <2>3 DEF Answers, SteerLands, SteerFails
  <2>4. CASE Marks BY <1>4, <2>4 DEF Marks, AbortMarks, AbortIsTold, bridge
  <2>5. CASE LoopStep
    <3>1. CASE SetActive BY <1>4, <3>1 DEF SetActive, AbortIsTold, bridge
    <3>2. CASE Release BY <1>3, <1>4, <3>2 DEF Release
    <3>3. CASE Prompt \/ Close BY <1>2, <1>4, <3>3 DEF Prompt, Close
    <3>4. ASSUME Still PROVE AbortIsTold' BY <1>2, <1>4, <3>4 DEF Still
    <3>5. CASE Installed \/ Assess BY <3>4, <3>5 DEF Installed, Assess
    <3>8. CASE Spawn BY <1>4, <3>8 DEF Spawn, AbortIsTold, bridge
    <3>9. ASSUME NEW here, DecideEnd(here) PROVE AbortIsTold' BY <3>4, <3>9 DEF DecideEnd
    <3>6. ASSUME NEW here, NEW next_pc, NEW how, Settle(here, next_pc, how) PROVE AbortIsTold'
      BY <3>4, <3>6 DEF Settle
    <3>7. ASSUME NEW here, NEW reopened, Reprompt(here, reopened) PROVE AbortIsTold'
      BY <1>3, <1>4, <3>7 DEF Reprompt
    <3>. QED BY <2>5, <3>1, <3>2, <3>3, <3>5, <3>6, <3>7, <3>8, <3>9
             DEF LoopStep, FinishUserAbort, RecoverNoEmission, SessionFails, SendBack, DeferEnd,
                 Reject, StartEndGuard, EndGuardStops, EndGuardRetries, EndGuardPassesLate,
                 EndGuardPasses, Accept, CapCloses, Commit, Disposed
  <2>6. CASE Rest \/ UNCHANGED vars BY <1>2, <1>4, <2>6 DEF Rest, vars
  <2>. QED BY <1>4, <2>1, <2>2, <2>3, <2>4, <2>5, <2>6 DEF Next
<1>. QED BY <1>1, <1>4, PTL DEF Spec

-----------------------------------------------------------------------------
(* The inductive invariant of RunLease.                                    *)

\* A host listens on a port exactly while it holds the lease, and on the one
\* its claim has come to.
PortsAreHeld ==
    /\ \A p \in Ports, h \in Hosts : port[p] = h => stage[h] = "held" /\ at[h] = p
    /\ \A h \in Hosts : stage[h] = "held" => port[at[h]] = h

\* A claim that is under way, or was refused, knows of every lease beside it.
RivalsAreSeen ==
    \A g, h \in Hosts :
        stage[g] = "held" /\ stage[h] \in {"listen", "probe", "told", "refused"} => rival[h]

\* While nothing is let go the candidates a claim has passed stay busy with
\* other programs, and so does the one it asks.
PassedStayBusy ==
    calm => \A h \in Hosts :
        /\ stage[h] \in {"listen", "probe", "held"} =>
             \A p \in Ports : p < at[h] => port[p] = "other"
        /\ stage[h] = "probe" => port[at[h]] # "free"

\* While nothing is let go whoever was told of a holder can still point at it.
ToldOfAHolder ==
    calm => \A h \in Hosts : stage[h] \in {"told", "refused"} => Holders # {}

LeaseInv ==
    /\ LeaseTypeOK /\ PortsAreHeld /\ RivalsAreSeen /\ PassedStayBusy /\ ToldOfAHolder
    /\ RefusalsAreTrue

LEMMA LeaseInitially == LeaseInit => LeaseInv
<1> SUFFICES ASSUME LeaseInit PROVE LeaseInv
  OBVIOUS
<1>1. LeaseTypeOK
  BY LeaseAssumption DEF LeaseInit, LeaseTypeOK, Ports
<1>2. /\ PortsAreHeld /\ RivalsAreSeen /\ PassedStayBusy /\ ToldOfAHolder
      /\ RefusalsAreTrue
  BY LeaseAssumption DEF LeaseInit, PortsAreHeld, RivalsAreSeen, PassedStayBusy,
       ToldOfAHolder, RefusalsAreTrue, Ports
<1>. QED BY <1>1, <1>2 DEF LeaseInv

-----------------------------------------------------------------------------
(* The steps of a claim of the lease.                                      *)

LEMMA ClaimStep == ASSUME LeaseInv, NEW h \in Hosts, Claim(h) PROVE LeaseInv'
<1> USE LeaseAssumption DEF LeaseInv, Claim
<1>1. LeaseTypeOK' BY DEF LeaseTypeOK, Ports
<1>2. PortsAreHeld' BY DEF LeaseTypeOK, PortsAreHeld, Ports
<1>3. RivalsAreSeen' BY DEF LeaseTypeOK, RivalsAreSeen, Holders
<1>4. PassedStayBusy' BY DEF LeaseTypeOK, PassedStayBusy, Ports
<1>5. ToldOfAHolder' BY DEF LeaseTypeOK, ToldOfAHolder, Holders
<1>6. RefusalsAreTrue' BY DEF LeaseTypeOK, RefusalsAreTrue
<1>. QED BY <1>1, <1>2, <1>3, <1>4, <1>5, <1>6

\* The port is busy: the claim asks who keeps it.
LEMMA ListenBusyStep ==
    ASSUME LeaseInv, NEW h \in Hosts, Listen(h), port[at[h]] # "free"
    PROVE  LeaseInv'
<1> USE LeaseAssumption DEF LeaseInv, Listen
<1>1. LeaseTypeOK' BY DEF LeaseTypeOK, Ports
<1>2. PortsAreHeld' BY DEF LeaseTypeOK, PortsAreHeld, Ports
<1>3. RivalsAreSeen' BY DEF LeaseTypeOK, RivalsAreSeen
<1>4. PassedStayBusy' BY DEF LeaseTypeOK, PassedStayBusy, Ports
<1>5. ToldOfAHolder' BY DEF LeaseTypeOK, ToldOfAHolder, Holders
<1>6. RefusalsAreTrue' BY DEF LeaseTypeOK, RefusalsAreTrue
<1>. QED BY <1>1, <1>2, <1>3, <1>4, <1>5, <1>6

\* The port is free: the host holds the lease, and every other claim has seen
\* a rival.
LEMMA ListenFreeStep ==
    ASSUME LeaseInv, NEW h \in Hosts, Listen(h), port[at[h]] = "free"
    PROVE  LeaseInv'
<1>1. /\ stage[h] = "listen" /\ at[h] \in Ports
      /\ port' = [port EXCEPT ![at[h]] = h] /\ stage' = [stage EXCEPT ![h] = "held"]
      /\ UNCHANGED <<at, claims, calm>>
  BY DEF LeaseInv, LeaseTypeOK, Listen
<1>2. rival' = [g \in Hosts |-> rival[g] \/ g # h]
  BY DEF Listen
<1>3. \A g \in Hosts : g # h => rival'[g] = TRUE
  BY <1>2, Zenon
<1>4. rival' \in [Hosts -> BOOLEAN]
  BY <1>2, Zenon
<1>5. LeaseTypeOK' BY <1>1, <1>4, LeaseAssumption DEF LeaseInv, LeaseTypeOK, Ports
<1>6. PortsAreHeld' BY <1>1, LeaseAssumption DEF LeaseInv, LeaseTypeOK, PortsAreHeld, Ports
<1>7. RivalsAreSeen' BY <1>1, <1>3 DEF LeaseInv, LeaseTypeOK, RivalsAreSeen
<1>8. PassedStayBusy' BY <1>1, LeaseAssumption DEF LeaseInv, LeaseTypeOK, PassedStayBusy, Ports
<1>9. ToldOfAHolder'
  <2>1. h \in Holders' BY <1>1 DEF LeaseInv, LeaseTypeOK, Holders
  <2>. QED BY <2>1 DEF ToldOfAHolder
<1>10. RefusalsAreTrue' BY <1>1, <1>3 DEF LeaseInv, LeaseTypeOK, RefusalsAreTrue
<1>. QED BY <1>5, <1>6, <1>7, <1>8, <1>9, <1>10 DEF LeaseInv

LEMMA ListenFailsStep == ASSUME LeaseInv, NEW h \in Hosts, ListenFails(h) PROVE LeaseInv'
<1> USE LeaseAssumption DEF LeaseInv, ListenFails
<1>1. LeaseTypeOK' BY DEF LeaseTypeOK, Ports
<1>2. PortsAreHeld' BY DEF LeaseTypeOK, PortsAreHeld, Ports
<1>3. RivalsAreSeen' BY DEF LeaseTypeOK, RivalsAreSeen
<1>4. PassedStayBusy' BY DEF LeaseTypeOK, PassedStayBusy, Ports
<1>5. ToldOfAHolder' BY DEF LeaseTypeOK, ToldOfAHolder, Holders
<1>6. RefusalsAreTrue' BY DEF LeaseTypeOK, RefusalsAreTrue
<1>. QED BY <1>1, <1>2, <1>3, <1>4, <1>5, <1>6

\* The one who answers holds the lease at this moment, so it is a rival.
LEMMA ProbeAnsweredStep == ASSUME LeaseInv, NEW h \in Hosts, ProbeAnswered(h) PROVE LeaseInv'
<1> USE LeaseAssumption DEF LeaseInv, ProbeAnswered
<1>1. at[h] \in Ports /\ port[at[h]] \in Hosts BY DEF LeaseTypeOK, TellsIdentity
<1>2. PICK g \in Hosts : stage[g] = "held" /\ rival[h]
  BY <1>1 DEF PortsAreHeld, RivalsAreSeen
<1>3. g # h /\ stage'[g] = "held" BY <1>2 DEF LeaseTypeOK
<1>4. LeaseTypeOK' BY DEF LeaseTypeOK, Ports
<1>5. PortsAreHeld' BY DEF LeaseTypeOK, PortsAreHeld, Ports
<1>6. RivalsAreSeen' BY DEF LeaseTypeOK, RivalsAreSeen
<1>7. PassedStayBusy' BY DEF LeaseTypeOK, PassedStayBusy, Ports
<1>8. ToldOfAHolder' BY <1>3 DEF LeaseTypeOK, ToldOfAHolder, Holders
<1>9. RefusalsAreTrue' BY <1>2 DEF LeaseTypeOK, RefusalsAreTrue
<1>. QED BY <1>4, <1>5, <1>6, <1>7, <1>8, <1>9

LEMMA RefuseStep == ASSUME LeaseInv, NEW h \in Hosts, Refuse(h) PROVE LeaseInv'
<1> USE LeaseAssumption DEF LeaseInv, Refuse
<1>1. LeaseTypeOK' BY DEF LeaseTypeOK, Ports
<1>2. PortsAreHeld' BY DEF LeaseTypeOK, PortsAreHeld, Ports
<1>3. RivalsAreSeen' BY DEF LeaseTypeOK, RivalsAreSeen
<1>4. PassedStayBusy' BY DEF LeaseTypeOK, PassedStayBusy, Ports
<1>5. ToldOfAHolder' BY DEF LeaseTypeOK, ToldOfAHolder, Holders
<1>6. RefusalsAreTrue' BY DEF LeaseTypeOK, RefusalsAreTrue
<1>. QED BY <1>1, <1>2, <1>3, <1>4, <1>5, <1>6

\* A claim that goes on in a calm run leaves a port of another program.
LEMMA ProbeMissesStep == ASSUME LeaseInv, NEW h \in Hosts, ProbeMisses(h) PROVE LeaseInv'
<1> USE LeaseAssumption DEF LeaseInv, ProbeMisses
<1>0. calm' \in BOOLEAN /\ (calm' => calm /\ port[at[h]] \notin Hosts)
  BY DEF LeaseTypeOK, TellsIdentity
<1>1. LeaseTypeOK'
  <2>1. at' \in [Hosts -> Ports]
    <3>1. CASE at[h] < Candidates
      <4>1. at[h] + 1 \in Ports BY <3>1 DEF LeaseTypeOK, Ports
      <4>2. at' = [at EXCEPT ![h] = at[h] + 1] BY <3>1
      <4>. QED BY <4>1, <4>2 DEF LeaseTypeOK
    <3>2. CASE ~(at[h] < Candidates) BY <3>2 DEF LeaseTypeOK
    <3>. QED BY <3>1, <3>2
  <2>2. stage' \in [Hosts -> {"idle", "listen", "probe", "told", "held", "refused", "unavailable"}]
    BY DEF LeaseTypeOK
  <2>. QED BY <1>0, <2>1, <2>2 DEF LeaseTypeOK
<1>2. PortsAreHeld' BY DEF LeaseTypeOK, PortsAreHeld, Ports
<1>3. RivalsAreSeen' BY DEF LeaseTypeOK, RivalsAreSeen
<1>4. calm' => port[at[h]] = "other" BY <1>0 DEF LeaseTypeOK, PassedStayBusy
<1>5. PassedStayBusy'
  <2> SUFFICES ASSUME calm', NEW g \in Hosts
               PROVE  /\ stage'[g] \in {"listen", "probe", "held"} =>
                           \A p \in Ports : p < at'[g] => port[p] = "other"
                      /\ stage'[g] = "probe" => port[at'[g]] # "free"
    BY DEF PassedStayBusy
  <2>1. CASE g # h BY <2>1, <1>0 DEF LeaseTypeOK, PassedStayBusy
  <2>2. CASE g = h
    <3>1. \A p \in Ports : p < at[h] => port[p] = "other"
      BY <1>0 DEF PassedStayBusy
    <3>2. \A p \in Ports : p < at[h] + 1 => port[p] = "other"
      BY <3>1, <1>4 DEF LeaseTypeOK, Ports
    <3>3. stage'[h] # "probe" /\ (stage'[h] = "listen" => at'[h] = at[h] + 1) /\ stage'[h] # "held"
      BY DEF LeaseTypeOK
    <3>. QED BY <2>2, <3>2, <3>3
  <2>. QED BY <2>1, <2>2
<1>6. ToldOfAHolder' BY DEF LeaseTypeOK, ToldOfAHolder, Holders
<1>7. RefusalsAreTrue' BY DEF LeaseTypeOK, RefusalsAreTrue
<1>. QED BY <1>1, <1>2, <1>3, <1>5, <1>6, <1>7

-----------------------------------------------------------------------------
(* What ends a lease or a claim, and the other programs.                   *)

LEMMA LetGoStep == ASSUME LeaseInv, NEW h \in Hosts, LetGo(h) PROVE LeaseInv'
<1> USE LeaseAssumption DEF LeaseInv, LetGo, Freed
<1>1. LeaseTypeOK' BY DEF LeaseTypeOK, Ports
<1>2. PortsAreHeld' BY DEF LeaseTypeOK, PortsAreHeld, Ports
<1>3. RivalsAreSeen' BY DEF LeaseTypeOK, RivalsAreSeen
<1>4. PassedStayBusy' /\ ToldOfAHolder' BY DEF PassedStayBusy, ToldOfAHolder
<1>5. RefusalsAreTrue' BY DEF LeaseTypeOK, RefusalsAreTrue
<1>. QED BY <1>1, <1>2, <1>3, <1>4, <1>5

LEMMA CrashStep == ASSUME LeaseInv, NEW h \in Hosts, Crash(h) PROVE LeaseInv'
<1> USE LeaseAssumption DEF LeaseInv, Crash, Freed
<1>1. LeaseTypeOK' BY DEF LeaseTypeOK, Ports
<1>2. PortsAreHeld' BY DEF LeaseTypeOK, PortsAreHeld, Ports
<1>3. RivalsAreSeen' BY DEF LeaseTypeOK, RivalsAreSeen
<1>4. calm' => port' = port
  <2>1. stage[h] # "held" => \A p \in Ports : port[p] # h BY DEF PortsAreHeld
  <2>2. stage[h] # "held" => port' = port BY <2>1 DEF LeaseTypeOK
  <2>3. calm' => stage[h] # "held" BY Zenon
  <2>. QED BY <2>2, <2>3
<1>5. PassedStayBusy' BY <1>4 DEF LeaseTypeOK, PassedStayBusy, Ports
<1>6. ToldOfAHolder' BY DEF LeaseTypeOK, ToldOfAHolder, Holders
<1>7. RefusalsAreTrue' BY DEF LeaseTypeOK, RefusalsAreTrue
<1>. QED BY <1>1, <1>2, <1>3, <1>5, <1>6, <1>7

LEMMA OtherComesStep == ASSUME LeaseInv, NEW p \in Ports, OtherComes(p) PROVE LeaseInv'
<1> USE LeaseAssumption DEF LeaseInv, OtherComes
<1>1. LeaseTypeOK' BY DEF LeaseTypeOK, Ports
<1>2. PortsAreHeld' BY DEF LeaseTypeOK, PortsAreHeld, Ports
<1>3. PassedStayBusy' BY DEF LeaseTypeOK, PassedStayBusy, Ports
<1>4. RivalsAreSeen' /\ ToldOfAHolder' /\ RefusalsAreTrue'
  BY DEF RivalsAreSeen, ToldOfAHolder, RefusalsAreTrue, Holders
<1>. QED BY <1>1, <1>2, <1>3, <1>4

LEMMA OtherLeavesStep == ASSUME LeaseInv, NEW p \in Ports, OtherLeaves(p) PROVE LeaseInv'
<1> USE LeaseAssumption DEF LeaseInv, OtherLeaves
<1>1. LeaseTypeOK' BY DEF LeaseTypeOK, Ports
<1>2. PortsAreHeld' BY DEF LeaseTypeOK, PortsAreHeld, Ports
<1>3. PassedStayBusy' /\ ToldOfAHolder' BY DEF PassedStayBusy, ToldOfAHolder
<1>4. RivalsAreSeen' /\ RefusalsAreTrue' BY DEF RivalsAreSeen, RefusalsAreTrue
<1>. QED BY <1>1, <1>2, <1>3, <1>4

LEMMA LeaseStutterStep == LeaseInv /\ UNCHANGED leaseVars => LeaseInv'
BY DEF LeaseInv, leaseVars, LeaseTypeOK, PortsAreHeld, RivalsAreSeen, PassedStayBusy, ToldOfAHolder,
     RefusalsAreTrue, Holders

LEMMA LeaseInvariantStep == LeaseInv /\ [LeaseNext]_leaseVars => LeaseInv'
<1> SUFFICES ASSUME LeaseInv, [LeaseNext]_leaseVars PROVE LeaseInv'
  OBVIOUS
<1>1. ASSUME NEW h \in Hosts,
             \/ Claim(h) \/ Listen(h) \/ ListenFails(h) \/ ProbeAnswered(h)
             \/ Refuse(h) \/ ProbeMisses(h) \/ LetGo(h) \/ Crash(h)
      PROVE  LeaseInv'
  BY <1>1, ClaimStep, ListenBusyStep, ListenFreeStep, ListenFailsStep, ProbeAnsweredStep, RefuseStep,
     ProbeMissesStep, LetGoStep, CrashStep
<1>2. ASSUME NEW p \in Ports, OtherComes(p) \/ OtherLeaves(p) PROVE LeaseInv'
  BY <1>2, OtherComesStep, OtherLeavesStep
<1>3. CASE LeaseRest BY <1>3, LeaseStutterStep DEF LeaseRest
<1>4. CASE UNCHANGED leaseVars BY <1>4, LeaseStutterStep
<1>. QED BY <1>1, <1>2, <1>3, <1>4 DEF LeaseNext

\* Every reachable state of RunLease satisfies the conjunction the theorems follow from.
THEOREM LeaseInvariant == LeaseSpec => []LeaseInv
<1>. QED BY LeaseInitially, LeaseInvariantStep, PTL DEF LeaseSpec

-----------------------------------------------------------------------------
(* The theorems about RunLease.                                            *)

\* Two holders of a calm run have passed over each other's port, or have the
\* same one.
LEMMA HoldersAreOne ==
    ASSUME LeaseInv, calm, NEW g \in Holders, NEW h \in Holders
    PROVE  g = h
<1>1. /\ g \in Hosts /\ h \in Hosts /\ stage[g] = "held" /\ stage[h] = "held"
      /\ port[at[g]] = g /\ port[at[h]] = h
      /\ at[g] \in Ports /\ at[h] \in Ports
  BY DEF LeaseInv, Holders, PortsAreHeld, LeaseTypeOK
<1>2. ~(at[g] < at[h]) /\ ~(at[h] < at[g])
  BY <1>1, LeaseAssumption DEF LeaseInv, PassedStayBusy
<1>3. at[g] = at[h] BY <1>1, <1>2, LeaseAssumption DEF Ports
<1>. QED BY <1>1, <1>3

\* A race for a run has one winner, for any hosts and ports, while no holder lets
\* go, no other program leaves its port and no probe of a live holder goes
\* unanswered: acquireRunLease gives the lease to one host, and not all of them
\* are refused.
THEOREM RaceHasOneWinner == LeaseSpec => []OneWinner
<1>1. LeaseInv => OneWinner
  <2> SUFFICES ASSUME LeaseInv PROVE OneWinner
    OBVIOUS
  <2>1. ASSUME calm PROVE \A g, h \in Holders : g = h
    BY <2>1, HoldersAreOne
  <2>2. ASSUME calm PROVE (\E h \in Hosts : stage[h] = "refused") => Holders # {}
    BY <2>2 DEF LeaseInv, ToldOfAHolder
  <2>. QED BY <2>1, <2>2 DEF OneWinner, LeaseInv
<1>. QED BY <1>1, LeaseInvariant, PTL

\* Whoever is refused the run was refused it for a lease that another host
\* held during its claim, slow holders and other programs notwithstanding.
THEOREM RefusalsHold == LeaseSpec => []RefusalsAreTrue
<1>1. LeaseInv => RefusalsAreTrue BY DEF LeaseInv
<1>. QED BY <1>1, LeaseInvariant, PTL
=============================================================================
