----------------------------- MODULE RunControl ------------------------------
(***************************************************************************)
(* The operator's side of a live run: RunControl (src/host/run-control.ts) *)
(* with its mailbox of guidance, the steering queue of the SDK session it  *)
(* delegates to, the seal of the session seam, and the loop that drains    *)
(* the mailbox, reopens sessions and commits transitions                   *)
(* (src/host/loop-session-turn.ts, session-finalization.ts).               *)
(*                                                                         *)
(* A step of the loop runs from one await to the next; the operator's      *)
(* calls and the agent's callbacks fall between two of them.  The mailbox  *)
(* is a bag of envelope ids: takePendingGuidance sorts what it drains, so  *)
(* the order in which it was filled is never seen.                         *)
(*                                                                         *)
(* A steer is delegated to session.steer.  With remote it is a request to  *)
(* a child process (src/host/rpc/node-role-session.ts) and lands in the    *)
(* queue, or fails, later, and clearQueue empties only the host's copy of  *)
(* the child's queue; without it the shared SDK queues the text at once.   *)
(*                                                                         *)
(* Left out: the response snapshot and the controller metrics, the calls   *)
(* refused because the message is empty or the session cannot be steered   *)
(* (they change nothing), and what the loop records (RunLoop has that).    *)
(***************************************************************************)
EXTENDS Naturals, FiniteSets

CONSTANTS
    MaxGuidance,        \* bound: messages the operator sends
    MaxSessions,        \* bound: role sessions of the run
    MaxRemoteGuidance,  \* the bounds of a run of child processes
    MaxRemoteSessions

ASSUME ControlAssumption ==
    /\ MaxGuidance \in Nat /\ MaxSessions \in Nat
    /\ MaxRemoteGuidance \in 0..MaxGuidance /\ MaxRemoteSessions \in 0..MaxSessions

Ids == 1..MaxGuidance
SessionIds == 1..MaxSessions

VARIABLES
    remote,       \* sessions run in a child process: chosen once, by the host
    \* RunControl.
    next,         \* nextGuidanceId
    pending,      \* how often an envelope is in the mailbox
    open,
    abort,        \* abortReason # null
    active,       \* the active session, 0 for null
    addressable,  \* ActiveSession.addressable of every session made active
    dispatched,   \* ActiveSession.dispatched
    \* The role sessions.
    sealed,       \* the seam's seal
    queue,        \* the SDK's steering queue
    known,        \* what clearQueue would return
    calls,        \* sessions whose abortSession has not marked them yet
    told,         \* sessions whose terminal reason is user_aborted
    cause,        \* another terminal reason stands on the live session
    flying,       \* steer calls that wait for session.steer
    \* The loop.
    sess,         \* the sessions spawned so far; the last is the live one
    pc,
    capture,      \* the capture of the prompt: none, handoff or end
    returned,     \* the emission's tool_execution_end was delivered
    outcome,      \* how the session settled
    \* History.
    missed,       \* sessions whose abort found another reason and left no mark
    decided,      \* what next was when the end of the run was decided, 0 before
    heard,        \* how often an envelope reached a role
    refused       \* envelopes whose steer call threw

mailbox == <<next, pending, open>>
bridge == <<active, addressable, dispatched>>
aborts == <<abort, calls, told, cause, missed>>
loop == <<sess, pc, capture, returned, outcome, decided>>
history == <<heard, refused, remote>>
queues == <<queue, known>>
vars == <<mailbox, bridge, aborts, sealed, queues, flying, loop, history>>

Places ==
    {"between", "top", "installing", "check", "assess", "prompting", "settled", "guard",
     "commit", "final", "disposing", "closed"}
Fates == {"none", "done", "capped", "advance", "fallback", "over"}

Init ==
    /\ remote \in BOOLEAN
    /\ next = 1 /\ pending = [g \in Ids |-> 0] /\ open = TRUE
    /\ active = 0
    /\ addressable = [s \in SessionIds |-> FALSE]
    /\ dispatched = [s \in SessionIds |-> {}]
    /\ abort = FALSE /\ calls = {} /\ told = {} /\ cause = FALSE /\ missed = {}
    /\ sealed = [s \in SessionIds |-> FALSE] /\ queue = [s \in SessionIds |-> {}]
    /\ known = [s \in SessionIds |-> {}]
    /\ flying = {}
    /\ sess = 0 /\ pc = "between" /\ capture = "none" /\ returned = FALSE /\ outcome = "none"
    /\ decided = 0
    /\ heard = [g \in Ids |-> 0] /\ refused = {}

-----------------------------------------------------------------------------
(* The mailbox and the envelopes dispatched to a session.                  *)

Put(box, ids) == [g \in Ids |-> box[g] + (IF g \in ids THEN 1 ELSE 0)]
Waiting == {g \in Ids : pending[g] > 0}

\* reclaimUnconsumedSteering, of a session with the queue q, of which the
\* host knows k, and the dispatched envelopes d: with nothing dispatched the
\* queue is not even cleared; what is still queued goes back to the mailbox,
\* and at a terminal boundary everything that was ever dispatched does.
Reclaim(s, q, k, d, terminal) ==
    LET ids == IF terminal THEN d ELSE d \cap k
    IN  /\ pending' = Put(pending, ids)
        /\ dispatched' = [dispatched EXCEPT ![s] = d \ ids]
        /\ known' = [known EXCEPT ![s] = IF d = {} THEN k ELSE {}]
        /\ queue' = [queue EXCEPT ![s] = IF d = {} \/ remote THEN q ELSE {}]

\* The queue has become q, and its queue_update event reclaims what is left
\* when the session is no longer addressable.
Requeued(s, q, d) ==
    IF active = s /\ ~addressable[s]
    THEN Reclaim(s, q, q, d, FALSE)
    ELSE /\ queue' = [queue EXCEPT ![s] = q] /\ known' = [known EXCEPT ![s] = q]
         /\ dispatched' = [dispatched EXCEPT ![s] = d]
         /\ UNCHANGED pending

Accepting == open /\ next <= (IF remote THEN MaxRemoteGuidance ELSE MaxGuidance)

FollowUp ==
    /\ Accepting
    /\ pending' = Put(pending, {next}) /\ next' = next + 1
    /\ UNCHANGED <<open, bridge, aborts, sealed, queues, flying, loop, history>>

SteerToMailbox ==
    /\ Accepting /\ active = 0
    /\ pending' = Put(pending, {next}) /\ next' = next + 1
    /\ UNCHANGED <<open, bridge, aborts, sealed, queues, flying, loop, history>>

\* isAddressable seals, and so reclaims, before the steer is put beside it.
SteerToClosedSession ==
    /\ Accepting /\ active # 0 /\ ~addressable[active]
    /\ next' = next + 1
    /\ LET back == dispatched[active] \cap known[active]
       IN  /\ pending' = Put(pending, back \cup {next})
           /\ dispatched' = [dispatched EXCEPT ![active] = @ \ back]
    /\ IF dispatched[active] = {} THEN UNCHANGED queues
       ELSE /\ known' = [known EXCEPT ![active] = {}]
            /\ queue' = [queue EXCEPT ![active] = IF remote THEN @ ELSE {}]
    /\ UNCHANGED <<open, active, addressable, aborts, sealed, flying, loop, history>>

SteerToSession ==
    /\ Accepting /\ active # 0 /\ addressable[active]
    /\ next' = next + 1
    /\ IF remote
       THEN /\ flying' = flying \cup {[id |-> next, to |-> active]}
            /\ dispatched' = [dispatched EXCEPT ![active] = @ \cup {next}]
            /\ UNCHANGED <<pending, queues>>
       ELSE /\ Requeued(active, queue[active] \cup {next}, dispatched[active] \cup {next})
            /\ UNCHANGED flying
    /\ UNCHANGED <<open, active, addressable, aborts, sealed, loop, history>>

SteerLands(f) ==
    /\ flying' = flying \ {f}
    /\ Requeued(f.to, queue[f.to] \cup {f.id}, dispatched[f.to])
    /\ UNCHANGED <<next, open, active, addressable, aborts, sealed, loop, history>>

\* A request fails when the child refuses it, fails or is disposed: the
\* error reaches the operator only while the session is addressable.
SteerFails(f) ==
    /\ flying' = flying \ {f}
    /\ LET kept == dispatched[f.to] \ {f.id}
           back == kept \cap known[f.to]
       IN  IF addressable[f.to]
           THEN /\ refused' = refused \cup {f.id}
                /\ dispatched' = [dispatched EXCEPT ![f.to] = kept]
                /\ UNCHANGED <<pending, known>>
           ELSE /\ pending' = Put(pending, back \cup {f.id})
                /\ dispatched' = [dispatched EXCEPT ![f.to] = kept \ back]
                /\ known' = [known EXCEPT ![f.to] = IF kept = {} THEN @ ELSE {}]
                /\ UNCHANGED refused
    /\ UNCHANGED <<next, open, active, addressable, aborts, sealed, queue, loop, heard, remote>>

\* requestAbort: the active session is told, a later one when it is installed.
RequestAbort ==
    /\ open /\ ~abort
    /\ abort' = TRUE
    /\ calls' = calls \cup ({active} \ {0})
    /\ UNCHANGED <<mailbox, bridge, told, cause, missed, sealed, queues, flying, loop, history>>

\* The session is marked only while no other reason stands on it.
AbortMarks(s) ==
    /\ calls' = calls \ {s}
    /\ IF s = sess /\ cause
       THEN missed' = missed \cup {s} /\ UNCHANGED told
       ELSE told' = told \cup {s} /\ UNCHANGED missed
    /\ UNCHANGED <<mailbox, bridge, abort, cause, sealed, queues, flying, loop, history>>

-----------------------------------------------------------------------------
(* The agent, while it is prompted.                                        *)

\* The agent takes a queued message between two of its turns; a
\* terminating tool result ends the agent's loop.
Consume(g) ==
    /\ pc = "prompting" /\ ~returned /\ g \in queue[sess]
    /\ Requeued(sess, queue[sess] \ {g}, dispatched[sess])
    /\ heard' = [heard EXCEPT ![g] = @ + 1]
    /\ UNCHANGED <<next, open, active, addressable, aborts, sealed, flying, loop, refused, remote>>

\* A message failed, a cap was reached or a tool was lost: a reason other than
\* the operator's.  One that overrules user_aborted fails the session, and the
\* next is told as it is installed; it is not told apart from the mark here.
CauseArises ==
    /\ pc = "prompting" /\ ~cause /\ sess \notin told
    /\ cause' = TRUE
    /\ UNCHANGED <<mailbox, bridge, abort, calls, told, missed, sealed, queues, flying, loop, history>>

\* The SDK announces that it retries the failed message.  Which reason stands is
\* not told apart: only model_error is cleared.
RetryAnnounced ==
    /\ pc = "prompting" /\ cause /\ ~returned
    /\ cause' = FALSE
    /\ UNCHANGED <<mailbox, bridge, abort, calls, told, missed, sealed, queues, flying, loop, history>>

\* The host's tools refuse a capture while a reason stands; a child's own
\* seam does not know the reason.
MayCapture ==
    /\ pc = "prompting" /\ capture = "none"
    /\ remote \/ (~cause /\ sess \notin told)

\* Mutant: sealing does not reclaim the queue.
EmitUnreclaimed(kind) ==
    /\ MayCapture
    /\ capture' = kind
    /\ sealed' = [sealed EXCEPT ![sess] = TRUE]
    /\ addressable' = [addressable EXCEPT ![sess] = FALSE]
    /\ UNCHANGED <<mailbox, active, dispatched, aborts, queues, flying, sess, pc, returned, outcome,
                   decided, history>>

\* handoff or end: the capture is pushed, the seam sealed, and its listener
\* is handleSeal.
Emit(kind) ==
    /\ MayCapture
    /\ capture' = kind
    /\ sealed' = [sealed EXCEPT ![sess] = TRUE]
    /\ addressable' = [addressable EXCEPT ![sess] = FALSE]
    /\ Reclaim(sess, queue[sess], known[sess], dispatched[sess], FALSE)
    /\ UNCHANGED <<next, open, active, aborts, flying, sess, pc, returned, outcome, decided, history>>

\* The terminating result of a child's tool shuts its queue down.
EmissionReturns ==
    /\ pc = "prompting" /\ capture # "none" /\ ~returned
    /\ returned' = TRUE
    /\ IF remote THEN Reclaim(sess, {}, {}, dispatched[sess], TRUE)
       ELSE Reclaim(sess, queue[sess], known[sess], dispatched[sess], TRUE)
    /\ UNCHANGED <<next, open, active, addressable, aborts, sealed, flying, sess, pc, capture,
                   outcome, decided, history>>

PromptEnds ==
    /\ pc = "prompting" /\ (capture # "none" => returned)
    /\ pc' = "settled"
    /\ UNCHANGED <<mailbox, bridge, aborts, sealed, queues, flying, sess, capture, returned, outcome,
                   decided, history>>

-----------------------------------------------------------------------------
(* The loop.                                                               *)

Still == UNCHANGED <<mailbox, bridge, aborts, sealed, queues, flying, history>>

Spawn ==
    /\ pc = "between" /\ sess < (IF remote THEN MaxRemoteSessions ELSE MaxSessions)
    /\ sess' = sess + 1 /\ pc' = "top" /\ cause' = FALSE
    /\ UNCHANGED <<mailbox, bridge, abort, calls, told, missed, sealed, queues, flying, capture,
                   returned, outcome, decided, history>>

\* Mutant: a session installed after the abort is not told.
SetActiveSilently ==
    /\ pc = "top" /\ pc' = "installing"
    /\ IF active = sess THEN UNCHANGED bridge
       ELSE /\ active' = sess
            /\ addressable' = [addressable EXCEPT ![sess] = ~sealed[sess]]
            /\ dispatched' = [dispatched EXCEPT ![sess] = {}]
    /\ UNCHANGED <<mailbox, aborts, sealed, queues, flying, sess, capture, returned, outcome, decided,
                   history>>

\* setActiveSession at the top of every turn: nothing the second time.
SetActive ==
    /\ pc = "top" /\ pc' = "installing"
    /\ IF active = sess THEN UNCHANGED <<bridge, calls>>
       ELSE /\ active' = sess
            /\ addressable' = [addressable EXCEPT ![sess] = ~sealed[sess]]
            /\ dispatched' = [dispatched EXCEPT ![sess] = {}]
            /\ calls' = calls \cup (IF abort THEN {sess} ELSE {})
    /\ UNCHANGED <<mailbox, abort, told, cause, missed, sealed, queues, flying, sess, capture,
                   returned, outcome, decided, history>>

Installed ==
    /\ pc = "installing" /\ sess \notin calls
    /\ pc' = "check"
    /\ UNCHANGED <<sess, capture, returned, outcome, decided>> /\ Still

\* The advisory assessment of a fresh session is awaited after the check.
Assess ==
    /\ pc = "check" /\ sess \notin told
    /\ pc' = "assess"
    /\ UNCHANGED <<sess, capture, returned, outcome, decided>> /\ Still

\* Mutant: only the first prompt of a session drains the mailbox.
PromptOnceDrained ==
    /\ pc = "assess" \/ (pc = "check" /\ sess \notin told)
    /\ pc' = "prompting" /\ capture' = "none" /\ returned' = FALSE
    /\ IF pc = "assess"
       THEN /\ heard' = [g \in Ids |-> heard[g] + pending[g]]
            /\ pending' = [g \in Ids |-> 0]
       ELSE UNCHANGED <<heard, pending>>
    /\ UNCHANGED <<next, open, bridge, aborts, sealed, queues, flying, sess, outcome, decided, refused,
                   remote>>

\* takePendingGuidance into the prompt.
Prompt ==
    /\ pc = "assess" \/ (pc = "check" /\ sess \notin told)
    /\ pc' = "prompting" /\ capture' = "none" /\ returned' = FALSE
    /\ heard' = [g \in Ids |-> heard[g] + pending[g]]
    /\ pending' = [g \in Ids |-> 0]
    /\ UNCHANGED <<next, open, bridge, aborts, sealed, queues, flying, sess, outcome, decided, refused,
                   remote>>

Settle(here, next_pc, how) ==
    /\ pc = here /\ pc' = next_pc /\ outcome' = how
    /\ UNCHANGED <<sess, capture, returned, decided>> /\ Still

\* user_aborted, before the prompt and after it.
FinishUserAbort ==
    /\ sess \in told
    /\ Settle("check", "final", "over") \/ Settle("settled", "final", "over")

NotAborted == pc = "settled" /\ sess \notin told
Undisturbed == NotAborted /\ ~cause

RecoverNoEmission ==
    /\ Undisturbed /\ capture = "none"
    /\ Settle("settled", "top", "none")

\* A breach, or a reason of the host's, whatever was captured.
SessionFails ==
    /\ NotAborted
    /\ \E how \in {"fallback", "over"} : Settle("settled", "final", how)

\* resetCaptureBuffer, and reopenActiveSession when reopened.
Reprompt(here, reopened) ==
    /\ pc = here /\ pc' = "top"
    /\ sealed' = [sealed EXCEPT ![sess] = FALSE]
    /\ addressable' = [addressable EXCEPT ![sess] = @ \/ reopened]
    /\ UNCHANGED <<mailbox, active, dispatched, aborts, queues, flying, sess, capture, returned,
                   outcome, decided, history>>

\* Children still pending, or a handoff to correct.
SendBack == Undisturbed /\ capture # "none" /\ Reprompt("settled", TRUE)

DeferEnd == Undisturbed /\ capture = "end" /\ Waiting # {} /\ Reprompt("settled", TRUE)

\* A rejected transition resets the seam only.
Reject ==
    /\ Undisturbed /\ capture # "none" /\ (capture = "end" => Waiting = {})
    /\ Reprompt("settled", FALSE)

StartEndGuard ==
    /\ Undisturbed /\ capture = "end" /\ Waiting = {}
    /\ Settle("settled", "guard", "none")

EndGuardStops == Settle("guard", "final", "over")

EndGuardRetries == ~abort /\ Reprompt("guard", TRUE)
EndGuardPassesLate == ~abort /\ Waiting # {} /\ Reprompt("guard", TRUE)

\* The mailbox was looked at for the last time: the role's end is committed.
DecideEnd(here) ==
    /\ pc = here /\ Waiting = {}
    /\ pc' = "commit" /\ outcome' = "done" /\ decided' = next
    /\ UNCHANGED <<sess, capture, returned>> /\ Still

\* Mutant: what came in beside the guard is not looked at.
EndGuardPassesBlindly ==
    /\ ~abort /\ pc = "guard"
    /\ pc' = "commit" /\ outcome' = "done" /\ decided' = next
    /\ UNCHANGED <<sess, capture, returned>> /\ Still

EndGuardPasses == ~abort /\ DecideEnd("guard")

Accept ==
    /\ Undisturbed
    /\ \/ capture = "handoff" /\ Settle("settled", "commit", "advance")
       \/ capture = "end" /\ DecideEnd("settled")

\* The run cost cap closes the run whatever the mailbox holds, and over every
\* reason but the operator's.
CapCloses ==
    \/ NotAborted /\ capture # "none" /\ Settle("settled", "commit", "capped")
    \/ ~abort /\ Settle("guard", "commit", "capped")

\* The children are settled before the transition is recorded.
Commit == pc = "commit" /\ Settle("commit", "final", outcome)

\* Mutant: the queue of a session that failed unsealed is forgotten.
ReleaseForgetting ==
    /\ pc = "final" /\ pc' = "disposing"
    /\ active' = 0
    /\ IF addressable[sess] THEN UNCHANGED <<pending, dispatched, queues>>
       ELSE Reclaim(sess, queue[sess], known[sess], dispatched[sess], TRUE)
    /\ UNCHANGED <<next, open, addressable, aborts, sealed, flying, sess, capture, returned,
                   outcome, decided, history>>

Release ==
    /\ pc = "final" /\ pc' = "disposing"
    /\ active' = 0
    /\ Reclaim(sess, queue[sess], known[sess], dispatched[sess], ~addressable[sess])
    /\ UNCHANGED <<next, open, addressable, aborts, sealed, flying, sess, capture, returned,
                   outcome, decided, history>>

\* A disposed child answers no request any more.
Disposed ==
    /\ pc = "disposing" /\ \A f \in flying : f.to # sess
    /\ outcome \in {"advance", "fallback"}
    /\ Settle("disposing", "between", "none")

\* close, on success, failure and abort, on anything the loop throws and on a
\* finalization that fails.
Close ==
    /\ pc \in {"between", "disposing"} /\ \A f \in flying : f.to # sess
    /\ pc' = "closed" /\ open' = FALSE
    /\ UNCHANGED <<next, pending, bridge, aborts, sealed, queues, flying, sess, capture, returned,
                   outcome, decided, history>>

Operator == FollowUp \/ SteerToMailbox \/ SteerToClosedSession \/ SteerToSession \/ RequestAbort
Agent == \/ \E g \in Ids : Consume(g)
         \/ \E kind \in {"handoff", "end"} : Emit(kind)
         \/ CauseArises \/ RetryAnnounced \/ EmissionReturns \/ PromptEnds
Answers == \E f \in flying : SteerLands(f) \/ SteerFails(f)
Marks == \E s \in calls : AbortMarks(s)

LoopStep ==
    \/ Spawn \/ SetActive \/ Installed \/ Assess \/ Prompt
    \/ FinishUserAbort \/ RecoverNoEmission \/ SessionFails \/ SendBack \/ DeferEnd \/ Reject
    \/ StartEndGuard \/ EndGuardStops \/ EndGuardRetries \/ EndGuardPassesLate \/ EndGuardPasses
    \/ Accept \/ CapCloses \/ Commit \/ Release \/ Disposed \/ Close

Rest == pc = "closed" /\ flying = {} /\ calls = {} /\ UNCHANGED vars

Next == Operator \/ Agent \/ Answers \/ Marks \/ LoopStep \/ Rest

Spec == Init /\ [][Next]_vars

\* Calls are answered, the loop never stops by itself, and the SDK ends a
\* prompt; an emission's tool always returns.
FairSpec ==
    /\ Spec
    /\ WF_vars(LoopStep) /\ WF_vars(Answers) /\ WF_vars(Marks)
    /\ WF_vars(EmissionReturns) /\ WF_vars(PromptEnds)

-----------------------------------------------------------------------------
(* Properties.                                                             *)

TypeOK ==
    /\ remote \in BOOLEAN
    /\ next \in 1..(MaxGuidance + 1) /\ pending \in [Ids -> Nat] /\ open \in BOOLEAN
    /\ active \in SessionIds \cup {0}
    /\ addressable \in [SessionIds -> BOOLEAN] /\ sealed \in [SessionIds -> BOOLEAN]
    /\ {dispatched, queue, known} \subseteq [SessionIds -> SUBSET Ids]
    /\ abort \in BOOLEAN /\ {calls, told, missed} \subseteq SUBSET SessionIds
    /\ cause \in BOOLEAN
    /\ flying \subseteq [id : Ids, to : SessionIds]
    /\ sess \in SessionIds \cup {0} /\ pc \in Places
    /\ capture \in {"none", "handoff", "end"} /\ returned \in BOOLEAN
    /\ outcome \in Fates
    /\ decided \in 0..(MaxGuidance + 1)
    /\ heard \in [Ids -> Nat] /\ refused \subseteq Ids

Sent == {g \in Ids : g < next}
InFlight == {f.id : f \in flying}

\* A child released while it could still be steered keeps what landed in it
\* after its release.
KeptByChild(g) ==
    \E s \in SessionIds : g \in queue[s] /\ s # active /\ remote /\ addressable[s]

\* The run is over without g: it was aborted, failed or capped, or g was sent
\* after the role's end was decided.
OverWithout(g) == pc = "closed" /\ (outcome # "done" \/ g >= decided)

\* Whatever the operator was not refused has reached a role or is where one
\* will still find it: in the mailbox of a run that goes on, in a call under
\* way, in the queue of the active session.  What the operator can lose is what
\* landed in a child after its release, and what is in the mailbox of a run
\* that is over: anything, unless a role ended the run, and then what came in
\* after that end was decided.
NothingIsLost ==
    \A g \in Sent :
        \/ heard[g] > 0 \/ g \in refused \/ g \in InFlight
        \/ active # 0 /\ g \in queue[active]
        \/ KeptByChild(g)
        \/ g \in Waiting /\ (pc = "closed" => OverWithout(g))

\* An envelope is in one place at a time: what is in the mailbox is there
\* once and is not queued in the active session, which would deliver it too.
OnePlace ==
    \A g \in Ids :
        /\ pending[g] <= 1
        /\ active # 0 => g \notin Waiting \cap queue[active]

\* Guidance is kept until a role has heard it, the operator was refused or the
\* run is over without it: somewhere in a run of child processes, in exactly one
\* place in a run of shared sessions.  A child's queue is not emptied by what is
\* reclaimed from it, so there an envelope can be in two places.
GuidanceIsKept == TypeOK /\ NothingIsLost /\ (~remote => OnePlace)

\* Once a role has emitted its transition nothing queued for it reaches it; a
\* child process has a queue the seal does not empty.
SealedHearsNothing ==
    [][pc = "prompting" /\ pc' = "prompting" /\ heard' # heard
       => remote \/ ~sealed[sess]]_vars

\* A prompt drains the mailbox, of whatever session and turn: guidance never
\* stays there for ever.
GuidanceIsDrained == \A g \in Ids : g \in Waiting ~> g \notin Waiting \/ pc = "closed"

\* An abort ends the run, wherever in a session, between two sessions or
\* beside the end guard it falls, unless it finds another reason standing on the
\* session: that session is not marked, and goes on if a retry clears the reason.
\* The abort then holds for the session installed after it.
AbortEndsTheRun == abort ~> pc = "closed" \/ sess \in missed
=============================================================================
