----------------------------- MODULE SessionSeam -----------------------------
(***************************************************************************)
(* One role session between the SDK agent and the loop: what the events of *)
(* the agent do to the SessionState (src/host/session-event-handler.ts,    *)
(* cost.ts), what the emission tools and the tool wrapper let through      *)
(* (tools.ts, tool-wrapper.ts, seam.ts), and what runSessionTurn makes of  *)
(* both when the prompt settles (loop-session-turn.ts). RunLoop takes the  *)
(* outcome of a session as a choice; here it is made.                      *)
(*                                                                         *)
(* The agent is the SDK's: a provider message ends, its tools run in       *)
(* parallel, the turn ends or goes on, a failed message may be retried,    *)
(* an abort may deliver the last message again. Every callback runs to its *)
(* end. A message either has usage, of one unit of cost, or has none.      *)
(*                                                                         *)
(* Left out: display and telemetry, review decisions, the records of       *)
(* corrected handoffs, the caps of the run and failed delegations (RunLoop *)
(* has these), and the failures of a child process or a controller.        *)
(***************************************************************************)
EXTENDS Naturals, Sequences

CONSTANTS
    Cap,           \* max_session_cost_usd; above MaxMessages for no cap
    MaxRecovery,   \* MAX_NO_EMISSION_RECOVERY_PROMPTS
    MaxMessages,   \* bound: messages and compactions of the session
    MaxCalls,      \* bound: tool calls of a message
    MaxReopens     \* bound: times the loop discards a capture

ASSUME SeamAssumption ==
    /\ Cap \in Nat \ {0} /\ MaxRecovery \in Nat
    /\ MaxMessages \in Nat /\ MaxCalls \in Nat /\ MaxReopens \in Nat

Faults == {"tool_timeout_exhausted", "tool_cleanup_unconfirmed"}
HostCauses == Faults \cup {"user_aborted", "session_cost_cap_exceeded"}
Reasons == HostCauses \cup {"none", "model_error"}
Breaches == {"no_emission", "extra_emission", "schema_invalid"}

VARIABLES
    \* SessionState.
    reason, aborted, usage, seen,
    \* SessionSeam.
    captures, sealed,
    \* The agent.
    sdk,      \* idle, thinking, tools, ending, retry or done
    last,     \* the message that ended last
    calls,    \* tool calls made of it
    busy,     \* a supervised tool is running
    signal,   \* abort() was called during this prompt
    threw,    \* prompt() rejects
    \* The loop.
    pc, recoveries, reopens, charged, outcome, verdict,
    \* History.
    count,    \* messages and compactions so far
    spent,    \* what they cost
    faults,   \* fatal errors reported by the tool executions
    asked,    \* the operator has aborted
    late      \* a tool ran that should not have

state == <<reason, aborted, usage, seen>>
seam == <<captures, sealed>>
agent == <<sdk, last, calls, busy, signal, threw>>
loop == <<pc, recoveries, reopens, charged, outcome, verdict>>
history == <<count, spent, faults, asked, late>>
vars == <<state, seam, agent, loop, history>>

NoMessage == [id |-> 0, kind |-> "none", priced |-> FALSE]

Init ==
    /\ reason = "none" /\ aborted = FALSE /\ usage = 0 /\ seen = {}
    /\ captures = <<>> /\ sealed = FALSE
    /\ sdk = "idle" /\ last = NoMessage /\ calls = 0 /\ busy = FALSE
    /\ signal = FALSE /\ threw = FALSE
    /\ pc = "top" /\ recoveries = 0 /\ reopens = 0 /\ charged = 0
    /\ outcome = "none" /\ verdict = "none"
    /\ count = 0 /\ spent = 0 /\ faults = {} /\ asked = FALSE /\ late = FALSE

-----------------------------------------------------------------------------
(* SessionState.                                                           *)

\* setTerminalReason: an unconfirmed cleanup stays, an exhausted timeout
\* gives way to it alone, and a provider error replaces nothing.
ReasonAfter(r) ==
    IF \/ reason = "tool_cleanup_unconfirmed"
       \/ (reason = "tool_timeout_exhausted" /\ r # "tool_cleanup_unconfirmed")
       \/ (r = "model_error" /\ reason # "none")
    THEN reason ELSE r

\* Mutant: a message that is delivered again is counted again.
CountsAlways(id, priced) == priced

\* addMessageUsage counts a key once.
Counts(id, priced) == priced /\ id \notin seen

AddUsage(id, priced) ==
    /\ usage' = usage + (IF Counts(id, priced) THEN 1 ELSE 0)
    /\ seen' = IF priced THEN seen \cup {id} ELSE seen

\* onSessionEvent for the end of a message: the usage, then the cap, and
\* only then the provider's failure.
Handled(m) ==
    /\ AddUsage(m.id, m.priced)
    /\ IF m.priced /\ usage' >= Cap /\ ~aborted
       THEN /\ aborted' = TRUE /\ signal' = TRUE
            /\ reason' = ReasonAfter("session_cost_cap_exceeded")
       ELSE /\ reason' = IF m.kind = "error" THEN ReasonAfter("model_error") ELSE reason
            /\ UNCHANGED <<aborted, signal>>

-----------------------------------------------------------------------------
(* The agent.                                                              *)

MessageEnds(kind, priced) ==
    /\ sdk = "thinking" /\ count < MaxMessages
    /\ kind = "aborted" => signal
    /\ last' = [id |-> count + 1, kind |-> kind, priced |-> priced]
    /\ Handled(last')
    /\ count' = count + 1 /\ spent' = spent + (IF priced THEN 1 ELSE 0)
    /\ sdk' = IF kind = "tools" THEN "tools" ELSE "ending"
    /\ calls' = 0
    /\ UNCHANGED <<seam, busy, threw, loop, faults, asked, late>>

\* An abort delivers the message that was ended last once more.
MessageEndsAgain ==
    /\ sdk \in {"thinking", "tools", "ending"} /\ signal /\ last # NoMessage
    /\ Handled(last)
    /\ UNCHANGED <<seam, sdk, last, calls, busy, threw, loop, history>>

\* A compaction of the session's context is charged to the session.
Compacts ==
    /\ pc = "prompting" /\ count < MaxMessages
    /\ count' = count + 1 /\ spent' = spent + 1
    /\ AddUsage(count + 1, TRUE)
    /\ IF usage' >= Cap
       THEN /\ aborted' = TRUE /\ signal' = TRUE
            /\ reason' = ReasonAfter("session_cost_cap_exceeded")
       ELSE UNCHANGED <<aborted, signal, reason>>
    /\ UNCHANGED <<seam, sdk, last, calls, busy, threw, loop, faults, asked, late>>

Calling == sdk = "tools" /\ calls < MaxCalls

\* wrapToolWithSeal, of every tool but the emission tools themselves.
LetsThrough == reason = "none" /\ ~aborted /\ ~sealed

\* By then no tool is to run: the host or the role has ended the session.
Closed ==
    \/ faults # {}
    \/ spent >= Cap
    \/ captures # <<>> /\ captures[1] = "valid"

ToolCalled ==
    /\ Calling /\ ~busy
    /\ calls' = calls + 1
    /\ busy' = LetsThrough
    /\ late' = (late \/ (LetsThrough /\ Closed))
    /\ UNCHANGED <<state, seam, sdk, last, signal, threw, loop, count, spent, faults, asked>>

ToolReturns ==
    /\ busy /\ busy' = FALSE
    /\ UNCHANGED <<state, seam, sdk, last, calls, signal, threw, loop, history>>

\* handoff and end: refused once the host has a cause or the signal is
\* aborted, or when the arguments cannot be read; a second one is recorded
\* whatever it says; a first one that can be corrected is not; and only a
\* valid one seals.
Emits(args) ==
    /\ Calling
    /\ calls' = calls + 1
    /\ IF reason # "none" \/ aborted \/ signal \/ args = "unreadable"
       THEN UNCHANGED seam
       ELSE IF captures # <<>>
       THEN captures' = Append(captures, args) /\ UNCHANGED sealed
       ELSE IF args = "correctable"
       THEN UNCHANGED seam
       ELSE captures' = <<args>> /\ sealed' = (args = "valid")
    /\ UNCHANGED <<state, sdk, last, busy, signal, threw, loop, history>>

\* onFatal of the tool executions: the host aborts the session itself.
ExecutionFails(code) ==
    /\ busy /\ code \in Faults
    /\ reason' = ReasonAfter(code) /\ signal' = TRUE
    /\ faults' = faults \cup {code}
    /\ UNCHANGED <<aborted, usage, seen, seam, sdk, last, calls, busy, threw, loop,
                   count, spent, asked, late>>

ToolsEnd ==
    /\ sdk = "tools" /\ ~busy
    /\ sdk' \in {"thinking", "ending"}
    /\ UNCHANGED <<state, seam, last, calls, busy, signal, threw, loop, history>>

\* Mutant: a retry that the SDK announces leaves the provider's error.
ReasonOnRetryKept == reason

\* clearRetryableModelError.
ReasonOnRetry == IF reason = "model_error" THEN "none" ELSE reason

AgentEnds(willRetry) ==
    /\ sdk = "ending" /\ (willRetry => last.kind = "error")
    /\ sdk' = IF willRetry THEN "retry" ELSE "done"
    /\ reason' = IF willRetry THEN ReasonOnRetry ELSE reason
    /\ UNCHANGED <<aborted, usage, seen, seam, last, calls, busy, signal, threw, loop, history>>

\* The pause before a retry is over, or an abort ends it.
Retries ==
    /\ sdk = "retry" /\ sdk' = IF signal THEN "done" ELSE "thinking"
    /\ UNCHANGED <<state, seam, last, calls, busy, signal, threw, loop, history>>

PromptThrows ==
    /\ sdk = "thinking" /\ sdk' = "done" /\ threw' = TRUE
    /\ UNCHANGED <<state, seam, last, calls, busy, signal, loop, history>>

\* RunControl.requestAbort reaches ProductionSessionState.abort once. With
\* a reason standing, a provider's error included, it leaves no mark.
RequestAbort ==
    /\ pc # "over" /\ ~asked /\ asked' = TRUE
    /\ reason' = IF reason = "none" THEN "user_aborted" ELSE reason
    /\ aborted' = (aborted \/ reason = "none")
    /\ signal' = (signal \/ pc = "prompting")
    /\ UNCHANGED <<usage, seen, seam, sdk, last, calls, busy, threw, loop, count, spent, faults, late>>

-----------------------------------------------------------------------------
(* The loop: runSessionTurn, from one await to the next.                   *)

Over(how, why) == pc' = "over" /\ outcome' = how /\ verdict' = why

Prompt ==
    /\ pc = "top" /\ reason # "user_aborted"
    /\ pc' = "prompting" /\ sdk' = "thinking" /\ signal' = FALSE
    /\ UNCHANGED <<state, seam, last, calls, busy, threw, recoveries, reopens, charged,
                   outcome, verdict, history>>

Settled == pc = "prompting" /\ sdk = "done"
Refusals == threw /\ reason = "none"
Ok == Len(captures) = 1 /\ captures[1] = "valid"

FinishUserAbort ==
    /\ Settled \/ pc = "top"
    /\ reason = "user_aborted"
    /\ charged' = usage /\ Over("user_aborted", "none")
    /\ UNCHANGED <<state, seam, agent, recoveries, reopens, history>>

Rethrow ==
    /\ Settled /\ Refusals
    /\ charged' = usage /\ Over("thrown", "none")
    /\ UNCHANGED <<state, seam, agent, recoveries, reopens, history>>

\* validateEmission.
Breach ==
    IF captures = <<>> THEN "no_emission"
    ELSE IF Len(captures) > 1 THEN "extra_emission" ELSE "schema_invalid"

Recoverable == reason = "none" /\ captures = <<>> /\ recoveries < MaxRecovery

Recover ==
    /\ Settled /\ ~threw /\ Recoverable
    /\ recoveries' = recoveries + 1 /\ charged' = usage
    /\ pc' = "top" /\ sdk' = "idle"
    /\ UNCHANGED <<state, seam, last, calls, busy, signal, threw, reopens, outcome, verdict, history>>

\* The host's reason comes before the breach that the captures tell.
FailsInBreach ==
    /\ Settled /\ ~Refusals /\ reason # "user_aborted" /\ ~Ok /\ ~Recoverable
    /\ charged' = usage /\ Over("failed", IF reason = "none" THEN Breach ELSE reason)
    /\ UNCHANGED <<state, seam, agent, recoveries, reopens, history>>

\* Mutant: a valid capture is taken whatever the host knows.
CapturedIsEnough == Ok

\* A reason of the host supersedes a valid capture.
Standing == Ok /\ reason = "none"

FailsInHost ==
    /\ Settled /\ reason \notin {"none", "user_aborted"} /\ Ok /\ ~Standing
    /\ charged' = usage /\ Over("failed", reason)
    /\ UNCHANGED <<state, seam, agent, recoveries, reopens, history>>

\* Nothing stands in the way of the event; what is awaited before the
\* transition is accepted is left to the operator and to Reopen.
Decide ==
    /\ Settled /\ ~Refusals /\ reason # "user_aborted" /\ Standing
    /\ charged' = usage /\ pc' = "commit"
    /\ UNCHANGED <<state, seam, agent, recoveries, reopens, outcome, verdict, history>>

Accept ==
    /\ pc = "commit" /\ Over("accepted", "none")
    /\ UNCHANGED <<state, seam, agent, recoveries, reopens, charged, history>>

\* Pending children, guidance, a rejected event, an envelope or a guard that
\* did not pass: the capture is discarded and the session prompted again.
Reopen ==
    /\ pc = "commit" /\ reopens < MaxReopens
    /\ captures' = <<>> /\ sealed' = FALSE
    /\ reopens' = reopens + 1 /\ pc' = "top" /\ sdk' = "idle"
    /\ UNCHANGED <<state, last, calls, busy, signal, threw, recoveries, charged, outcome,
                   verdict, history>>

Rest == pc = "over" /\ UNCHANGED vars

Next ==
    \/ \E kind \in {"tools", "text", "error", "aborted"}, priced \in BOOLEAN :
        MessageEnds(kind, priced)
    \/ MessageEndsAgain \/ Compacts \/ ToolCalled \/ ToolReturns
    \/ \E args \in {"valid", "invalid", "correctable", "unreadable"} : Emits(args)
    \/ \E code \in Faults : ExecutionFails(code)
    \/ ToolsEnd \/ \E willRetry \in BOOLEAN : AgentEnds(willRetry)
    \/ Retries \/ PromptThrows \/ RequestAbort
    \/ Prompt \/ FinishUserAbort \/ Rethrow \/ Recover \/ FailsInBreach \/ FailsInHost
    \/ Decide \/ Accept \/ Reopen \/ Rest

Spec == Init /\ [][Next]_vars

-----------------------------------------------------------------------------
(* Properties.                                                             *)

TypeOK ==
    /\ reason \in Reasons /\ aborted \in BOOLEAN
    /\ usage \in Nat /\ seen \subseteq 1..MaxMessages
    /\ captures \in Seq({"valid", "invalid", "correctable"}) /\ sealed \in BOOLEAN
    /\ sdk \in {"idle", "thinking", "tools", "ending", "retry", "done"}
    /\ last \in [id : 0..MaxMessages, kind : {"none", "tools", "text", "error", "aborted"},
                 priced : BOOLEAN]
    /\ calls \in 0..MaxCalls /\ busy \in BOOLEAN /\ signal \in BOOLEAN /\ threw \in BOOLEAN
    /\ pc \in {"top", "prompting", "commit", "over"}
    /\ recoveries \in 0..MaxRecovery /\ reopens \in 0..MaxReopens /\ charged \in Nat
    /\ outcome \in {"none", "user_aborted", "thrown", "failed", "accepted"}
    /\ verdict \in HostCauses \cup Breaches \cup {"none", "model_error"}
    /\ count \in 0..MaxMessages /\ spent \in 0..MaxMessages
    /\ faults \subseteq Faults /\ asked \in BOOLEAN /\ late \in BOOLEAN

\* However often a message is delivered, and over however many prompts,
\* retries and compactions, the session's record carries what they cost,
\* and no session that has reached its cap goes on without a cause.
CostIsCharged ==
    /\ TypeOK
    /\ outcome # "none" => charged = spent
    /\ spent >= Cap => reason \in HostCauses

\* A session is only given to the next model for a provider error that came
\* last and was not retried, with no cause of the host's own before or after
\* it; a breach is only recorded when nobody else ended the session, but for
\* an operator's abort that came between an error and its retry; and a
\* process that was not confirmed stopped is never reported as less.
VerdictIsRight ==
    outcome = "failed" =>
        /\ verdict = "model_error" =>
             last.kind = "error" /\ faults = {} /\ spent < Cap /\ ~aborted
        /\ verdict \in Breaches =>
             faults = {} /\ spent < Cap /\ (last.kind = "error" => asked)
        /\ faults # {} => verdict = IF "tool_cleanup_unconfirmed" \in faults
                                    THEN "tool_cleanup_unconfirmed"
                                    ELSE "tool_timeout_exhausted"

\* What is accepted is the one emission of a session that the host did not
\* end, and no tool has run after it, or after the host had its reason.
CommitsAreClean ==
    /\ outcome = "accepted" => captures = <<"valid">> /\ faults = {} /\ spent < Cap
    /\ ~late
=============================================================================
