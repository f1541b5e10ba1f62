-------------------------- MODULE SessionSeamProofs --------------------------
(***************************************************************************)
(* TLAPS proofs about SessionSeam, for every cap, number of messages, tool *)
(* calls, recovery prompts and discarded captures.                         *)
(***************************************************************************)
EXTENDS SessionSeam, TLAPS

\* What the messages have cost, each counted once.
CostCounted ==
    /\ usage = spent /\ spent <= count
    /\ \A id \in seen : id <= count
    /\ last.id <= count
    /\ last.priced => last.id \in seen

\* What the host knows of is its reason, and gives way only to worse.
CauseStands ==
    /\ aborted => reason \in HostCauses
    /\ spent >= Cap => reason \in HostCauses
    /\ reason \in Faults => reason \in faults
    /\ faults # {} => reason = IF "tool_cleanup_unconfirmed" \in faults
                               THEN "tool_cleanup_unconfirmed"
                               ELSE "tool_timeout_exhausted"

\* A provider error stands from its message until its retry is announced.
\* A signal has a cause, or the operator sent it over such an error.
ErrorIsLast ==
    /\ reason = "model_error" => last.kind = "error" /\ pc \in {"prompting", "over"}
    /\ reason = "model_error" /\ pc = "prompting" => sdk \in {"ending", "done"}
    /\ pc = "prompting" /\ signal /\ reason \notin HostCauses =>
         asked /\ last.kind = "error" /\ sdk \in {"ending", "retry", "done"}
    /\ reason = "none" /\ last.kind = "error" /\ ~asked =>
         sdk # "ending" /\ (sdk = "done" => threw)

\* The agent rests whenever the loop decides.
AgentRests ==
    /\ busy => sdk = "tools"
    /\ sdk = "tools" => last.kind = "tools"
    /\ pc \in {"commit", "over"} => sdk \in {"idle", "done"}
    /\ pc = "top" => sdk = "idle"

SealIsValid == sealed = (captures # <<>> /\ captures[1] = "valid")

\* What was decided still holds when the transition is accepted.
Decided ==
    /\ pc = "commit" => captures = <<"valid">> /\ faults = {} /\ spent < Cap
    /\ pc \in {"commit", "over"} => charged = usage
    /\ pc = "over" <=> outcome # "none"

IInv ==
    /\ TypeOK /\ CostCounted /\ CauseStands /\ ErrorIsLast /\ AgentRests
    /\ SealIsValid /\ Decided /\ VerdictIsRight /\ CommitsAreClean

\* The captures stay a sequence.
LEMMA EmptyIsSeq == ASSUME NEW S PROVE <<>> \in Seq(S)
OBVIOUS

LEMMA SingleIsSeq == ASSUME NEW S, NEW a \in S PROVE <<a>> \in Seq(S)
OBVIOUS

LEMMA AppendIsSeq ==
    ASSUME NEW S, NEW s \in Seq(S), NEW a \in S
    PROVE  Append(s, a) \in Seq(S)
OBVIOUS

-----------------------------------------------------------------------------
(* Every step of the agent, the host and the loop preserves it.            *)

LEMMA MessageEndsStep ==
    ASSUME IInv,
           NEW kind \in {"tools", "text", "error", "aborted"},
           NEW priced \in BOOLEAN,
           MessageEnds(kind, priced)
    PROVE  IInv'
<1>1. TypeOK'
  <2>1. reason' \in Reasons /\ aborted' \in BOOLEAN
    BY SeamAssumption DEF IInv, TypeOK, Faults, HostCauses, Reasons, ReasonAfter,
         Counts, AddUsage, Handled, MessageEnds, seam, loop
  <2>2. usage' \in Nat /\ seen' \subseteq 1..MaxMessages
    BY SeamAssumption DEF IInv, TypeOK, CostCounted, ReasonAfter, Counts, AddUsage,
         Handled, MessageEnds, seam, loop
  <2>3. captures' \in Seq({"valid", "invalid", "correctable"}) /\ sealed' \in BOOLEAN
    BY SeamAssumption DEF IInv, TypeOK, ReasonAfter, Counts, AddUsage, Handled,
         MessageEnds, seam, loop
  <2>4. /\ sdk' \in {"idle", "thinking", "tools", "ending", "retry", "done"}
        /\ last' \in [id : 0..MaxMessages,
                      kind : {"none", "tools", "text", "error", "aborted"},
                      priced : BOOLEAN]
    BY SeamAssumption DEF IInv, TypeOK, ReasonAfter, Counts, AddUsage, Handled,
         MessageEnds, seam, loop
  <2>5. /\ calls' \in 0..MaxCalls /\ busy' \in BOOLEAN
        /\ signal' \in BOOLEAN /\ threw' \in BOOLEAN
    <3>1. calls' = 0 /\ busy' = busy /\ threw' = threw BY DEF MessageEnds
    <3>2. signal' \in {signal, TRUE} BY DEF MessageEnds, Handled
    <3>3. calls' \in 0..MaxCalls BY <3>1, SeamAssumption DEF SeamAssumption
    <3>. QED BY <3>1, <3>2, <3>3, Zenon DEF IInv, TypeOK
  <2>6. /\ pc' \in {"top", "prompting", "commit", "over"}
        /\ recoveries' \in 0..MaxRecovery /\ reopens' \in 0..MaxReopens
        /\ charged' \in Nat
        /\ outcome' \in {"none", "user_aborted", "thrown", "failed", "accepted"}
        /\ verdict' \in HostCauses \cup Breaches \cup {"none", "model_error"}
    BY SeamAssumption DEF IInv, TypeOK, Faults, HostCauses, ReasonAfter, Counts,
         AddUsage, Handled, MessageEnds, seam, loop
  <2>7. /\ count' \in 0..MaxMessages /\ spent' \in 0..MaxMessages
        /\ faults' \subseteq Faults /\ asked' \in BOOLEAN /\ late' \in BOOLEAN
    BY SeamAssumption DEF IInv, TypeOK, CostCounted, Faults, ReasonAfter, Counts,
         AddUsage, Handled, MessageEnds, seam, loop
  <2>. QED BY <2>1, <2>2, <2>3, <2>4, <2>5, <2>6, <2>7 DEF TypeOK
<1>2. CostCounted'
  BY SeamAssumption DEF IInv, TypeOK, CostCounted, Faults, HostCauses, Reasons,
       Breaches, ReasonAfter, Counts, AddUsage, Handled, MessageEnds, seam, loop
<1>3. CauseStands'
  BY SeamAssumption DEF IInv, TypeOK, CostCounted, CauseStands, Faults, HostCauses,
       Reasons, Breaches, ReasonAfter, Counts, AddUsage, Handled, MessageEnds, seam,
       loop
<1>4. ErrorIsLast'
  BY SeamAssumption DEF IInv, TypeOK, CauseStands, ErrorIsLast, AgentRests, Faults,
       HostCauses, Reasons, Breaches, ReasonAfter, Counts, AddUsage, Handled,
       MessageEnds, seam, loop
<1>5. AgentRests'
  BY SeamAssumption DEF IInv, TypeOK, AgentRests, Faults, HostCauses, Reasons,
       Breaches, ReasonAfter, Counts, AddUsage, Handled, MessageEnds, seam, loop
<1>6. Decided'
  BY SeamAssumption DEF IInv, TypeOK, CauseStands, AgentRests, Decided, Faults,
       HostCauses, Reasons, Breaches, ReasonAfter, Counts, AddUsage, Handled,
       MessageEnds, seam, loop
<1>7. VerdictIsRight'
  BY SeamAssumption DEF IInv, TypeOK, CauseStands, ErrorIsLast, AgentRests, Decided,
       VerdictIsRight, Faults, HostCauses, Reasons, Breaches, ReasonAfter, Counts,
       AddUsage, Handled, MessageEnds, seam, loop
<1>8. CommitsAreClean'
  BY SeamAssumption DEF IInv, TypeOK, CauseStands, AgentRests, SealIsValid, Decided,
       CommitsAreClean, Faults, HostCauses, Reasons, Breaches, ReasonAfter, Counts,
       AddUsage, Handled, MessageEnds, seam, loop
<1>9. SealIsValid'
  BY DEF IInv, SealIsValid, ReasonAfter, Counts, AddUsage, Handled, MessageEnds, seam,
       loop
<1>. QED BY <1>1, <1>2, <1>3, <1>4, <1>5, <1>6, <1>7, <1>8, <1>9 DEF IInv

LEMMA MessageEndsAgainStep ==
    ASSUME IInv, MessageEndsAgain
    PROVE  IInv'
<1>1. TypeOK'
  <2>1. reason' \in Reasons /\ aborted' \in BOOLEAN
    BY SeamAssumption DEF IInv, TypeOK, Faults, HostCauses, Reasons, NoMessage,
         ReasonAfter, Counts, AddUsage, Handled, MessageEndsAgain, seam, loop, history
  <2>2. usage' \in Nat /\ seen' \subseteq 1..MaxMessages
    <3>1. AddUsage(last.id, last.priced) BY DEF MessageEndsAgain, Handled
    <3>2. last.priced => last.id \in seen BY DEF IInv, CostCounted
    <3>3. usage' = usage + 0 /\ seen' = seen
      BY <3>1, <3>2 DEF AddUsage, Counts
    <3>. QED BY <3>3 DEF IInv, TypeOK
  <2>3. captures' \in Seq({"valid", "invalid", "correctable"}) /\ sealed' \in BOOLEAN
    BY SeamAssumption DEF IInv, TypeOK, NoMessage, ReasonAfter, Counts, AddUsage,
         Handled, MessageEndsAgain, seam, loop, history
  <2>4. /\ sdk' \in {"idle", "thinking", "tools", "ending", "retry", "done"}
        /\ last' \in [id : 0..MaxMessages,
                      kind : {"none", "tools", "text", "error", "aborted"},
                      priced : BOOLEAN]
    BY SeamAssumption DEF IInv, TypeOK, NoMessage, ReasonAfter, Counts, AddUsage,
         Handled, MessageEndsAgain, seam, loop, history
  <2>5. /\ calls' \in 0..MaxCalls /\ busy' \in BOOLEAN
        /\ signal' \in BOOLEAN /\ threw' \in BOOLEAN
    BY SeamAssumption DEF IInv, TypeOK, NoMessage, ReasonAfter, Counts, AddUsage,
         Handled, MessageEndsAgain, seam, loop, history
  <2>6. /\ pc' \in {"top", "prompting", "commit", "over"}
        /\ recoveries' \in 0..MaxRecovery /\ reopens' \in 0..MaxReopens
        /\ charged' \in Nat
        /\ outcome' \in {"none", "user_aborted", "thrown", "failed", "accepted"}
        /\ verdict' \in HostCauses \cup Breaches \cup {"none", "model_error"}
    BY SeamAssumption DEF IInv, TypeOK, Faults, HostCauses, NoMessage, ReasonAfter,
         Counts, AddUsage, Handled, MessageEndsAgain, seam, loop, history
  <2>7. /\ count' \in 0..MaxMessages /\ spent' \in 0..MaxMessages
        /\ faults' \subseteq Faults /\ asked' \in BOOLEAN /\ late' \in BOOLEAN
    BY SeamAssumption DEF IInv, TypeOK, CostCounted, Faults, NoMessage, ReasonAfter,
         Counts, AddUsage, Handled, MessageEndsAgain, seam, loop, history
  <2>. QED BY <2>1, <2>2, <2>3, <2>4, <2>5, <2>6, <2>7 DEF TypeOK
<1>2. CostCounted'
  BY SeamAssumption DEF IInv, TypeOK, CostCounted, Faults, HostCauses, Reasons,
       Breaches, NoMessage, ReasonAfter, Counts, AddUsage, Handled, MessageEndsAgain,
       seam, loop, history
<1>3. CauseStands'
  BY SeamAssumption DEF IInv, TypeOK, CostCounted, CauseStands, Faults, HostCauses,
       Reasons, Breaches, NoMessage, ReasonAfter, Counts, AddUsage, Handled,
       MessageEndsAgain, seam, loop, history
<1>4. ErrorIsLast'
  BY SeamAssumption DEF IInv, TypeOK, CauseStands, ErrorIsLast, AgentRests, Faults,
       HostCauses, Reasons, Breaches, NoMessage, ReasonAfter, Counts, AddUsage,
       Handled, MessageEndsAgain, seam, loop, history
<1>5. Decided'
  BY SeamAssumption DEF IInv, TypeOK, CauseStands, AgentRests, Decided, Faults,
       HostCauses, Reasons, Breaches, NoMessage, ReasonAfter, Counts, AddUsage,
       Handled, MessageEndsAgain, seam, loop, history
<1>6. VerdictIsRight'
  BY SeamAssumption DEF IInv, TypeOK, CauseStands, ErrorIsLast, AgentRests, Decided,
       VerdictIsRight, Faults, HostCauses, Reasons, Breaches, NoMessage, ReasonAfter,
       Counts, AddUsage, Handled, MessageEndsAgain, seam, loop, history
<1>7. AgentRests' /\ SealIsValid' /\ CommitsAreClean'
  BY DEF IInv, AgentRests, SealIsValid, CommitsAreClean, NoMessage, ReasonAfter,
       Counts, AddUsage, Handled, MessageEndsAgain, seam, loop, history
<1>. QED BY <1>1, <1>2, <1>3, <1>4, <1>5, <1>6, <1>7 DEF IInv

LEMMA CompactsStep ==
    ASSUME IInv, Compacts
    PROVE  IInv'
<1>1. TypeOK'
  <2>1. reason' \in Reasons /\ aborted' \in BOOLEAN
    BY SeamAssumption DEF IInv, TypeOK, Faults, HostCauses, Reasons, ReasonAfter,
         Counts, AddUsage, Compacts, seam, loop
  <2>2. usage' \in Nat /\ seen' \subseteq 1..MaxMessages
    BY SeamAssumption DEF IInv, TypeOK, CostCounted, ReasonAfter, Counts, AddUsage,
         Compacts, seam, loop
  <2>3. captures' \in Seq({"valid", "invalid", "correctable"}) /\ sealed' \in BOOLEAN
    BY SeamAssumption DEF IInv, TypeOK, ReasonAfter, Counts, AddUsage, Compacts, seam,
         loop
  <2>4. /\ sdk' \in {"idle", "thinking", "tools", "ending", "retry", "done"}
        /\ last' \in [id : 0..MaxMessages,
                      kind : {"none", "tools", "text", "error", "aborted"},
                      priced : BOOLEAN]
    BY SeamAssumption DEF IInv, TypeOK, ReasonAfter, Counts, AddUsage, Compacts, seam,
         loop
  <2>5. /\ calls' \in 0..MaxCalls /\ busy' \in BOOLEAN
        /\ signal' \in BOOLEAN /\ threw' \in BOOLEAN
    BY SeamAssumption DEF IInv, TypeOK, ReasonAfter, Counts, AddUsage, Compacts, seam,
         loop
  <2>6. /\ pc' \in {"top", "prompting", "commit", "over"}
        /\ recoveries' \in 0..MaxRecovery /\ reopens' \in 0..MaxReopens
        /\ charged' \in Nat
        /\ outcome' \in {"none", "user_aborted", "thrown", "failed", "accepted"}
        /\ verdict' \in HostCauses \cup Breaches \cup {"none", "model_error"}
    BY SeamAssumption DEF IInv, TypeOK, Faults, HostCauses, ReasonAfter, Counts,
         AddUsage, Compacts, seam, loop
  <2>7. /\ count' \in 0..MaxMessages /\ spent' \in 0..MaxMessages
        /\ faults' \subseteq Faults /\ asked' \in BOOLEAN /\ late' \in BOOLEAN
    BY SeamAssumption DEF IInv, TypeOK, CostCounted, Faults, ReasonAfter, Counts,
         AddUsage, Compacts, seam, loop
  <2>. QED BY <2>1, <2>2, <2>3, <2>4, <2>5, <2>6, <2>7 DEF TypeOK
<1>2. CostCounted'
  BY SeamAssumption DEF IInv, TypeOK, CostCounted, Faults, HostCauses, Reasons,
       Breaches, ReasonAfter, Counts, AddUsage, Compacts, seam, loop
<1>3. CauseStands'
  BY SeamAssumption DEF IInv, TypeOK, CostCounted, CauseStands, Faults, HostCauses,
       Reasons, Breaches, ReasonAfter, Counts, AddUsage, Compacts, seam, loop
<1>4. ErrorIsLast'
  BY SeamAssumption DEF IInv, TypeOK, CauseStands, ErrorIsLast, AgentRests, Faults,
       HostCauses, Reasons, Breaches, ReasonAfter, Counts, AddUsage, Compacts, seam,
       loop
<1>5. Decided'
  BY SeamAssumption DEF IInv, TypeOK, CauseStands, AgentRests, Decided, Faults,
       HostCauses, Reasons, Breaches, ReasonAfter, Counts, AddUsage, Compacts, seam,
       loop
<1>6. VerdictIsRight'
  BY SeamAssumption DEF IInv, TypeOK, CauseStands, ErrorIsLast, AgentRests, Decided,
       VerdictIsRight, Faults, HostCauses, Reasons, Breaches, ReasonAfter, Counts,
       AddUsage, Compacts, seam, loop
<1>7. CommitsAreClean'
  BY SeamAssumption DEF IInv, TypeOK, CauseStands, AgentRests, SealIsValid, Decided,
       CommitsAreClean, Faults, HostCauses, Reasons, Breaches, ReasonAfter, Counts,
       AddUsage, Compacts, seam, loop
<1>8. AgentRests' /\ SealIsValid'
  BY DEF IInv, AgentRests, SealIsValid, ReasonAfter, Counts, AddUsage, Compacts, seam,
       loop
<1>. QED BY <1>1, <1>2, <1>3, <1>4, <1>5, <1>6, <1>7, <1>8 DEF IInv

LEMMA ToolCalledStep ==
    ASSUME IInv, ToolCalled
    PROVE  IInv'
<1>1. TypeOK'
  BY SeamAssumption DEF IInv, TypeOK, Faults, HostCauses, Reasons, Breaches, Calling,
       LetsThrough, Closed, ToolCalled, state, seam, loop
<1>2. AgentRests'
  BY SeamAssumption DEF IInv, TypeOK, AgentRests, Faults, HostCauses, Reasons,
       Breaches, Calling, LetsThrough, Closed, ToolCalled, state, seam, loop
<1>3. CommitsAreClean'
  BY SeamAssumption DEF IInv, TypeOK, CauseStands, AgentRests, SealIsValid, Decided,
       CommitsAreClean, Faults, HostCauses, Reasons, Breaches, Calling, LetsThrough,
       Closed, ToolCalled, state, seam, loop
<1>4. /\ CostCounted' /\ CauseStands' /\ ErrorIsLast'
      /\ SealIsValid' /\ Decided' /\ VerdictIsRight'
  BY DEF IInv, CostCounted, CauseStands, ErrorIsLast, SealIsValid, Decided,
       VerdictIsRight, Faults, HostCauses, Breaches, Calling, LetsThrough, Closed,
       ToolCalled, state, seam, loop
<1>. QED BY <1>1, <1>2, <1>3, <1>4 DEF IInv

LEMMA ToolReturnsStep ==
    ASSUME IInv, ToolReturns
    PROVE  IInv'
<1>1. TypeOK'
  <2>1. reason' \in Reasons /\ aborted' \in BOOLEAN
    BY SeamAssumption DEF IInv, TypeOK, Faults, HostCauses, Reasons, ToolReturns,
         state, seam, loop, history
  <2>2. usage' \in Nat /\ seen' \subseteq 1..MaxMessages
    BY SeamAssumption DEF IInv, TypeOK, CostCounted, ToolReturns, state, seam, loop,
         history
  <2>3. captures' \in Seq({"valid", "invalid", "correctable"}) /\ sealed' \in BOOLEAN
    BY SeamAssumption DEF IInv, TypeOK, ToolReturns, state, seam, loop, history
  <2>4. /\ sdk' \in {"idle", "thinking", "tools", "ending", "retry", "done"}
        /\ last' \in [id : 0..MaxMessages,
                      kind : {"none", "tools", "text", "error", "aborted"},
                      priced : BOOLEAN]
    BY SeamAssumption DEF IInv, TypeOK, ToolReturns, state, seam, loop, history
  <2>5. /\ calls' \in 0..MaxCalls /\ busy' \in BOOLEAN
        /\ signal' \in BOOLEAN /\ threw' \in BOOLEAN
    BY SeamAssumption DEF IInv, TypeOK, ToolReturns, state, seam, loop, history
  <2>6. /\ pc' \in {"top", "prompting", "commit", "over"}
        /\ recoveries' \in 0..MaxRecovery /\ reopens' \in 0..MaxReopens
        /\ charged' \in Nat
        /\ outcome' \in {"none", "user_aborted", "thrown", "failed", "accepted"}
        /\ verdict' \in HostCauses \cup Breaches \cup {"none", "model_error"}
    BY SeamAssumption DEF IInv, TypeOK, Faults, HostCauses, ToolReturns, state, seam,
         loop, history
  <2>7. /\ count' \in 0..MaxMessages /\ spent' \in 0..MaxMessages
        /\ faults' \subseteq Faults /\ asked' \in BOOLEAN /\ late' \in BOOLEAN
    BY SeamAssumption DEF IInv, TypeOK, CostCounted, Faults, ToolReturns, state, seam,
         loop, history
  <2>. QED BY <2>1, <2>2, <2>3, <2>4, <2>5, <2>6, <2>7 DEF TypeOK
<1>2. AgentRests'
  BY SeamAssumption DEF IInv, TypeOK, AgentRests, Faults, HostCauses, Reasons,
       Breaches, ToolReturns, state, seam, loop, history
<1>3. /\ CostCounted' /\ CauseStands' /\ ErrorIsLast' /\ SealIsValid'
      /\ Decided' /\ VerdictIsRight' /\ CommitsAreClean'
  BY DEF IInv, CostCounted, CauseStands, ErrorIsLast, SealIsValid, Decided,
       VerdictIsRight, CommitsAreClean, Faults, HostCauses, Breaches, ToolReturns,
       state, seam, loop, history
<1>. QED BY <1>1, <1>2, <1>3 DEF IInv

LEMMA EmitsStep ==
    ASSUME IInv,
           NEW args \in {"valid", "invalid", "correctable", "unreadable"},
           Emits(args)
    PROVE  IInv'
<1>1. TypeOK'
  <2>1. reason' \in Reasons /\ aborted' \in BOOLEAN
    BY SeamAssumption DEF IInv, TypeOK, Faults, HostCauses, Reasons, Calling, Emits,
         state, seam, loop, history
  <2>2. usage' \in Nat /\ seen' \subseteq 1..MaxMessages
    BY SeamAssumption DEF IInv, TypeOK, CostCounted, Calling, Emits, state, seam, loop,
         history
  <2>3. captures' \in Seq({"valid", "invalid", "correctable"}) /\ sealed' \in BOOLEAN
    <3>1. CASE args = "unreadable"
      BY <3>1 DEF Emits, seam, IInv, TypeOK
    <3>2. CASE args # "unreadable"
      <4>1. args \in {"valid", "invalid", "correctable"} BY <3>2
      <4>2. \/ captures' = captures \/ captures' = Append(captures, args)
            \/ captures' = <<args>>
        BY DEF Emits, seam
      <4>3. sealed' \in {sealed, TRUE, FALSE} BY DEF Emits, seam
      <4>4. captures \in Seq({"valid", "invalid", "correctable"}) BY DEF IInv, TypeOK
      <4>5. captures' \in Seq({"valid", "invalid", "correctable"})
        BY <4>1, <4>2, <4>4, SingleIsSeq, AppendIsSeq
      <4>6. sealed' \in BOOLEAN BY <4>3, Zenon DEF IInv, TypeOK
      <4>. QED BY <4>5, <4>6
    <3>. QED BY <3>1, <3>2
  <2>4. /\ sdk' \in {"idle", "thinking", "tools", "ending", "retry", "done"}
        /\ last' \in [id : 0..MaxMessages,
                      kind : {"none", "tools", "text", "error", "aborted"},
                      priced : BOOLEAN]
    BY SeamAssumption DEF IInv, TypeOK, Calling, Emits, state, seam, loop, history
  <2>5. /\ calls' \in 0..MaxCalls /\ busy' \in BOOLEAN
        /\ signal' \in BOOLEAN /\ threw' \in BOOLEAN
    BY SeamAssumption DEF IInv, TypeOK, Calling, Emits, state, seam, loop, history
  <2>6. /\ pc' \in {"top", "prompting", "commit", "over"}
        /\ recoveries' \in 0..MaxRecovery /\ reopens' \in 0..MaxReopens
        /\ charged' \in Nat
        /\ outcome' \in {"none", "user_aborted", "thrown", "failed", "accepted"}
        /\ verdict' \in HostCauses \cup Breaches \cup {"none", "model_error"}
    BY SeamAssumption DEF IInv, TypeOK, Faults, HostCauses, Calling, Emits, state,
         seam, loop, history
  <2>7. /\ count' \in 0..MaxMessages /\ spent' \in 0..MaxMessages
        /\ faults' \subseteq Faults /\ asked' \in BOOLEAN /\ late' \in BOOLEAN
    BY SeamAssumption DEF IInv, TypeOK, CostCounted, Faults, Calling, Emits, state,
         seam, loop, history
  <2>. QED BY <2>1, <2>2, <2>3, <2>4, <2>5, <2>6, <2>7 DEF TypeOK
<1>2. SealIsValid'
  BY SeamAssumption DEF IInv, TypeOK, SealIsValid, Faults, HostCauses, Reasons,
       Breaches, Calling, Emits, state, seam, loop, history
<1>3. Decided'
  BY SeamAssumption DEF IInv, TypeOK, CauseStands, AgentRests, Decided, Faults,
       HostCauses, Reasons, Breaches, Calling, Emits, state, seam, loop, history
<1>4. CommitsAreClean'
  BY SeamAssumption DEF IInv, TypeOK, CauseStands, AgentRests, SealIsValid, Decided,
       CommitsAreClean, Faults, HostCauses, Reasons, Breaches, Calling, Emits, state,
       seam, loop, history
<1>5. CostCounted' /\ CauseStands' /\ ErrorIsLast' /\ AgentRests' /\ VerdictIsRight'
  BY DEF IInv, CostCounted, CauseStands, ErrorIsLast, AgentRests, VerdictIsRight,
       Faults, HostCauses, Breaches, Calling, Emits, state, seam, loop, history
<1>. QED BY <1>1, <1>2, <1>3, <1>4, <1>5 DEF IInv

LEMMA ExecutionFailsStep ==
    ASSUME IInv, NEW code \in Faults, ExecutionFails(code)
    PROVE  IInv'
<1>1. TypeOK'
  BY SeamAssumption DEF IInv, TypeOK, Faults, HostCauses, Reasons, Breaches,
       ReasonAfter, ExecutionFails, seam, loop
<1>2. CauseStands'
  BY SeamAssumption DEF IInv, TypeOK, CostCounted, CauseStands, Faults, HostCauses,
       Reasons, Breaches, ReasonAfter, ExecutionFails, seam, loop
<1>3. ErrorIsLast'
  BY SeamAssumption DEF IInv, TypeOK, CauseStands, ErrorIsLast, AgentRests, Faults,
       HostCauses, Reasons, Breaches, ReasonAfter, ExecutionFails, seam, loop
<1>4. Decided'
  BY SeamAssumption DEF IInv, TypeOK, CauseStands, AgentRests, Decided, Faults,
       HostCauses, Reasons, Breaches, ReasonAfter, ExecutionFails, seam, loop
<1>5. VerdictIsRight'
  BY SeamAssumption DEF IInv, TypeOK, CauseStands, ErrorIsLast, AgentRests, Decided,
       VerdictIsRight, Faults, HostCauses, Reasons, Breaches, ReasonAfter,
       ExecutionFails, seam, loop
<1>6. CommitsAreClean'
  BY SeamAssumption DEF IInv, TypeOK, CauseStands, AgentRests, SealIsValid, Decided,
       CommitsAreClean, Faults, HostCauses, Reasons, Breaches, ReasonAfter,
       ExecutionFails, seam, loop
<1>7. CostCounted' /\ AgentRests' /\ SealIsValid'
  BY DEF IInv, CostCounted, AgentRests, SealIsValid, Faults, ReasonAfter,
       ExecutionFails, seam, loop
<1>. QED BY <1>1, <1>2, <1>3, <1>4, <1>5, <1>6, <1>7 DEF IInv

LEMMA ToolsEndStep ==
    ASSUME IInv, ToolsEnd
    PROVE  IInv'
<1>1. TypeOK'
  BY SeamAssumption DEF IInv, TypeOK, Faults, HostCauses, Reasons, Breaches, ToolsEnd,
       state, seam, loop, history
<1>2. ErrorIsLast'
  BY SeamAssumption DEF IInv, TypeOK, CauseStands, ErrorIsLast, AgentRests, Faults,
       HostCauses, Reasons, Breaches, ToolsEnd, state, seam, loop, history
<1>3. AgentRests'
  BY SeamAssumption DEF IInv, TypeOK, AgentRests, Faults, HostCauses, Reasons,
       Breaches, ToolsEnd, state, seam, loop, history
<1>4. /\ CostCounted' /\ CauseStands' /\ SealIsValid'
      /\ Decided' /\ VerdictIsRight' /\ CommitsAreClean'
  BY DEF IInv, CostCounted, CauseStands, SealIsValid, Decided, VerdictIsRight,
       CommitsAreClean, Faults, HostCauses, Breaches, ToolsEnd, state, seam, loop,
       history
<1>. QED BY <1>1, <1>2, <1>3, <1>4 DEF IInv

LEMMA AgentEndsStep ==
    ASSUME IInv, NEW willRetry \in BOOLEAN, AgentEnds(willRetry)
    PROVE  IInv'
<1>1. TypeOK'
  BY SeamAssumption DEF IInv, TypeOK, Faults, HostCauses, Reasons, Breaches,
       ReasonOnRetry, AgentEnds, seam, loop, history
<1>2. CauseStands'
  BY SeamAssumption DEF IInv, TypeOK, CostCounted, CauseStands, Faults, HostCauses,
       Reasons, Breaches, ReasonOnRetry, AgentEnds, seam, loop, history
<1>3. ErrorIsLast'
  BY SeamAssumption DEF IInv, TypeOK, CauseStands, ErrorIsLast, AgentRests, Faults,
       HostCauses, Reasons, Breaches, ReasonOnRetry, AgentEnds, seam, loop, history
<1>4. AgentRests'
  BY SeamAssumption DEF IInv, TypeOK, AgentRests, Faults, HostCauses, Reasons,
       Breaches, ReasonOnRetry, AgentEnds, seam, loop, history
<1>5. CostCounted' /\ SealIsValid' /\ Decided' /\ VerdictIsRight' /\ CommitsAreClean'
  BY DEF IInv, CostCounted, SealIsValid, Decided, VerdictIsRight, CommitsAreClean,
       Breaches, ReasonOnRetry, AgentEnds, seam, loop, history
<1>. QED BY <1>1, <1>2, <1>3, <1>4, <1>5 DEF IInv

LEMMA RetriesStep ==
    ASSUME IInv, Retries
    PROVE  IInv'
<1>1. TypeOK'
  BY SeamAssumption DEF IInv, TypeOK, Faults, HostCauses, Reasons, Breaches, Retries,
       state, seam, loop, history
<1>2. ErrorIsLast'
  BY SeamAssumption DEF IInv, TypeOK, CauseStands, ErrorIsLast, AgentRests, Faults,
       HostCauses, Reasons, Breaches, Retries, state, seam, loop, history
<1>3. AgentRests'
  BY SeamAssumption DEF IInv, TypeOK, AgentRests, Faults, HostCauses, Reasons,
       Breaches, Retries, state, seam, loop, history
<1>4. /\ CostCounted' /\ CauseStands' /\ SealIsValid'
      /\ Decided' /\ VerdictIsRight' /\ CommitsAreClean'
  BY DEF IInv, CostCounted, CauseStands, SealIsValid, Decided, VerdictIsRight,
       CommitsAreClean, Faults, HostCauses, Breaches, Retries, state, seam, loop,
       history
<1>. QED BY <1>1, <1>2, <1>3, <1>4 DEF IInv

LEMMA PromptThrowsStep ==
    ASSUME IInv, PromptThrows
    PROVE  IInv'
<1>1. TypeOK'
  BY SeamAssumption DEF IInv, TypeOK, Faults, HostCauses, Reasons, Breaches,
       PromptThrows, state, seam, loop, history
<1>2. ErrorIsLast'
  BY SeamAssumption DEF IInv, TypeOK, CauseStands, ErrorIsLast, AgentRests, Faults,
       HostCauses, Reasons, Breaches, PromptThrows, state, seam, loop, history
<1>3. AgentRests'
  BY SeamAssumption DEF IInv, TypeOK, AgentRests, Faults, HostCauses, Reasons,
       Breaches, PromptThrows, state, seam, loop, history
<1>4. /\ CostCounted' /\ CauseStands' /\ SealIsValid'
      /\ Decided' /\ VerdictIsRight' /\ CommitsAreClean'
  BY DEF IInv, CostCounted, CauseStands, SealIsValid, Decided, VerdictIsRight,
       CommitsAreClean, Faults, HostCauses, Breaches, PromptThrows, state, seam, loop,
       history
<1>. QED BY <1>1, <1>2, <1>3, <1>4 DEF IInv

LEMMA RequestAbortStep ==
    ASSUME IInv, RequestAbort
    PROVE  IInv'
<1>1. TypeOK'
  BY SeamAssumption DEF IInv, TypeOK, Faults, HostCauses, Reasons, Breaches,
       RequestAbort, seam, loop
<1>2. CauseStands'
  BY SeamAssumption DEF IInv, TypeOK, CostCounted, CauseStands, Faults, HostCauses,
       Reasons, Breaches, RequestAbort, seam, loop
<1>3. ErrorIsLast'
  BY SeamAssumption DEF IInv, TypeOK, CauseStands, ErrorIsLast, AgentRests, Faults,
       HostCauses, Reasons, Breaches, RequestAbort, seam, loop
<1>4. VerdictIsRight'
  BY SeamAssumption DEF IInv, TypeOK, CauseStands, ErrorIsLast, AgentRests, Decided,
       VerdictIsRight, Faults, HostCauses, Reasons, Breaches, RequestAbort, seam, loop
<1>5. CostCounted' /\ AgentRests' /\ SealIsValid' /\ Decided' /\ CommitsAreClean'
  BY DEF IInv, CostCounted, AgentRests, SealIsValid, Decided, CommitsAreClean,
       RequestAbort, seam, loop
<1>. QED BY <1>1, <1>2, <1>3, <1>4, <1>5 DEF IInv

LEMMA PromptStep ==
    ASSUME IInv, Prompt
    PROVE  IInv'
<1>1. TypeOK'
  <2>1. reason' \in Reasons /\ aborted' \in BOOLEAN
    BY SeamAssumption DEF IInv, TypeOK, Faults, HostCauses, Reasons, Prompt, state,
         seam, history
  <2>2. usage' \in Nat /\ seen' \subseteq 1..MaxMessages
    BY SeamAssumption DEF IInv, TypeOK, CostCounted, Prompt, state, seam, history
  <2>3. captures' \in Seq({"valid", "invalid", "correctable"}) /\ sealed' \in BOOLEAN
    BY SeamAssumption DEF IInv, TypeOK, Prompt, state, seam, history
  <2>4. /\ sdk' \in {"idle", "thinking", "tools", "ending", "retry", "done"}
        /\ last' \in [id : 0..MaxMessages,
                      kind : {"none", "tools", "text", "error", "aborted"},
                      priced : BOOLEAN]
    BY SeamAssumption DEF IInv, TypeOK, Prompt, state, seam, history
  <2>5. /\ calls' \in 0..MaxCalls /\ busy' \in BOOLEAN
        /\ signal' \in BOOLEAN /\ threw' \in BOOLEAN
    BY SeamAssumption DEF IInv, TypeOK, Prompt, state, seam, history
  <2>6. /\ pc' \in {"top", "prompting", "commit", "over"}
        /\ recoveries' \in 0..MaxRecovery /\ reopens' \in 0..MaxReopens
        /\ charged' \in Nat
        /\ outcome' \in {"none", "user_aborted", "thrown", "failed", "accepted"}
        /\ verdict' \in HostCauses \cup Breaches \cup {"none", "model_error"}
    BY SeamAssumption DEF IInv, TypeOK, Faults, HostCauses, Prompt, state, seam, history
  <2>7. /\ count' \in 0..MaxMessages /\ spent' \in 0..MaxMessages
        /\ faults' \subseteq Faults /\ asked' \in BOOLEAN /\ late' \in BOOLEAN
    BY SeamAssumption DEF IInv, TypeOK, CostCounted, Faults, Prompt, state, seam,
         history
  <2>. QED BY <2>1, <2>2, <2>3, <2>4, <2>5, <2>6, <2>7 DEF TypeOK
<1>2. ErrorIsLast'
  BY SeamAssumption DEF IInv, TypeOK, CauseStands, ErrorIsLast, AgentRests, Faults,
       HostCauses, Reasons, Breaches, Prompt, state, seam, history
<1>3. AgentRests'
  BY SeamAssumption DEF IInv, TypeOK, AgentRests, Faults, HostCauses, Reasons,
       Breaches, Prompt, state, seam, history
<1>4. Decided'
  BY SeamAssumption DEF IInv, TypeOK, CauseStands, AgentRests, Decided, Faults,
       HostCauses, Reasons, Breaches, Prompt, state, seam, history
<1>5. /\ CostCounted' /\ CauseStands' /\ SealIsValid'
      /\ VerdictIsRight' /\ CommitsAreClean'
  BY DEF IInv, CostCounted, CauseStands, SealIsValid, VerdictIsRight, CommitsAreClean,
       Faults, HostCauses, Breaches, Prompt, state, seam, history
<1>. QED BY <1>1, <1>2, <1>3, <1>4, <1>5 DEF IInv

LEMMA FinishUserAbortStep ==
    ASSUME IInv, FinishUserAbort
    PROVE  IInv'
<1>1. TypeOK'
  BY SeamAssumption DEF IInv, TypeOK, Faults, HostCauses, Reasons, Breaches, Over,
       Settled, FinishUserAbort, state, seam, agent, history
<1>2. ErrorIsLast'
  BY SeamAssumption DEF IInv, TypeOK, CauseStands, ErrorIsLast, AgentRests, Faults,
       HostCauses, Reasons, Breaches, Over, Settled, FinishUserAbort, state, seam,
       agent, history
<1>3. AgentRests'
  BY SeamAssumption DEF IInv, TypeOK, AgentRests, Faults, HostCauses, Reasons,
       Breaches, Over, Settled, FinishUserAbort, state, seam, agent, history
<1>4. Decided'
  BY SeamAssumption DEF IInv, TypeOK, CauseStands, AgentRests, Decided, Faults,
       HostCauses, Reasons, Breaches, Over, Settled, FinishUserAbort, state, seam,
       agent, history
<1>5. VerdictIsRight'
  BY SeamAssumption DEF IInv, TypeOK, CauseStands, ErrorIsLast, AgentRests, Decided,
       VerdictIsRight, Faults, HostCauses, Reasons, Breaches, Over, Settled,
       FinishUserAbort, state, seam, agent, history
<1>6. CommitsAreClean'
  BY SeamAssumption DEF IInv, TypeOK, CauseStands, AgentRests, SealIsValid, Decided,
       CommitsAreClean, Faults, HostCauses, Reasons, Breaches, Over, Settled,
       FinishUserAbort, state, seam, agent, history
<1>7. CostCounted' /\ CauseStands' /\ SealIsValid'
  BY DEF IInv, CostCounted, CauseStands, SealIsValid, Faults, HostCauses, Over,
       Settled, FinishUserAbort, state, seam, agent, history
<1>. QED BY <1>1, <1>2, <1>3, <1>4, <1>5, <1>6, <1>7 DEF IInv

LEMMA RethrowStep ==
    ASSUME IInv, Rethrow
    PROVE  IInv'
<1>1. TypeOK'
  BY SeamAssumption DEF IInv, TypeOK, Faults, HostCauses, Reasons, Breaches, Over,
       Settled, Refusals, Rethrow, state, seam, agent, history
<1>2. ErrorIsLast'
  BY SeamAssumption DEF IInv, TypeOK, CauseStands, ErrorIsLast, AgentRests, Faults,
       HostCauses, Reasons, Breaches, Over, Settled, Refusals, Rethrow, state, seam,
       agent, history
<1>3. AgentRests'
  BY SeamAssumption DEF IInv, TypeOK, AgentRests, Faults, HostCauses, Reasons,
       Breaches, Over, Settled, Refusals, Rethrow, state, seam, agent, history
<1>4. Decided'
  BY SeamAssumption DEF IInv, TypeOK, CauseStands, AgentRests, Decided, Faults,
       HostCauses, Reasons, Breaches, Over, Settled, Refusals, Rethrow, state, seam,
       agent, history
<1>5. VerdictIsRight'
  BY SeamAssumption DEF IInv, TypeOK, CauseStands, ErrorIsLast, AgentRests, Decided,
       VerdictIsRight, Faults, HostCauses, Reasons, Breaches, Over, Settled, Refusals,
       Rethrow, state, seam, agent, history
<1>6. CommitsAreClean'
  BY SeamAssumption DEF IInv, TypeOK, CauseStands, AgentRests, SealIsValid, Decided,
       CommitsAreClean, Faults, HostCauses, Reasons, Breaches, Over, Settled, Refusals,
       Rethrow, state, seam, agent, history
<1>7. CostCounted' /\ CauseStands' /\ SealIsValid'
  BY DEF IInv, CostCounted, CauseStands, SealIsValid, Faults, HostCauses, Over,
       Settled, Refusals, Rethrow, state, seam, agent, history
<1>. QED BY <1>1, <1>2, <1>3, <1>4, <1>5, <1>6, <1>7 DEF IInv

LEMMA RecoverStep ==
    ASSUME IInv, Recover
    PROVE  IInv'
<1>1. TypeOK'
  BY SeamAssumption DEF IInv, TypeOK, Faults, HostCauses, Reasons, Breaches, Settled,
       Recoverable, Recover, state, seam, history
<1>2. ErrorIsLast'
  BY SeamAssumption DEF IInv, TypeOK, CauseStands, ErrorIsLast, AgentRests, Faults,
       HostCauses, Reasons, Breaches, Settled, Recoverable, Recover, state, seam,
       history
<1>3. AgentRests'
  BY SeamAssumption DEF IInv, TypeOK, AgentRests, Faults, HostCauses, Reasons,
       Breaches, Settled, Recoverable, Recover, state, seam, history
<1>4. Decided'
  BY SeamAssumption DEF IInv, TypeOK, CauseStands, AgentRests, Decided, Faults,
       HostCauses, Reasons, Breaches, Settled, Recoverable, Recover, state, seam,
       history
<1>5. /\ CostCounted' /\ CauseStands' /\ SealIsValid'
      /\ VerdictIsRight' /\ CommitsAreClean'
  BY DEF IInv, CostCounted, CauseStands, SealIsValid, VerdictIsRight, CommitsAreClean,
       Faults, HostCauses, Breaches, Settled, Recoverable, Recover, state, seam, history
<1>. QED BY <1>1, <1>2, <1>3, <1>4, <1>5 DEF IInv

LEMMA FailsInBreachStep ==
    ASSUME IInv, FailsInBreach
    PROVE  IInv'
<1>1. TypeOK'
  BY SeamAssumption DEF IInv, TypeOK, Faults, HostCauses, Reasons, Breaches, Over,
       Settled, Refusals, Ok, Breach, Recoverable, FailsInBreach, state, seam, agent,
       history
<1>2. ErrorIsLast'
  BY SeamAssumption DEF IInv, TypeOK, CauseStands, ErrorIsLast, AgentRests, Faults,
       HostCauses, Reasons, Breaches, Over, Settled, Refusals, Ok, Breach, Recoverable,
       FailsInBreach, state, seam, agent, history
<1>3. AgentRests'
  BY SeamAssumption DEF IInv, TypeOK, AgentRests, Faults, HostCauses, Reasons,
       Breaches, Over, Settled, Refusals, Ok, Breach, Recoverable, FailsInBreach,
       state, seam, agent, history
<1>4. Decided'
  BY SeamAssumption DEF IInv, TypeOK, CauseStands, AgentRests, Decided, Faults,
       HostCauses, Reasons, Breaches, Over, Settled, Refusals, Ok, Breach, Recoverable,
       FailsInBreach, state, seam, agent, history
<1>5. VerdictIsRight'
  BY SeamAssumption DEF IInv, TypeOK, CauseStands, ErrorIsLast, AgentRests, Decided,
       VerdictIsRight, Faults, HostCauses, Reasons, Breaches, Over, Settled, Refusals,
       Ok, Breach, Recoverable, FailsInBreach, state, seam, agent, history
<1>6. CommitsAreClean'
  BY SeamAssumption DEF IInv, TypeOK, CauseStands, AgentRests, SealIsValid, Decided,
       CommitsAreClean, Faults, HostCauses, Reasons, Breaches, Over, Settled, Refusals,
       Ok, Breach, Recoverable, FailsInBreach, state, seam, agent, history
<1>7. CostCounted' /\ CauseStands' /\ SealIsValid'
  BY DEF IInv, CostCounted, CauseStands, SealIsValid, Faults, HostCauses, Over,
       Settled, Refusals, Ok, Breach, Recoverable, FailsInBreach, state, seam, agent,
       history
<1>. QED BY <1>1, <1>2, <1>3, <1>4, <1>5, <1>6, <1>7 DEF IInv

LEMMA FailsInHostStep ==
    ASSUME IInv, FailsInHost
    PROVE  IInv'
<1>1. TypeOK'
  BY SeamAssumption DEF IInv, TypeOK, Faults, HostCauses, Reasons, Breaches, Over,
       Settled, Ok, Standing, FailsInHost, state, seam, agent, history
<1>2. ErrorIsLast'
  BY SeamAssumption DEF IInv, TypeOK, CauseStands, ErrorIsLast, AgentRests, Faults,
       HostCauses, Reasons, Breaches, Over, Settled, Ok, Standing, FailsInHost, state,
       seam, agent, history
<1>3. AgentRests'
  BY SeamAssumption DEF IInv, TypeOK, AgentRests, Faults, HostCauses, Reasons,
       Breaches, Over, Settled, Ok, Standing, FailsInHost, state, seam, agent, history
<1>4. Decided'
  BY SeamAssumption DEF IInv, TypeOK, CauseStands, AgentRests, Decided, Faults,
       HostCauses, Reasons, Breaches, Over, Settled, Ok, Standing, FailsInHost, state,
       seam, agent, history
<1>5. VerdictIsRight'
  BY SeamAssumption DEF IInv, TypeOK, CauseStands, ErrorIsLast, AgentRests, Decided,
       VerdictIsRight, Faults, HostCauses, Reasons, Breaches, Over, Settled, Ok,
       Standing, FailsInHost, state, seam, agent, history
<1>6. CommitsAreClean'
  BY SeamAssumption DEF IInv, TypeOK, CauseStands, AgentRests, SealIsValid, Decided,
       CommitsAreClean, Faults, HostCauses, Reasons, Breaches, Over, Settled, Ok,
       Standing, FailsInHost, state, seam, agent, history
<1>7. CostCounted' /\ CauseStands' /\ SealIsValid'
  BY DEF IInv, CostCounted, CauseStands, SealIsValid, Faults, HostCauses, Over,
       Settled, Ok, Standing, FailsInHost, state, seam, agent, history
<1>. QED BY <1>1, <1>2, <1>3, <1>4, <1>5, <1>6, <1>7 DEF IInv

LEMMA DecideStep ==
    ASSUME IInv, Decide
    PROVE  IInv'
<1>1. TypeOK'
  BY SeamAssumption DEF IInv, TypeOK, Faults, HostCauses, Reasons, Breaches, Settled,
       Refusals, Ok, Standing, Decide, state, seam, agent, history
<1>2. ErrorIsLast'
  BY SeamAssumption DEF IInv, TypeOK, CauseStands, ErrorIsLast, AgentRests, Faults,
       HostCauses, Reasons, Breaches, Settled, Refusals, Ok, Standing, Decide, state,
       seam, agent, history
<1>3. AgentRests'
  BY SeamAssumption DEF IInv, TypeOK, AgentRests, Faults, HostCauses, Reasons,
       Breaches, Settled, Refusals, Ok, Standing, Decide, state, seam, agent, history
<1>4. Decided'
  BY SeamAssumption DEF IInv, TypeOK, CauseStands, AgentRests, Decided, Faults,
       HostCauses, Reasons, Breaches, Settled, Refusals, Ok, Standing, Decide, state,
       seam, agent, history
<1>5. /\ CostCounted' /\ CauseStands' /\ SealIsValid'
      /\ VerdictIsRight' /\ CommitsAreClean'
  BY DEF IInv, CostCounted, CauseStands, SealIsValid, VerdictIsRight, CommitsAreClean,
       Faults, HostCauses, Breaches, Settled, Refusals, Ok, Standing, Decide, state,
       seam, agent, history
<1>. QED BY <1>1, <1>2, <1>3, <1>4, <1>5 DEF IInv

LEMMA AcceptStep ==
    ASSUME IInv, Accept
    PROVE  IInv'
<1>1. TypeOK'
  BY SeamAssumption DEF IInv, TypeOK, Faults, HostCauses, Reasons, Breaches, Over,
       Accept, state, seam, agent, history
<1>2. ErrorIsLast'
  BY SeamAssumption DEF IInv, TypeOK, CauseStands, ErrorIsLast, AgentRests, Faults,
       HostCauses, Reasons, Breaches, Over, Accept, state, seam, agent, history
<1>3. AgentRests'
  BY SeamAssumption DEF IInv, TypeOK, AgentRests, Faults, HostCauses, Reasons,
       Breaches, Over, Accept, state, seam, agent, history
<1>4. Decided'
  BY SeamAssumption DEF IInv, TypeOK, CauseStands, AgentRests, Decided, Faults,
       HostCauses, Reasons, Breaches, Over, Accept, state, seam, agent, history
<1>5. VerdictIsRight'
  BY SeamAssumption DEF IInv, TypeOK, CauseStands, ErrorIsLast, AgentRests, Decided,
       VerdictIsRight, Faults, HostCauses, Reasons, Breaches, Over, Accept, state,
       seam, agent, history
<1>6. CommitsAreClean'
  BY SeamAssumption DEF IInv, TypeOK, CauseStands, AgentRests, SealIsValid, Decided,
       CommitsAreClean, Faults, HostCauses, Reasons, Breaches, Over, Accept, state,
       seam, agent, history
<1>7. CostCounted' /\ CauseStands' /\ SealIsValid'
  BY DEF IInv, CostCounted, CauseStands, SealIsValid, Faults, HostCauses, Over, Accept,
       state, seam, agent, history
<1>. QED BY <1>1, <1>2, <1>3, <1>4, <1>5, <1>6, <1>7 DEF IInv

LEMMA ReopenStep ==
    ASSUME IInv, Reopen
    PROVE  IInv'
<1>1. TypeOK'
  <2>1. reason' \in Reasons /\ aborted' \in BOOLEAN
    BY SeamAssumption DEF IInv, TypeOK, Faults, HostCauses, Reasons, Reopen, state,
         history
  <2>2. usage' \in Nat /\ seen' \subseteq 1..MaxMessages
    BY SeamAssumption DEF IInv, TypeOK, CostCounted, Reopen, state, history
  <2>3. captures' \in Seq({"valid", "invalid", "correctable"}) /\ sealed' \in BOOLEAN
    <3>1. captures' = <<>> /\ sealed' = FALSE BY DEF Reopen
    <3>. QED BY <3>1, EmptyIsSeq
  <2>4. /\ sdk' \in {"idle", "thinking", "tools", "ending", "retry", "done"}
        /\ last' \in [id : 0..MaxMessages,
                      kind : {"none", "tools", "text", "error", "aborted"},
                      priced : BOOLEAN]
    BY SeamAssumption DEF IInv, TypeOK, Reopen, state, history
  <2>5. /\ calls' \in 0..MaxCalls /\ busy' \in BOOLEAN
        /\ signal' \in BOOLEAN /\ threw' \in BOOLEAN
    BY SeamAssumption DEF IInv, TypeOK, Reopen, state, history
  <2>6. /\ pc' \in {"top", "prompting", "commit", "over"}
        /\ recoveries' \in 0..MaxRecovery /\ reopens' \in 0..MaxReopens
        /\ charged' \in Nat
        /\ outcome' \in {"none", "user_aborted", "thrown", "failed", "accepted"}
        /\ verdict' \in HostCauses \cup Breaches \cup {"none", "model_error"}
    BY SeamAssumption DEF IInv, TypeOK, Faults, HostCauses, Reopen, state, history
  <2>7. /\ count' \in 0..MaxMessages /\ spent' \in 0..MaxMessages
        /\ faults' \subseteq Faults /\ asked' \in BOOLEAN /\ late' \in BOOLEAN
    BY SeamAssumption DEF IInv, TypeOK, CostCounted, Faults, Reopen, state, history
  <2>. QED BY <2>1, <2>2, <2>3, <2>4, <2>5, <2>6, <2>7 DEF TypeOK
<1>2. ErrorIsLast'
  BY SeamAssumption DEF IInv, TypeOK, CauseStands, ErrorIsLast, AgentRests, Faults,
       HostCauses, Reasons, Breaches, Reopen, state, history
<1>3. AgentRests'
  BY SeamAssumption DEF IInv, TypeOK, AgentRests, Faults, HostCauses, Reasons,
       Breaches, Reopen, state, history
<1>4. SealIsValid'
  BY SeamAssumption DEF IInv, TypeOK, SealIsValid, Faults, HostCauses, Reasons,
       Breaches, Reopen, state, history
<1>5. Decided'
  BY SeamAssumption DEF IInv, TypeOK, CauseStands, AgentRests, Decided, Faults,
       HostCauses, Reasons, Breaches, Reopen, state, history
<1>6. CommitsAreClean'
  BY SeamAssumption DEF IInv, TypeOK, CauseStands, AgentRests, SealIsValid, Decided,
       CommitsAreClean, Faults, HostCauses, Reasons, Breaches, Reopen, state, history
<1>7. CostCounted' /\ CauseStands' /\ VerdictIsRight'
  BY DEF IInv, CostCounted, CauseStands, VerdictIsRight, Faults, HostCauses, Breaches,
       Reopen, state, history
<1>. QED BY <1>1, <1>2, <1>3, <1>4, <1>5, <1>6, <1>7 DEF IInv
-----------------------------------------------------------------------------
(* The theorems.                                                           *)

LEMMA InitInv == Init => IInv
<1>. SUFFICES ASSUME Init PROVE IInv OBVIOUS
<1>1. TypeOK
  <2>1. captures \in Seq({"valid", "invalid", "correctable"})
    BY EmptyIsSeq DEF Init
  <2>2. /\ last \in [id : 0..MaxMessages,
                     kind : {"none", "tools", "text", "error", "aborted"},
                     priced : BOOLEAN]
        /\ count \in 0..MaxMessages /\ spent \in 0..MaxMessages
        /\ calls \in 0..MaxCalls /\ recoveries \in 0..MaxRecovery
        /\ reopens \in 0..MaxReopens
    BY SeamAssumption DEF Init, NoMessage
  <2>. QED BY <2>1, <2>2 DEF Init, TypeOK, Reasons
<1>2. CostCounted /\ CauseStands /\ ErrorIsLast /\ AgentRests
  BY SeamAssumption
     DEF Init, CostCounted, CauseStands, ErrorIsLast, AgentRests, NoMessage, HostCauses,
         Faults
<1>3. SealIsValid /\ Decided /\ VerdictIsRight /\ CommitsAreClean
  BY DEF Init, SealIsValid, Decided, VerdictIsRight, CommitsAreClean
<1>. QED BY <1>1, <1>2, <1>3 DEF IInv

LEMMA StutterStep ==
    ASSUME IInv, UNCHANGED vars
    PROVE  IInv'
<1>1. TypeOK' /\ CostCounted' /\ CauseStands' /\ ErrorIsLast'
  BY DEF IInv, TypeOK, CostCounted, CauseStands, ErrorIsLast, vars, state, seam, agent,
         loop, history
<1>2. AgentRests' /\ SealIsValid' /\ Decided' /\ VerdictIsRight' /\ CommitsAreClean'
  BY DEF IInv, AgentRests, SealIsValid, Decided, VerdictIsRight, CommitsAreClean, vars,
         state, seam, agent, loop, history
<1>. QED BY <1>1, <1>2 DEF IInv

\* The inductive invariant holds in every reachable state: the cost of each
\* message is counted once, what the host knows of is its reason, and what
\* the loop decided still stands.
THEOREM Invariant == Spec => []IInv
<1>1. IInv /\ [Next]_vars => IInv'
  <2>. SUFFICES ASSUME IInv, [Next]_vars PROVE IInv' OBVIOUS
  <2>1. CASE \E kind \in {"tools", "text", "error", "aborted"}, priced \in BOOLEAN :
               MessageEnds(kind, priced)
    BY <2>1, MessageEndsStep
  <2>2. CASE MessageEndsAgain \/ Compacts \/ ToolCalled \/ ToolReturns
    BY <2>2, MessageEndsAgainStep, CompactsStep, ToolCalledStep, ToolReturnsStep
  <2>3. CASE \E args \in {"valid", "invalid", "correctable", "unreadable"} : Emits(args)
    BY <2>3, EmitsStep
  <2>4. CASE \E code \in Faults : ExecutionFails(code)
    BY <2>4, ExecutionFailsStep
  <2>5. CASE ToolsEnd \/ \E willRetry \in BOOLEAN : AgentEnds(willRetry)
    BY <2>5, ToolsEndStep, AgentEndsStep
  <2>6. CASE Retries \/ PromptThrows \/ RequestAbort
    BY <2>6, RetriesStep, PromptThrowsStep, RequestAbortStep
  <2>7. CASE Prompt \/ FinishUserAbort \/ Rethrow \/ Recover
    BY <2>7, PromptStep, FinishUserAbortStep, RethrowStep, RecoverStep
  <2>8. CASE FailsInBreach \/ FailsInHost \/ Decide \/ Accept \/ Reopen
    BY <2>8, FailsInBreachStep, FailsInHostStep, DecideStep, AcceptStep, ReopenStep
  <2>9. CASE Rest \/ UNCHANGED vars
    BY <2>9, StutterStep DEF Rest
  <2>. QED BY <2>1, <2>2, <2>3, <2>4, <2>5, <2>6, <2>7, <2>8, <2>9 DEF Next
<1>. QED BY <1>1, InitInv, PTL DEF Spec

\* However often a message is delivered, the session's record carries what
\* its messages and compactions cost, and none is prompted on past its cap
\* without a cause (session-event-handler.ts, addMessageUsage).
THEOREM CostIsCounted == Spec => []CostIsCharged
<1>1. IInv => CostIsCharged
  BY DEF IInv, CostCounted, CauseStands, Decided, CostIsCharged
<1>. QED BY <1>1, Invariant, PTL

\* A session that failed is recorded under the cause it ended for, so that
\* the next model is only tried after a provider's own error
\* (setTerminalReason, clearRetryableModelError and runSessionTurn).
THEOREM VerdictStands == Spec => []VerdictIsRight
<1>1. IInv => VerdictIsRight
  BY DEF IInv
<1>. QED BY <1>1, Invariant, PTL

\* An accepted emission is the only one of a session that the host did not
\* end, and no tool ran after either (wrapToolWithSeal and the emission
\* tools).
THEOREM CleanCommits == Spec => []CommitsAreClean
<1>1. IInv => CommitsAreClean
  BY DEF IInv
<1>. QED BY <1>1, Invariant, PTL
=============================================================================
