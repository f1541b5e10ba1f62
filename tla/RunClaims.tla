----------------------------- MODULE RunClaims ------------------------------
(***************************************************************************)
(* What a comment of the repository says of a run and the run does not do. *)
(***************************************************************************)
EXTENDS RunLoop

SessionStarts == Len(sessions') > Len(sessions)
LastSession == sessions[Len(sessions)]

\* loop-session-turn.ts:365-366, of a worker that hands back at the run cap:
\* "no further dispatch, no orchestrator session in between".  The deferral
\* is a variable of runLoop, so a resumed run starts an orchestrator.
NoSessionAfterDeferral ==
    [][SessionStarts =>
         ~(/\ sessions # <<>>
           /\ LastSession.role # Orchestrator /\ LastSession.ends > 0
           /\ spent >= RunCap)]_vars
=============================================================================
