------------------------------ MODULE MCOutput ------------------------------
(***************************************************************************)
(* The two threads that carry output to the screen, for TLC: the output    *)
(* thread of a connection and the render thread.  The console or terminal  *)
(* lock and the text buffer are all that lies between them, and            *)
(* RenderThread has its own output thread for both, so the two modules     *)
(* share no state: a behaviour is one of the connection or one of the      *)
(* render thread, and the other module stays as it was created.            *)
(***************************************************************************)
EXTENDS ConptyConnection, RenderThread

VARIABLE subject  \* what the behaviour is about

outputVars == <<subject, vars, renderVars>>

\* A step A of the connection, and one of the render thread.
Connection(A) == subject = "connection" /\ A /\ UNCHANGED <<subject, renderVars>>
Rendering(A) == subject = "rendering" /\ A /\ UNCHANGED <<subject, vars>>

OutputInit ==
    \/ subject = "connection" /\ Init /\ RenderInit
    \/ subject = "rendering" /\ Init /\ RenderInit /\ ~peer /\ size = ptySize

\* A debug build can come to a standstill in RundownAndExit, see README.md.
Standstill == subject = "rendering" /\ host = "join" /\ exiting /\ UNCHANGED outputVars

OutputNext == Connection(Next) \/ Rendering(RenderNext) \/ Standstill

\* The fairness of the two modules.
OutputFairness ==
    /\ WF_outputVars(Connection(CloseStep))
    /\ WF_outputVars(Connection(OutStep))
    /\ WF_outputVars(Connection(WriteStep("ui")))
    /\ WF_outputVars(Connection(ReadCompletes))
    /\ WF_outputVars(Connection(~peer /\ WriteCompletes))
    /\ WF_outputVars(Rendering(Render)) /\ SF_outputVars(Rendering(RtElapsed))
    /\ WF_outputVars(Rendering(VtEnter \/ VtNotify \/ VtWake \/ (vt = "reask" /\ VtLock)))
    /\ SF_outputVars(Rendering(VtUnlock))
    /\ WF_outputVars(Rendering(HostStep))

OutputSpec == OutputInit /\ [][OutputNext]_outputVars /\ OutputFairness

=============================================================================
