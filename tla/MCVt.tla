-------------------------------- MODULE MCVt --------------------------------
(***************************************************************************)
(* The VT parser and the macros, for TLC.  MacroBuffer has the parts of    *)
(* the parser that macros touch, so the two modules share no state: a      *)
(* behaviour is one of the parser (either engine) or one of the macros (of *)
(* the output engine), and the other module stays as it was created.       *)
(***************************************************************************)
EXTENDS StateMachine, MacroBuffer

VARIABLE subject  \* what the behaviour is about

vtVars == <<subject, parserVars, vars>>

VtInit ==
    /\ subject \in {"parser", "macros"}
    /\ ParserInit /\ Init
    /\ subject = "macros" => ~m.e.input

\* A step of the parser, and a step A of the macros.
ParserStep == subject = "parser" /\ ParserNext /\ UNCHANGED <<subject, vars>>
Macros(A) == subject = "macros" /\ A /\ UNCHANGED <<subject, parserVars>>

VtNext == ParserStep \/ Macros(Next)

\* The fairness of MacroBuffer.
VtSpec ==
    /\ VtInit /\ [][VtNext]_vtVars
    /\ WF_vtVars(Macros(ProcessNested)) /\ WF_vtVars(Macros(ReturnFromMacro))

=============================================================================
