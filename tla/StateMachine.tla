---------------------------- MODULE StateMachine ----------------------------
(***************************************************************************)
(* The VT parser (terminal/parser/stateMachine.cpp) and the engine it      *)
(* drives.  The parser is fed a text that arrives in pieces: the input     *)
(* engine gets whatever a pipe read returned, the output engine whatever a *)
(* client wrote.  One step of the model is one character of the loop of    *)
(* ProcessString, `last` says whether the piece ends with it.              *)
(*                                                                         *)
(* A character is a member of a small set that has one or two members for  *)
(* each class the predicates of the source tell apart.  Texts the parser   *)
(* keeps only to hand them on (the cached sequence, the current run, the   *)
(* OSC string) are represented by their lengths.                           *)
(***************************************************************************)
EXTENDS VtLimits, Integers, Sequences, FiniteSets, Functions

CONSTANTS
    Chars,                   \* the characters fed to the parser
    MAX_PARAMETER_COUNT,     \* 32 in the source
    MAX_SUBPARAMETER_COUNT,  \* 6 in the source
    MaxIntermediates,        \* what fits in VTIDBuilder, 6 in the source
    MaxHeld                  \* bound: characters since the parser left Ground

ASSUME BoundsArePositive ==
    /\ {MAX_PARAMETER_COUNT, MAX_SUBPARAMETER_COUNT, MAX_PARAMETER_VALUE,
        MaxIntermediates, MaxHeld} \subseteq Nat \ {0}
    /\ MAX_PARAMETER_COUNT >= 2  \* a VT52 cursor address has two
    /\ "CAN" \in Chars

VARIABLES
    m,         \* the parser, and in m.e the engine it calls
    inString,  \* ProcessString has more characters of the current piece
    held,      \* history: characters since the parser left Ground
    seq,       \* history: the sequence the parser is in, since its introducer
    text,      \* history: parameter characters of the sequence
    sent       \* history: what the last step passed through, and of what

parserVars == <<m, inString, held, seq, text, sent>>

-----------------------------------------------------------------------------
(* Character classes. *)

C0Codes == {"NUL", "BEL"}
Digits == {"0", "7"}
Intermediates == {"SP", "!"}
PrivateMarkers == {"?"}
C1To7Bit == [C1CSI |-> "[", C1ST |-> "ST", C1DCS |-> "P"]
C1Controls == DOMAIN C1To7Bit
ParamChars == Digits \cup {"semicolon"}
ParamBytes == ParamChars \cup {":"} \cup PrivateMarkers
IsActionable(c) == c \in C0Codes \cup C1Controls \cup {"CAN", "ESC", "DEL"}

States ==
    {"Ground", "Escape", "EscapeIntermediate", "CsiEntry", "CsiIntermediate",
     "CsiIgnore", "CsiParam", "CsiSubParam", "OscParam", "OscString",
     "OscTermination", "Ss3Entry", "Ss3Param", "Vt52Param", "DcsEntry",
     "DcsIgnore", "DcsIntermediate", "DcsParam", "DcsPassThrough",
     "SosPmApcString"}

None == -1  \* a parameter without a value

-----------------------------------------------------------------------------
(* The engines: what a call returns, and the engine afterwards.  The input *)
(* engine turns sequences into key events, or refuses them so that they    *)
(* reach a client that reads VT input as they are.                         *)

Handled(e) == [ok |-> TRUE, e |-> e]
Refused(e) == [ok |-> FALSE, e |-> e]
UnlessVtInput(e) == [ok |-> ~e.vtInput, e |-> e]

InputEscDispatch(e, c) ==
    IF e.expectingStringTerminator /\ c = "ST"
    THEN Refused([e EXCEPT !.expectingStringTerminator = FALSE])
    ELSE UnlessVtInput(e)

\* The final character "A" stands for the key and mouse sequences, which are
\* always turned into events.
InputCsiDispatch(e, id, c) ==
    IF e.vtInput /\ (id # <<>> \/ c \notin {"underscore", "I"}) THEN Refused(e)
    ELSE CASE id = <<>> /\ c = "R" ->
                IF e.lookingForDSR
                THEN Handled([e EXCEPT !.lookingForDSR = FALSE])
                ELSE [ok |-> ~e.win32, e |-> e]
           [] id = <<>> /\ c = "underscore" -> Handled([e EXCEPT !.win32 = TRUE])
           [] id = <<>> /\ c \in {"A", "I"} -> Handled(e)
           [] id = <<"?">> /\ c = "c" /\ ~e.deviceAttributes ->
                Handled([e EXCEPT !.deviceAttributes = TRUE,
                                  !.lookingForDSR = FALSE])
           [] OTHER -> Refused(e)

InputEngine(e, call, id, c) ==
    CASE call \in {"Execute", "Print", "PrintString"} -> Handled(e)
      [] call \in {"ExecuteFromEscape", "Ss3Dispatch"} -> UnlessVtInput(e)
      [] call = "EscDispatch" -> InputEscDispatch(e, c)
      [] call = "CsiDispatch" -> InputCsiDispatch(e, id, c)
      [] call = "DcsDispatch" ->
            Handled([e EXCEPT !.expectingStringTerminator = TRUE])
      [] OTHER -> Refused(e)

\* The output engine passes nothing on, whatever it returns.
Engine(e, call, id, c) ==
    IF e.input THEN InputEngine(e, call, id, c) ELSE Handled(e)

\* A DCS the output engine supports, and the data its handler takes.
HasDcsHandler(e, id, c) == ~e.input /\ id = <<>> /\ c = "A"
DcsHandlerTakes(c) == c # "?"

-----------------------------------------------------------------------------
(* Actions of the parser. *)

\* Hand what was kept of earlier pieces, and the current run, to the engine.
FlushToTerminal(n) == [n EXCEPT !.passed = n.cached + n.run, !.cached = 0]

\* An engine call: refused, the sequence is passed through; an exception ends
\* the call and is logged.
SafeExecute(n, call, c) ==
    LET r == Engine(n.e, call, n.id, c)
    IN  IF n.throws THEN n
        ELSE IF r.ok THEN [n EXCEPT !.e = r.e]
        ELSE FlushToTerminal([n EXCEPT !.e = r.e])

AddIntermediate(id, c) ==
    IF Len(id) >= MaxIntermediates THEN [i \in DOMAIN id |-> "zero"]
                                   ELSE Append(id, c)

AccumulateTo(c, value) ==
    LET digit == IF c = "7" THEN 7 ELSE 0
        grown == (IF value = None THEN 0 ELSE value) * 10 + digit
    IN  IF grown > MAX_PARAMETER_VALUE THEN MAX_PARAMETER_VALUE ELSE grown

AccumulateToLast(s, c) == [s EXCEPT ![Len(s)] = AccumulateTo(c, s[Len(s)])]

\* A new parameter without a value, and its empty range of sub-parameters.
PushParameter(n) ==
    [n EXCEPT !.params = Append(@, None),
              !.ranges = Append(@, <<Len(n.subs), Len(n.subs)>>)]

FirstParameter(n) == IF n.params = <<>> THEN PushParameter(n) ELSE n

\* Mutant: the sub-parameters of all parameters are counted together.
ActionParamDelimiterKeepsCount(n) ==
    IF Len(n.params) >= MAX_PARAMETER_COUNT
    THEN [n EXCEPT !.parameterLimitOverflowed = TRUE]
    ELSE [PushParameter(n) EXCEPT !.subParameterLimitOverflowed = FALSE]

ActionParamDelimiter(n) ==
    IF Len(n.params) >= MAX_PARAMETER_COUNT
    THEN [n EXCEPT !.parameterLimitOverflowed = TRUE]
    ELSE [PushParameter(n) EXCEPT !.subParameterCounter = 0,
                                  !.subParameterLimitOverflowed = FALSE]

ActionParam(n, c) ==
    IF n.parameterLimitOverflowed THEN n
    ELSE IF c = "semicolon" THEN ActionParamDelimiter(FirstParameter(n))
    ELSE [FirstParameter(n) EXCEPT !.params = AccumulateToLast(@, c)]

\* The range of the last parameter has one more sub-parameter.
WithOneMore(ranges) ==
    LET k == Len(ranges)
    IN  [ranges EXCEPT ![k] = <<ranges[k][1], ranges[k][2] + 1>>]

ActionSubParamDelimiter(n) ==
    IF n.subParameterCounter >= MAX_SUBPARAMETER_COUNT
    THEN [n EXCEPT !.subParameterLimitOverflowed = TRUE]
    ELSE [n EXCEPT !.subs = Append(@, None),
                   !.ranges = WithOneMore(@),
                   !.subParameterCounter = @ + 1]

ActionSubParam(n, c) ==
    IF n.subParameterLimitOverflowed THEN n
    ELSE IF c = ":" THEN ActionSubParamDelimiter(FirstParameter(n))
    ELSE [FirstParameter(n) EXCEPT !.subs = AccumulateToLast(@, c)]

ActionClear(n) ==
    [n EXCEPT !.id = <<>>, !.params = <<>>, !.subs = <<>>, !.ranges = <<>>,
              !.parameterLimitOverflowed = FALSE, !.subParameterCounter = 0,
              !.subParameterLimitOverflowed = FALSE,
              !.oscParameter = 0, !.oscString = 0, !.dcsStringHandler = FALSE]

\* The handler of a DCS string learns that its data has ended.
ActionInterrupt(n) ==
    [n EXCEPT !.dcsStringHandler = @ /\ n.state # "DcsPassThrough"]

\* The _Enter functions.
Enter(n, s) ==
    LET entered == [n EXCEPT !.state = s]
    IN  CASE s \in {"Escape", "CsiEntry", "Ss3Entry", "DcsEntry"} ->
                ActionClear(entered)
          [] s \in {"Ground", "DcsIgnore", "DcsPassThrough", "SosPmApcString"} ->
                [entered EXCEPT !.cached = 0]
          [] OTHER -> entered

\* Mutant: the data of a DCS is passed on whether or not there is a handler.
ActionDcsDispatchUnchecked(n, c) ==
    LET called == SafeExecute(n, "DcsDispatch", c)
        supported == ~n.throws /\ HasDcsHandler(n.e, n.id, c)
    IN  Enter([called EXCEPT !.dcsStringHandler = supported], "DcsPassThrough")

ActionDcsDispatch(n, c) ==
    LET called == SafeExecute(n, "DcsDispatch", c)
        supported == ~n.throws /\ HasDcsHandler(n.e, n.id, c)
    IN  Enter([called EXCEPT !.dcsStringHandler = supported],
              IF supported THEN "DcsPassThrough" ELSE "DcsIgnore")

-----------------------------------------------------------------------------
(* The _Event functions: what a state does with a character, as the list  *)
(* of the actions the source calls in that order.  A state name in a list *)
(* is the call of its _Enter function.                                     *)

EventGround(c) == IF c \in C0Codes \cup {"DEL"} THEN <<"Execute">> ELSE <<"Print">>

EventEscape(n, c) ==
    CASE c \in C0Codes ->
            IF n.e.input THEN <<"ExecuteFromEscape", "Ground">> ELSE <<"Execute">>
      [] c = "DEL" -> <<>>
      [] c \in Intermediates ->
            IF n.e.input THEN <<"EscDispatch", "Ground">>
                         ELSE <<"Collect", "EscapeIntermediate">>
      [] n.ansi /\ c = "[" -> <<"CsiEntry">>
      [] n.ansi /\ c = "]" -> <<"OscParam">>
      [] n.ansi /\ c = "O" /\ n.e.input -> <<"Ss3Entry">>
      [] n.ansi /\ c = "P" -> <<"DcsEntry">>
      [] n.ansi /\ c \in {"X", "underscore"} -> <<"SosPmApcString">>
      [] ~n.ansi /\ c = "Y" -> <<"Vt52Param">>
      [] OTHER -> <<IF n.ansi THEN "EscDispatch" ELSE "Vt52EscDispatch", "Ground">>

EventEscapeIntermediate(n, c) ==
    CASE c \in C0Codes -> <<"Execute">>
      [] c \in Intermediates -> <<"Collect">>
      [] c = "DEL" -> <<>>
      [] ~n.ansi /\ c = "Y" -> <<"Vt52Param">>
      [] OTHER -> <<IF n.ansi THEN "EscDispatch" ELSE "Vt52EscDispatch", "Ground">>

EventCsiEntry(c) ==
    CASE c \in C0Codes -> <<"Execute">>
      [] c = "DEL" -> <<>>
      [] c \in Intermediates -> <<"Collect", "CsiIntermediate">>
      [] c \in ParamChars -> <<"Param", "CsiParam">>
      [] c = ":" -> <<"SubParam", "CsiSubParam">>
      [] c \in PrivateMarkers -> <<"Collect", "CsiParam">>
      [] OTHER -> <<"CsiDispatch", "Ground">>

EventCsiIntermediate(c) ==
    CASE c \in C0Codes -> <<"Execute">>
      [] c \in Intermediates -> <<"Collect">>
      [] c = "DEL" -> <<>>
      [] c \in ParamBytes -> <<"CsiIgnore">>
      [] OTHER -> <<"CsiDispatch", "Ground">>

EventCsiIgnore(c) ==
    CASE c \in C0Codes -> <<"Execute">>
      [] c \in {"DEL"} \cup Intermediates \cup ParamBytes -> <<>>
      [] OTHER -> <<"Ground">>

EventCsiParam(c) ==
    CASE c \in C0Codes -> <<"Execute">>
      [] c = "DEL" -> <<>>
      [] c \in ParamChars -> <<"Param">>
      [] c = ":" -> <<"SubParam", "CsiSubParam">>
      [] c \in Intermediates -> <<"Collect", "CsiIntermediate">>
      [] c \in PrivateMarkers -> <<"CsiIgnore">>
      [] OTHER -> <<"CsiDispatch", "Ground">>

EventCsiSubParam(c) ==
    CASE c \in C0Codes -> <<"Execute">>
      [] c = "DEL" -> <<>>
      [] c \in Digits \cup {":"} -> <<"SubParam">>
      [] c = "semicolon" -> <<"Param", "CsiParam">>
      [] c \in Intermediates -> <<"Collect", "CsiIntermediate">>
      [] c \in PrivateMarkers -> <<"CsiIgnore">>
      [] OTHER -> <<"CsiDispatch", "Ground">>

EventOscParam(c) ==
    CASE c = "BEL" -> <<"OscDispatch", "Ground">>
      [] c = "ESC" -> <<"OscTermination">>
      [] c \in Digits -> <<"OscParam_">>
      [] c = "semicolon" -> <<"OscString">>
      [] OTHER -> <<>>

EventOscString(c) ==
    CASE c = "BEL" -> <<"OscDispatch", "Ground">>
      [] c = "ESC" -> <<"OscTermination">>
      [] c \in C0Codes \ {"BEL"} -> <<>>
      [] OTHER -> <<"OscPut">>

\* _EnterEscape clears nothing that _EventEscape looks at.
EventOscTermination(n, c) ==
    IF c = "ST" THEN <<"OscDispatch", "Ground">>
                 ELSE <<"Escape">> \o EventEscape(n, c)

EventSs3Entry(c) ==
    CASE c \in C0Codes -> <<"Execute">>
      [] c = "DEL" -> <<>>
      [] c = ":" -> <<"CsiIgnore">>
      [] c \in ParamChars -> <<"Param", "Ss3Param">>
      [] OTHER -> <<"Ss3Dispatch", "Ground">>

EventSs3Param(c) ==
    CASE c \in C0Codes -> <<"Execute">>
      [] c = "DEL" -> <<>>
      [] c \in ParamChars -> <<"Param">>
      [] c \in PrivateMarkers \cup {":"} -> <<"CsiIgnore">>
      [] OTHER -> <<"Ss3Dispatch", "Ground">>

EventVt52Param(n, c) ==
    IF c \in C0Codes THEN <<"Execute">>
    ELSE IF c = "DEL" THEN <<>>
    ELSE IF Len(n.params) = 1 THEN <<"Vt52Param_", "Vt52EscDispatch", "Ground">>
    ELSE <<"Vt52Param_">>

EventDcsEntry(c) ==
    CASE c \in C0Codes \cup {"DEL"} -> <<>>
      [] c = ":" -> <<"DcsIgnore">>
      [] c \in ParamChars -> <<"Param", "DcsParam">>
      [] c \in Intermediates -> <<"Collect", "DcsIntermediate">>
      [] OTHER -> <<"DcsDispatch">>

EventDcsIntermediate(c) ==
    CASE c \in C0Codes \cup {"DEL"} -> <<>>
      [] c \in Intermediates -> <<"Collect">>
      [] c \in ParamBytes -> <<"DcsIgnore">>
      [] OTHER -> <<"DcsDispatch">>

\* C0 codes and DEL are "ignored" first and then fall into the second chain,
\* whose last branch dispatches them: there is no `else` between the two.
EventDcsParam(c) ==
    CASE c \in ParamChars -> <<"Param">>
      [] c \in Intermediates -> <<"Collect", "DcsIntermediate">>
      [] c \in PrivateMarkers \cup {":"} -> <<"DcsIgnore">>
      [] OTHER -> <<"DcsDispatch">>

EventDcsPassThrough(c) ==
    IF c # "DEL" /\ ~DcsHandlerTakes(c) THEN <<"DcsIgnore">> ELSE <<>>

Event(n, c) ==
    CASE n.state = "Ground" -> EventGround(c)
      [] n.state = "Escape" -> EventEscape(n, c)
      [] n.state = "EscapeIntermediate" -> EventEscapeIntermediate(n, c)
      [] n.state = "CsiEntry" -> EventCsiEntry(c)
      [] n.state = "CsiIntermediate" -> EventCsiIntermediate(c)
      [] n.state = "CsiIgnore" -> EventCsiIgnore(c)
      [] n.state = "CsiParam" -> EventCsiParam(c)
      [] n.state = "CsiSubParam" -> EventCsiSubParam(c)
      [] n.state = "OscParam" -> EventOscParam(c)
      [] n.state = "OscString" -> EventOscString(c)
      [] n.state = "OscTermination" -> EventOscTermination(n, c)
      [] n.state = "Ss3Entry" -> EventSs3Entry(c)
      [] n.state = "Ss3Param" -> EventSs3Param(c)
      [] n.state = "Vt52Param" -> EventVt52Param(n, c)
      [] n.state = "DcsEntry" -> EventDcsEntry(c)
      [] n.state = "DcsIntermediate" -> EventDcsIntermediate(c)
      [] n.state = "DcsParam" -> EventDcsParam(c)
      [] n.state = "DcsPassThrough" -> EventDcsPassThrough(c)
      [] OTHER -> <<>>  \* DcsIgnore and SosPmApcString ignore everything

Perform(n, action, c) ==
    CASE action \in States -> Enter(n, action)
      [] action = "Collect" -> [n EXCEPT !.id = AddIntermediate(@, c)]
      [] action = "Param" -> ActionParam(n, c)
      [] action = "SubParam" -> ActionSubParam(n, c)
      [] action = "Vt52Param_" -> [n EXCEPT !.params = Append(@, 0)]
      [] action = "OscParam_" -> [n EXCEPT !.oscParameter = AccumulateTo(c, @)]
      [] action = "OscPut" -> [n EXCEPT !.oscString = @ + 1]
      [] action = "DcsDispatch" -> ActionDcsDispatch(n, c)
      [] OTHER -> SafeExecute(n, action, c)

PerformAll(n, actions, c) ==
    LET after[k \in 0 .. Len(actions)] ==
            IF k = 0 THEN n ELSE Perform(after[k - 1], actions[k], c)
    IN  after[Len(actions)]

\* ProcessCharacter, for a character that is not a C1 control.
ProcessPlain(n, c) ==
    CASE c = "CAN" /\ ~(n.state = "Escape" /\ n.e.input) ->
            PerformAll(ActionInterrupt(n), <<"Execute", "Ground">>, c)
      [] c = "ESC" /\ n.state \notin {"OscString", "OscParam"} ->
            Enter(ActionInterrupt(n), "Escape")
      [] OTHER -> PerformAll(n, Event(n, c), c)

\* C1 controls stand for ESC and a second character, where they are accepted.
ProcessCharacter(n, c) ==
    IF c \notin C1Controls THEN ProcessPlain(n, c)
    ELSE IF n.acceptC1 THEN ProcessPlain(ProcessPlain(n, "ESC"), C1To7Bit[c])
    ELSE n

\* The end of ProcessString in the middle of a sequence: keep the run for
\* later, unless the input engine takes it for the Esc key or for Alt+key.
\* Mutant: only a lone Esc is recognised.
IsAltKeyEscOnly(n) == n.e.input /\ ~n.e.win32 /\ n.run < 2 /\ n.runIsEsc

IsAltKey(n) == n.e.input /\ ~n.e.win32 /\ n.run <= 2 /\ n.runIsEsc

\* Mutant: the run replaces what is cached instead of being appended to it.
EndOfStringOverwrites(n, c) ==
    IF n.state = "Ground" THEN n
    ELSE IF IsAltKey(n)
    THEN IF n.run = 1
         THEN PerformAll(n, <<"Ground", "Execute", "Ground">>, "ESC")
         ELSE PerformAll(n, <<"Ground", "Escape", "EscDispatch", "Ground">>, c)
    ELSE IF ~n.e.input /\ n.state \in {"SosPmApcString", "DcsPassThrough", "DcsIgnore"}
    THEN n
    ELSE [n EXCEPT !.cached = n.run]

EndOfString(n, c) ==
    IF n.state = "Ground" THEN n
    ELSE IF IsAltKey(n)
    THEN IF n.run = 1
         THEN PerformAll(n, <<"Ground", "Execute", "Ground">>, "ESC")
         ELSE PerformAll(n, <<"Ground", "Escape", "EscDispatch", "Ground">>, c)
    ELSE IF ~n.e.input /\ n.state \in {"SosPmApcString", "DcsPassThrough", "DcsIgnore"}
    THEN n
    ELSE [n EXCEPT !.cached = @ + n.run]

NextRun(n, c) ==
    [n EXCEPT !.run = @ + 1, !.runIsEsc = IF n.run = 0 THEN c = "ESC" ELSE @]

\* A new run starts with each string, and whenever the parser is in Ground.
NewRun(n, last) ==
    CASE n.state = "Ground" -> [n EXCEPT !.run = 0, !.runIsEsc = FALSE]
      [] n.state # "Ground" /\ last -> [n EXCEPT !.run = 0]
      [] OTHER -> n

\* One character of the loop of ProcessString.
ProcessNext(n, c, last) ==
    LET processed ==
            IF n.state = "Ground" /\ ~IsActionable(c)
            THEN SafeExecute(NextRun(n, c), "PrintString", c)
            ELSE ProcessCharacter(NextRun(n, c), c)
    IN  NewRun(IF last THEN EndOfString(processed, c) ELSE processed, last)

-----------------------------------------------------------------------------
(* History: where the sequence began that the parser is in. *)

\* A string is a DCS, or one of SOS, PM and APC; it has its introducer, its body
\* and ESC \ as its terminator.
BodyStates == {"DcsIgnore", "DcsPassThrough", "SosPmApcString"}
StringStates == BodyStates \cup {"DcsEntry", "DcsParam", "DcsIntermediate"}

\* The characters since the introducer, and whether a read ended before a string
\* had come to its body; the length of the string that the introducer may be
\* the terminator of, and whether its own introducer was cut by a read.
NoSequence == [length |-> 0, cut |-> FALSE, string |-> 0, stringCut |-> FALSE]

Introduces(c) ==
    /\ c = "ESC" \/ (c \in C1Controls /\ m.acceptC1)
    /\ m.state \notin {"OscString", "OscParam"}

Introduced ==
    IF m.state \in StringStates
    THEN [length |-> 1, cut |-> FALSE, string |-> seq.length,
          stringCut |-> seq.cut /\ m.state \in BodyStates]
    ELSE [NoSequence EXCEPT !.length = 1]

\* After the character c of the sequence.
Sequence(c) ==
    IF Introduces(c) THEN Introduced
    ELSE IF m.state = "OscTermination" /\ c # "ST" THEN [seq EXCEPT !.length = 2]
    ELSE [seq EXCEPT !.length = @ + 1]

\* The whole of what the character c completes: a string with its terminator, or
\* a sequence.
Terminates(c) == c = "ST" \/ c = "C1ST"
Whole(c) == Sequence(c).length + IF Terminates(c) THEN Sequence(c).string ELSE 0

\* What is still to be known of the sequence when the parser has become n.
Continued(n, c, last) ==
    LET s == Sequence(c)
        open == [s EXCEPT !.cut = @ \/ (last /\ n.state \notin BodyStates)]
    IN  CASE n.state = "Ground" -> NoSequence
          [] n.state = "Escape" -> open
          [] OTHER -> [open EXCEPT !.string = 0, !.stringCut = FALSE]

\* The states a parameter character leads to when it is taken for one.
ParamStates == {"CsiParam", "CsiSubParam", "Ss3Param", "DcsParam"}

\* The characters of the parameters so far, as they came.
ParamText(n, c) ==
    IF n.params = <<>> \/ n.state = "Ground" THEN <<>>
    ELSE IF c \in ParamChars \cup {":"} /\ n.state \in ParamStates THEN Append(text, c)
    ELSE text

NothingSent == [raw |-> 0, held |-> 0, whole |-> 0, cut |-> FALSE]

Remember(n, c, last) ==
    /\ held' = IF n.state = "Ground" THEN 0 ELSE held + 1
    /\ seq' = Continued(n, c, last)
    /\ text' = ParamText(n, c)
    /\ sent' = IF n.passed = 0 THEN NothingSent
               ELSE [raw |-> n.passed, held |-> held + 1, whole |-> Whole(c),
                     cut |-> Terminates(c) /\ Sequence(c).stringCut]

-----------------------------------------------------------------------------
NewEngine(input, lookingForDSR) ==
    [input |-> input, vtInput |-> FALSE, win32 |-> FALSE,
     lookingForDSR |-> lookingForDSR, deviceAttributes |-> FALSE,
     expectingStringTerminator |-> FALSE]

NewParser(engine) ==
    [state |-> "Ground", id |-> <<>>, params |-> <<>>, subs |-> <<>>,
     ranges |-> <<>>, parameterLimitOverflowed |-> FALSE,
     subParameterCounter |-> 0, subParameterLimitOverflowed |-> FALSE,
     oscParameter |-> 0, oscString |-> 0, dcsStringHandler |-> FALSE,
     cached |-> 0, run |-> 0, runIsEsc |-> FALSE, passed |-> 0,
     ansi |-> TRUE, acceptC1 |-> engine.input, throws |-> FALSE, e |-> engine]

ParserInit ==
    /\ \E input, lookingForDSR \in BOOLEAN :
          /\ lookingForDSR => input
          /\ m = NewParser(NewEngine(input, lookingForDSR))
    /\ inString = FALSE
    /\ held = 0 /\ seq = NoSequence
    /\ text = <<>>
    /\ sent = NothingSent

\* ProcessString takes the next character of the string.  A call of the engine
\* may throw; inside a sequence only the other characters lead to one.
ProcessString(c, last, throws) ==
    LET n == ProcessNext([m EXCEPT !.passed = 0, !.throws = throws], c, last)
    IN  /\ held < MaxHeld \/ c = "CAN"
        /\ throws => c \notin ParamBytes \cup Intermediates \cup {"ESC", "DEL"}
        /\ m' = [n EXCEPT !.throws = FALSE]
        /\ inString' = ~last
        /\ Remember(n, c, last)

\* A client turns VT input on or off; a report or mode of the output engine
\* changes the dialect.  Neither happens inside a string of the model: the
\* console lock is held, or the parser is about to return to Ground.
SetVtInput(on) ==
    /\ m.e.input /\ ~inString
    /\ m' = [m EXCEPT !.e.vtInput = on, !.passed = 0]
    /\ sent' = NothingSent
    /\ UNCHANGED <<inString, held, seq, text>>

SetParserMode(ansi, acceptC1) ==
    /\ ~m.e.input /\ m.state = "Ground"
    /\ m' = [m EXCEPT !.ansi = ansi, !.acceptC1 = acceptC1, !.passed = 0]
    /\ sent' = NothingSent
    /\ UNCHANGED <<inString, held, seq, text>>

\* VT processing is turned off on a screen buffer.
ResetState ==
    /\ ~m.e.input /\ ~inString
    /\ m' = [Enter(m, "Ground") EXCEPT !.passed = 0]
    /\ held' = 0 /\ seq' = NoSequence /\ text' = <<>>
    /\ sent' = NothingSent
    /\ UNCHANGED inString

ParserNext ==
    \/ \E c \in Chars, last, throws \in BOOLEAN : ProcessString(c, last, throws)
    \/ \E on \in BOOLEAN : SetVtInput(on)
    \/ \E ansi, acceptC1 \in BOOLEAN : SetParserMode(ansi, acceptC1)
    \/ ResetState

ParserSpec == ParserInit /\ [][ParserNext]_parserVars

-----------------------------------------------------------------------------
(* Properties. *)

ParameterValues == -1 .. MAX_PARAMETER_VALUE

\* The limits hold: parameters, sub-parameters and the identifier stay within
\* what the source reserves for them, whatever is fed to the parser.
ParserTypeOK ==
    /\ m.state \in States
    /\ Len(m.id) <= MaxIntermediates
    /\ Len(m.params) <= MAX_PARAMETER_COUNT
    /\ Range(m.params) \cup Range(m.subs) \subseteq ParameterValues
    /\ m.oscParameter \in 0 .. MAX_PARAMETER_VALUE
    /\ Len(m.subs) <= MAX_PARAMETER_COUNT * MAX_SUBPARAMETER_COUNT
    /\ {m.cached, m.oscString, held} \subseteq 0 .. MaxHeld
    /\ inString \in BOOLEAN

\* The parser calls _dcsStringHandler and _subParameters.back() without looking
\* first (_EventDcsPassThrough, _ActionInterrupt, _ActionSubParam): whichever
\* way it came into the state, there is a handler and there is a sub-parameter,
\* and a VT52 cursor address has room for its second parameter.  What the parser
\* collects stays within its limits.
ParserIsReady ==
    /\ ParserTypeOK
    /\ m.state = "DcsPassThrough" => m.dcsStringHandler
    /\ m.state = "CsiSubParam" => m.subs # <<>> \/ m.subParameterLimitOverflowed
    /\ m.state = "Vt52Param" => Len(m.params) < 2

\* The delimiters d of a text before a place in it.
Before(s, i, d) == {j \in 1 .. i - 1 : s[j] = d}

\* Where the k-th field ends: at the delimiter, or behind the text, that has
\* k - 1 delimiters before it.
Ends(s, d, k) ==
    {i \in 1 .. Len(s) + 1 : (i <= Len(s) => s[i] = d) /\ Cardinality(Before(s, i, d)) = k - 1}

End(s, d, k) == IF k = 0 THEN 0 ELSE CHOOSE i \in Ends(s, d, k) : TRUE

Fields(s, d) ==
    [k \in 1 .. Cardinality(Before(s, Len(s) + 1, d)) + 1 |->
        SubSeq(s, End(s, d, k - 1) + 1, End(s, d, k) - 1)]

\* The digits are accumulated from the first on.
ValueOf(digits) ==
    LET value[k \in 0 .. Len(digits)] ==
            IF k = 0 THEN None ELSE AccumulateTo(digits[k], value[k - 1])
    IN  value[Len(digits)]

AtMost(n, limit) == IF n < limit THEN n ELSE limit

\* What a field says: a value, and after it sub-parameters.
ParamOf(field) == ValueOf(Fields(field, ":")[1])

SubParamsOf(field) ==
    LET parts == Fields(field, ":")
    IN  [j \in 1 .. AtMost(Len(parts) - 1, MAX_SUBPARAMETER_COUNT) |-> ValueOf(parts[j + 1])]

\* The sub-parameters the parser has collected for a parameter.
SubParams(n, i) == SubSeq(n.subs, n.ranges[i][1] + 1, n.ranges[i][2])

\* What the parser has collected character by character (_ActionParam,
\* _ActionSubParam) is what the text says, read as a whole: fields between
\* semicolons up to the limit, in each a value and its sub-parameters between
\* colons up to the limit, a missing value told from a zero.  Sub-parameters are
\* compared while the parameter limit has not been exceeded, see README.md.
ParametersAreTheText ==
    m.state \in ParamStates /\ text # <<>> =>
        LET fields == Fields(text, "semicolon")
        IN  /\ m.params = [i \in 1 .. AtMost(Len(fields), MAX_PARAMETER_COUNT) |->
                              ParamOf(fields[i])]
            /\ ~m.parameterLimitOverflowed =>
                  \A i \in DOMAIN m.ranges : SubParams(m, i) = SubParamsOf(fields[i])

\* A sequence the engine refuses is passed through in one go (FlushToTerminal),
\* and however the pipe cut it up, its beginning is there and nothing from
\* before the parser left Ground: for a string with its terminator the beginning
\* is the introducer of the string, unless a read ended inside that introducer.
PassedThroughWhole ==
    sent.raw <= sent.held /\ (sent.raw = 0 \/ sent.raw >= sent.whole \/ sent.cut)

\* "ignored, but it'll still be buffered by the state machine, so we can flush
\* the whole thing once we receive the string terminator"
\* (InputStateMachineEngine.cpp:528-529), wherever the reads cut it.
FlushedWhole == sent.raw = 0 \/ sent.raw >= sent.whole

\* Unless the terminal speaks win32-input-mode, the parser waits for the rest of
\* a sequence between two reads only if it holds more than what Esc or Alt+key
\* send.
KeysAreNotHeld ==
    m.e.input /\ ~m.e.win32 /\ ~inString /\ m.state # "Ground" =>
        held > 2 \/ ~m.runIsEsc

=============================================================================
