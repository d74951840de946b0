---------------------------- MODULE MacroBuffer -----------------------------
(***************************************************************************)
(* Macros of the VT output (terminal/adapter/MacroBuffer.cpp): a client    *)
(* defines them with DECDMAC and invokes them with DECINVM, which runs     *)
(* their text as a nested string of the state machine while the outer      *)
(* string is still being processed.  Composed with the parts of the state  *)
(* machine a nested string touches (the offsets and the injections of the  *)
(* current string) and with WriteCharsVT (host/_stream.cpp), which uses    *)
(* the injections once the outer string is done.                           *)
(*                                                                         *)
(* A text is a sequence of tokens: a printable character, or a whole       *)
(* control sequence, of length 1; the sequence that invokes a macro is     *)
(* represented by the macro's identifier.  A pair of hex digits of a       *)
(* definition stands for the pairs of one token.                           *)
(***************************************************************************)
EXTENDS VtLimits, Integers, Sequences, FiniteSets

CONSTANTS
    MacroIds,             \* 0 .. 63 in the source
    MAX_SPACE,            \* 0x40000 in the source
    MaxDepth,             \* 16 in the source
    Encoded,              \* the tokens hex pairs stand for
    MaxString             \* bound: tokens of a string a client writes

ASSUME MacroBounds ==
    {MAX_SPACE, MAX_PARAMETER_VALUE, MaxDepth, MaxString} \subseteq Nat \ {0}

Controls == {"ris", "off", "def", "st"}
Plain == {"x", "2", "F", "!", ";", "NUL"}
Tokens == Plain \cup Controls \cup MacroIds
Injected == 0  \* in the output, among the offsets of the string

ASSUME MacroNames ==
    /\ IsFiniteSet(MacroIds) /\ MacroIds # {}
    /\ MacroIds \cap (Plain \cup Controls) = {}
    /\ Encoded \subseteq Tokens

VARIABLES
    buf,         \* the MacroBuffer
    hasBuffer,   \* AdaptDispatch::_macroBuffer is not null
    parser,      \* the state of the parser: "ground", "define" or "ignore"
    frames,      \* nested calls of ProcessString: the macro and the offset
    size,        \* tokens of the outer string so far
    writing,     \* WriteCharsVT is running
    injections,  \* offsets in the string they were found in
    resets,      \* history: where in the outer string a mode was reset
    invoked,     \* history: tokens run since the outermost invocation began
    output       \* history: what WriteCharsVT wrote for the last string

vars == <<buf, hasBuffer, parser, frames, size, writing, injections, resets,
          invoked, output>>

-----------------------------------------------------------------------------
(* Defining a macro. *)

FirstMacro == CHOOSE i \in MacroIds : TRUE  \* 0 in the source

EmptyBuffer ==
    [macros |-> [i \in MacroIds |-> <<>>], spaceUsed |-> 0,
     parseState |-> "text", activeMacroId |-> FirstMacro, repeatPending |-> FALSE,
     repeatCount |-> 0, repeatStart |-> 0,
     invokedDepth |-> 0, invokedSequenceLength |-> 0]

Success(b) == [ok |-> TRUE, b |-> b]
Failure(b) == [ok |-> FALSE, b |-> b]

SpaceAvailable(b) == MAX_SPACE - b.spaceUsed
ActiveMacro(b) == b.macros[b.activeMacroId]

\* What only the parser of definitions uses; it is set again before it is read.
Forget(b) ==
    [b EXCEPT !.parseState = "text", !.activeMacroId = FirstMacro, !.repeatPending = FALSE,
              !.repeatCount = 0, !.repeatStart = 0]

DeleteMacro(b, i) ==
    [b EXCEPT !.spaceUsed = @ - Len(b.macros[i]), !.macros[i] = <<>>]

\* The space that macros take together.
Space(macros) == Cardinality(UNION {{i} \X DOMAIN macros[i] : i \in MacroIds})

\* DeleteMacro for one macro after the other.
DeleteAll(b) ==
    [b EXCEPT !.spaceUsed = @ - Space(b.macros), !.macros = [i \in MacroIds |-> <<>>]]

\* Mutant: the space is checked but not used.
AppendToActiveMacroFree(b, token) ==
    IF SpaceAvailable(b) > 0
    THEN Success([b EXCEPT !.macros[b.activeMacroId] = Append(@, token)])
    ELSE Failure(b)

AppendToActiveMacro(b, token) ==
    IF SpaceAvailable(b) > 0
    THEN Success([b EXCEPT !.macros[b.activeMacroId] = Append(@, token),
                           !.spaceUsed = @ + 1])
    ELSE Failure(b)

\* The repeated part has been appended once while it was parsed.
ApplyPendingRepeat(b) ==
    LET macro == ActiveMacro(b)
        sequenceLength == Len(macro) - b.repeatStart
        required == (b.repeatCount - 1) * sequenceLength
        copies == [k \in 1 .. required |->
                      macro[b.repeatStart + ((k - 1) % sequenceLength) + 1]]
        done == [b EXCEPT !.repeatPending = FALSE, !.repeatCount = 0, !.repeatStart = 0]
    IN  CASE b.repeatCount <= 1 -> Success(done)
          [] b.repeatCount > 1 /\ required > SpaceAvailable(b) -> Failure(b)
          [] OTHER -> Success([done EXCEPT
                                  !.macros[b.activeMacroId] = @ \o copies,
                                  !.spaceUsed = @ + required])

\* Mutant: the depth is not looked at.
InitParserAnyDepth(b, id, deleteControl, encoding) ==
    LET started == [b EXCEPT !.activeMacroId = id, !.repeatPending = FALSE]
        parsing == [started EXCEPT !.parseState = encoding]
    IN  CASE encoding = "invalid" -> Failure(Forget(started))
          [] encoding # "invalid" /\ deleteControl = "id" ->
                Success(DeleteMacro(parsing, id))
          [] encoding # "invalid" /\ deleteControl = "all" ->
                Success(DeleteAll(parsing))
          [] OTHER -> Failure(Forget(parsing))

\* No macro is defined from within a macro.
InitParser(b, id, deleteControl, encoding) ==
    LET started == [b EXCEPT !.activeMacroId = id, !.repeatPending = FALSE]
        parsing == [started EXCEPT !.parseState = encoding]
    IN  CASE b.invokedDepth > 0 -> Failure(b)
          [] b.invokedDepth = 0 /\ encoding = "invalid" -> Failure(Forget(started))
          [] b.invokedDepth = 0 /\ encoding # "invalid" ->
                CASE deleteControl = "id" -> Success(DeleteMacro(parsing, id))
                  [] deleteControl = "all" -> Success(DeleteAll(parsing))
                  [] OTHER -> Failure(Forget(parsing))

ExpectingHexDigit(b, c) ==
    CASE c \in {"2", "F"} -> Success([b EXCEPT !.parseState = "hex2"])
      [] c = "!" /\ ~b.repeatPending ->
            Success([b EXCEPT !.parseState = "repeat", !.repeatCount = 0])
      [] c = ";" /\ b.repeatPending -> ApplyPendingRepeat(b)
      [] OTHER -> Failure(b)

ExpectingSecondHexDigit(b, c, decoded) ==
    LET next == [b EXCEPT !.parseState = "hex"]
    IN  IF c \in {"2", "F"} THEN AppendToActiveMacro(next, decoded)
                            ELSE Failure(next)

ExpectingRepeatCount(b, c) ==
    CASE c = "2" ->
            LET count == b.repeatCount * 10 + 2
            IN  Success([b EXCEPT !.repeatCount =
                           IF count > MAX_PARAMETER_VALUE
                           THEN MAX_PARAMETER_VALUE ELSE count])
      [] c = ";" -> Success([b EXCEPT !.repeatPending = TRUE,
                                      !.repeatStart = Len(ActiveMacro(b)),
                                      !.parseState = "hex"])
      [] OTHER -> Failure(b)

\* A character of the definition; `decoded` is what a hex pair stands for.
ParseCharacter(b, c, decoded) ==
    CASE c = "NUL" -> Success(b)
      [] b.parseState = "text" /\ c # "NUL" -> AppendToActiveMacro(b, "x")
      [] b.parseState = "hex" /\ c # "NUL" -> ExpectingHexDigit(b, c)
      [] b.parseState = "hex2" /\ c # "NUL" -> ExpectingSecondHexDigit(b, c, decoded)
      [] OTHER -> ExpectingRepeatCount(b, c)

\* An error deletes what there is of the macro.
ParseDefinition(b, c, decoded) ==
    LET r == ParseCharacter(b, c, decoded)
    IN  IF r.ok THEN r ELSE Failure(Forget(DeleteMacro(r.b, r.b.activeMacroId)))

\* ESC ends the definition.
EndDefinition(b) ==
    LET r == ApplyPendingRepeat(b)
    IN  CASE ~b.repeatPending -> Forget(b)
          [] b.repeatPending /\ r.ok -> Forget(r.b)
          [] OTHER -> Forget(DeleteMacro(b, b.activeMacroId))

-----------------------------------------------------------------------------
(* Invoking a macro: a nested ProcessString, which forgets the injections *)
(* of the string around it.                                                *)

\* Mutant: the length of each macro is checked, not that of all of them.
MayInvokeEach(b, id) ==
    /\ hasBuffer
    /\ b.invokedDepth < MaxDepth
    /\ Len(b.macros[id]) < MAX_SPACE

MayInvoke(b, id) ==
    /\ hasBuffer
    /\ b.invokedDepth < MaxDepth
    /\ Len(b.macros[id]) < MAX_SPACE - b.invokedSequenceLength

\* RIS.  Macros in use cannot be released, they are overwritten.
Overwritten(b) ==
    [b EXCEPT !.macros = [i \in MacroIds |->
                             [k \in DOMAIN b.macros[i] |-> "NUL"]]]

HardReset ==
    /\ buf' = CASE ~hasBuffer -> buf
                [] hasBuffer /\ buf.invokedDepth > 0 -> Overwritten(buf)
                [] OTHER -> EmptyBuffer
    /\ hasBuffer' = FALSE

Innermost == frames[Len(frames)]

\* Where the next token of the innermost string ends, in that string and in the
\* outer one.
InnerOffset == IF frames = <<>> THEN size + 1 ELSE Innermost.offset + 1
OuterOffset == IF frames = <<>> THEN size + 1 ELSE size

\* Mutant: the offset of the nested string does not move.
AdvancedNot == frames

Advanced == IF frames = <<>> THEN <<>>
            ELSE [frames EXCEPT ![Len(frames)].offset = @ + 1]

\* A control sequence ends a string the parser was in.
Interrupted == IF parser = "define" THEN EndDefinition(buf) ELSE buf

\* The sequences that make ConPTY set a mode again.
ResetMode(token) ==
    /\ token \in {"ris", "off"}
    /\ parser' = "ground"
    /\ injections' = Append(injections, InnerOffset)
    /\ resets' = Append(resets, OuterOffset)
    /\ frames' = Advanced
    /\ IF token = "ris" THEN HardReset
                        ELSE buf' = Interrupted /\ UNCHANGED hasBuffer

InvokeMacro(token) ==
    LET b == Interrupted
    IN  /\ token \in MacroIds
        /\ parser' = "ground"
        /\ IF MayInvoke(b, token)
           THEN /\ buf' = [b EXCEPT !.invokedDepth = @ + 1,
                                    !.invokedSequenceLength = @ + Len(b.macros[token])]
                /\ frames' = Append(Advanced, [macro |-> token, offset |-> 0])
                /\ injections' = <<>>
           ELSE buf' = b /\ frames' = Advanced /\ UNCHANGED injections
        /\ UNCHANGED <<hasBuffer, resets>>

DefineMacro(token) ==
    LET b == IF hasBuffer THEN Interrupted ELSE EmptyBuffer
    IN  /\ token = "def"
        /\ \E id \in MacroIds, deleteControl \in {"id", "all", "invalid"},
              encoding \in {"hex", "text", "invalid"} :
              LET r == InitParser(b, id, deleteControl, encoding)
              IN  /\ buf' = r.b
                  /\ parser' = IF r.ok THEN "define" ELSE "ignore"
        /\ hasBuffer' = TRUE
        /\ frames' = Advanced
        /\ UNCHANGED <<injections, resets>>

\* A character of a definition, of a string that is ignored, or to be printed;
\* the string terminator, which is ignored in Ground.
Character(token) ==
    /\ frames' = Advanced
    /\ CASE token = "st" -> buf' = Interrupted /\ parser' = "ground"
         [] token \in Plain /\ parser = "define" ->
              \E decoded \in Encoded :
                  LET r == ParseDefinition(buf, token, decoded)
                  IN  /\ buf' = r.b
                      /\ parser' = IF r.ok THEN "define" ELSE "ignore"
         [] OTHER -> UNCHANGED <<buf, parser>>
    /\ token \in Plain \cup {"st"}
    /\ UNCHANGED <<hasBuffer, injections, resets>>

Process(token) ==
    /\ ResetMode(token) \/ InvokeMacro(token) \/ DefineMacro(token) \/ Character(token)
    /\ UNCHANGED <<writing, output>>

-----------------------------------------------------------------------------
Init ==
    /\ buf = EmptyBuffer /\ hasBuffer = FALSE
    /\ parser = "ground"
    /\ frames = <<>> /\ injections = <<>> /\ resets = <<>>
    /\ size = 0 /\ writing = FALSE
    /\ invoked = 0
    /\ output = <<>>

\* A client writes a string.
BeginWriteCharsVT ==
    /\ ~writing
    /\ writing' = TRUE
    /\ size' = 0 /\ injections' = <<>> /\ resets' = <<>>
    /\ output' = <<>>
    /\ UNCHANGED <<buf, hasBuffer, parser, frames, invoked>>

ProcessOuter ==
    /\ writing /\ frames = <<>> /\ size < MaxString
    /\ \E token \in Tokens : Process(token)
    /\ size' = size + 1
    /\ UNCHANGED invoked

MacroText == buf.macros[Innermost.macro]

ProcessNested ==
    /\ frames # <<>>
    /\ Innermost.offset < Len(MacroText)
    /\ Process(MacroText[Innermost.offset + 1])
    /\ invoked' = IF invoked < MAX_SPACE THEN invoked + 1 ELSE invoked
    /\ UNCHANGED size

\* The nested ProcessString returns, and resetInvokeDepth runs.  A buffer that
\* was reset is released with the last invocation.
ReturnFromMacro ==
    /\ frames # <<>>
    /\ Innermost.offset = Len(MacroText)
    /\ frames' = SubSeq(frames, 1, Len(frames) - 1)
    /\ LET depth == buf.invokedDepth - 1
       IN  buf' = CASE depth > 0 -> [buf EXCEPT !.invokedDepth = depth]
                    [] depth = 0 /\ hasBuffer ->
                         [buf EXCEPT !.invokedDepth = 0, !.invokedSequenceLength = 0]
                    [] OTHER -> EmptyBuffer
    /\ invoked' = IF Len(frames) = 1 THEN 0 ELSE invoked
    /\ UNCHANGED <<hasBuffer, parser, size, writing, injections, resets, output>>

\* What is written to the terminal: the string, interrupted by the injections.
\* The string is represented by the offsets of its tokens.
Slice(beg, end) == [i \in 1 .. (IF end < size THEN end ELSE size) - beg |-> beg + i]

Written(acc, offset) ==
    [text |-> acc.text \o Slice(acc.offset, offset) \o <<Injected>>,
     offset |-> offset]

EndWriteCharsVT ==
    /\ writing /\ frames = <<>> /\ size > 0
    /\ LET acc[k \in 0 .. Len(injections)] ==
               IF k = 0 THEN [text |-> <<>>, offset |-> 0]
                        ELSE Written(acc[k - 1], injections[k])
           last == acc[Len(injections)]
       IN  output' = last.text \o Slice(last.offset, size)
    /\ writing' = FALSE
    /\ UNCHANGED <<buf, hasBuffer, parser, frames, size, injections, resets, invoked>>

Next ==
    BeginWriteCharsVT \/ ProcessOuter \/ ProcessNested \/ ReturnFromMacro
        \/ EndWriteCharsVT

\* A string is processed to its end by the thread that wrote it.
Spec ==
    Init /\ [][Next]_vars /\ WF_vars(ProcessNested) /\ WF_vars(ReturnFromMacro)

-----------------------------------------------------------------------------
TypeOK ==
    /\ buf.macros \in [MacroIds -> Seq(Tokens)]
    /\ buf.spaceUsed \in 0 .. MAX_SPACE
    /\ buf.parseState \in {"text", "hex", "hex2", "repeat"}
    /\ buf.repeatCount \in 0 .. MAX_PARAMETER_VALUE
    /\ buf.invokedDepth \in 0 .. MaxDepth
    /\ hasBuffer \in BOOLEAN /\ writing \in BOOLEAN
    /\ parser \in {"ground", "define", "ignore"}
    /\ \A k \in DOMAIN frames : frames[k].macro \in MacroIds
    /\ size \in 0 .. MaxString

\* _spaceUsed is the space the macros take, after every way a definition can go
\* wrong or be cut short, so that the limit keeps its meaning and the unsigned
\* counter does not wrap (_appendToActiveMacro, _deleteMacro,
\* _applyPendingRepeat).
SpaceIsAccounted ==
    /\ TypeOK
    /\ buf.spaceUsed = Space(buf.macros)
    /\ parser = "define" => buf.repeatStart <= Len(ActiveMacro(buf)) \/ ~buf.repeatPending

\* ProcessString walks over the text of a macro through a view of it: while a
\* macro is being run its text keeps its length, whatever it defines, invokes
\* or resets (InvokeMacro, ClearMacrosIfInUse).
MacroInUseIsStable ==
    [][\A k \in DOMAIN frames \cap DOMAIN frames' :
          LET id == frames[k].macro
          IN  Len(buf'.macros[id]) = Len(buf.macros[id])]_vars

\* The nesting of the calls is what the buffer counts, and one invocation runs
\* less text than a macro may hold, however macros invoke each other.
InvocationIsBounded ==
    /\ buf.invokedDepth = Len(frames)
    /\ invoked <= buf.invokedSequenceLength
    /\ buf.invokedSequenceLength < MAX_SPACE

\* Macros that invoke themselves or each other come to an end.
InvocationEnds == frames # <<>> ~> frames = <<>>

\* "When we encounter something like a RIS (hard reset), we must re-enable modes
\* that we rely on" (host/_stream.cpp): what WriteCharsVT sends for a string has
\* an injection behind every place where the string resets a mode.
ModesAreSetAgain ==
    output # <<>> =>
        \A k \in DOMAIN resets : \E i, j \in DOMAIN output :
            i < j /\ output[i] = resets[k] /\ output[j] = Injected
=============================================================================
