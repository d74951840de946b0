------------------------- MODULE MacroBufferProofs -------------------------
(***************************************************************************)
(* Macros for every number of macros, every amount of space and every      *)
(* depth of invocation.  The space of the macros is the number of their    *)
(* characters, counted as pairs of a macro and an index; what is left to   *)
(* run of an invocation is counted in the same way, as pairs of a nested   *)
(* call and an index behind its offset.                                    *)
(***************************************************************************)
EXTENDS MacroBuffer, FiniteSetTheorems, SequenceTheorems, TLAPS

Macros == [MacroIds -> Seq(Tokens)]

Buffers ==
    [macros : Macros, spaceUsed : 0 .. MAX_SPACE,
     parseState : {"text", "hex", "hex2", "repeat"}, activeMacroId : MacroIds,
     repeatPending : BOOLEAN, repeatCount : 0 .. MAX_PARAMETER_VALUE, repeatStart : Nat,
     invokedDepth : Nat, invokedSequenceLength : Nat]

Accounted(b) == b \in Buffers /\ b.spaceUsed = Space(b.macros)

\* What is to be repeated has been appended to the macro.
RepeatOK(b) == b.repeatPending => b.repeatStart <= Len(ActiveMacro(b))

\* A part of the definition parser leaves the invocations alone.
Invoking(b, c) ==
    /\ c.invokedDepth = b.invokedDepth
    /\ c.invokedSequenceLength = b.invokedSequenceLength

-----------------------------------------------------------------------------
(* The space of the macros. *)

Pairs(I, f) == UNION {{j} \X f[j] : j \in I}

\* The number of pairs is the number of those of one index and of the others.
LEMMA PairsSplit ==
    ASSUME NEW I, IsFiniteSet(I), NEW f, \A j \in I : IsFiniteSet(f[j]), NEW i \in I
    PROVE  /\ Cardinality(Pairs(I, f)) = Cardinality(Pairs(I \ {i}, f)) + Cardinality(f[i])
           /\ Cardinality(Pairs(I \ {i}, f)) \in Nat
           /\ Cardinality(f[i]) \in Nat
<1> DEFINE Own(j) == {j} \X f[j]
           Rest == {Own(j) : j \in I \ {i}}
<1>1. \A j \in I : IsFiniteSet(Own(j)) /\ Cardinality(Own(j)) = Cardinality(f[j])
                   /\ Cardinality(f[j]) \in Nat
  <2> SUFFICES ASSUME NEW j \in I
               PROVE  IsFiniteSet(Own(j)) /\ Cardinality(Own(j)) = Cardinality(f[j])
                      /\ Cardinality(f[j]) \in Nat
    OBVIOUS
  <2>1. IsFiniteSet({j}) /\ Cardinality({j}) = 1
    BY FS_Singleton, Zenon
  <2>2. Cardinality(f[j]) \in Nat
    BY FS_CardinalityType
  <2>3. IsFiniteSet(Own(j)) /\ Cardinality(Own(j)) = 1 * Cardinality(f[j])
    BY <2>1, FS_Product, Zenon
  <2> QED
    BY <2>2, <2>3
<1>2. IsFiniteSet(I \ {i})
  BY FS_Difference, Zenon
<1>3. IsFiniteSet(Rest)
  <2> HIDE DEF Own
  <2> DEFINE own == [j \in I \ {i} |-> Own(j)]
  <2>1. own \in Surjection(I \ {i}, Rest)
    BY DEF Surjection
  <2> QED
    BY <1>2, <2>1, FS_Surjection
<1>4. IsFiniteSet(UNION Rest)
  <2> HIDE DEF Own
  <2>1. \A s \in Rest : IsFiniteSet(s)
    BY <1>1
  <2> QED
    BY <1>3, <2>1, FS_UNION
<1>5. Pairs(I \ {i}, f) = UNION Rest
  BY DEF Pairs
<1>6. Pairs(I, f) = (UNION Rest) \cup Own(i)
  BY DEF Pairs
<1>7. (UNION Rest) \cap Own(i) = {}
  OBVIOUS
<1>8. Cardinality((UNION Rest) \cup Own(i))
        = Cardinality(UNION Rest) + Cardinality(Own(i)) - Cardinality((UNION Rest) \cap Own(i))
  BY <1>1, <1>4, FS_Union
<1>9. Cardinality(UNION Rest) \in Nat
  BY <1>4, FS_CardinalityType
<1>10. Cardinality((UNION Rest) \cap Own(i)) = 0
  BY <1>7, FS_EmptySet
<1>11. Cardinality(Own(i)) = Cardinality(f[i]) /\ Cardinality(f[i]) \in Nat
  BY <1>1
<1> HIDE DEF Own, Rest
<1> QED
  <2>1. Cardinality((UNION Rest) \cup Own(i)) = Cardinality(UNION Rest) + Cardinality(f[i])
    BY <1>8, <1>9, <1>10, <1>11
  <2> QED
    BY <1>5, <1>6, <1>9, <1>11, <2>1, Zenon

\* The characters of all macros but one.
Others(macros, i) == Pairs(MacroIds \ {i}, [j \in MacroIds |-> DOMAIN macros[j]])

\* Macros take finite space: that of one and that of the others.
LEMMA SpaceParts ==
    ASSUME NEW macros \in Macros, NEW i \in MacroIds
    PROVE  /\ Space(macros) = Cardinality(Others(macros, i)) + Len(macros[i])
           /\ Cardinality(Others(macros, i)) \in Nat
           /\ Len(macros[i]) \in Nat
<1> DEFINE f == [j \in MacroIds |-> DOMAIN macros[j]]
<1>1. \A j \in MacroIds : f[j] = 1 .. Len(macros[j]) /\ Len(macros[j]) \in Nat
  BY DEF Macros
<1>2. \A j \in MacroIds : IsFiniteSet(f[j]) /\ Cardinality(f[j]) = Len(macros[j])
  <2> SUFFICES ASSUME NEW j \in MacroIds
               PROVE  IsFiniteSet(f[j]) /\ Cardinality(f[j]) = Len(macros[j])
    OBVIOUS
  <2> HIDE DEF f
  <2>1. f[j] = 1 .. Len(macros[j]) /\ Len(macros[j]) \in Nat
    BY <1>1
  <2> QED
    BY <2>1, FS_Interval
<1>3. Space(macros) = Cardinality(Pairs(MacroIds, f))
  <2>1. \A j \in MacroIds : {j} \X DOMAIN macros[j] = {j} \X f[j]
    OBVIOUS
  <2> HIDE DEF f
  <2> QED
    BY <2>1 DEF Space, Pairs
<1>4. Others(macros, i) = Pairs(MacroIds \ {i}, f)
  BY DEF Others
<1> HIDE DEF f
<1>5. /\ Cardinality(Pairs(MacroIds, f)) = Cardinality(Pairs(MacroIds \ {i}, f)) + Cardinality(f[i])
      /\ Cardinality(Pairs(MacroIds \ {i}, f)) \in Nat
  BY <1>2, MacroNames, PairsSplit
<1> QED
  BY <1>1, <1>2, <1>3, <1>4, <1>5

\* Giving one macro another text changes the space by the difference.
LEMMA SpaceChange ==
    ASSUME NEW macros \in Macros, NEW i \in MacroIds, NEW text \in Seq(Tokens)
    PROVE  /\ [macros EXCEPT ![i] = text] \in Macros
           /\ Space([macros EXCEPT ![i] = text]) = Space(macros) - Len(macros[i]) + Len(text)
           /\ Space(macros) \in Nat /\ Len(macros[i]) \in Nat /\ Len(macros[i]) <= Space(macros)
<1> DEFINE ms == [macros EXCEPT ![i] = text]
<1>1. ms \in Macros /\ ms[i] = text
  BY DEF Macros
<1>2. Others(ms, i) = Others(macros, i)
  <2>1. \A j \in MacroIds \ {i} : ms[j] = macros[j]
    BY DEF Macros
  <2> HIDE DEF ms
  <2> QED
    BY <2>1 DEF Others, Pairs
<1> HIDE DEF ms
<1>3. Space(ms) = Cardinality(Others(macros, i)) + Len(text)
  BY <1>1, <1>2, SpaceParts
<1>4. Len(text) \in Nat
  OBVIOUS
<1>5. /\ Space(macros) = Cardinality(Others(macros, i)) + Len(macros[i])
      /\ Cardinality(Others(macros, i)) \in Nat
      /\ Len(macros[i]) \in Nat
  BY SpaceParts
<1>6. Space(ms) = Space(macros) - Len(macros[i]) + Len(text)
  BY <1>3, <1>4, <1>5
<1> QED
  BY <1>1, <1>5, <1>6 DEF ms

\* Macros without text take no space.
LEMMA SpaceOfNone ==
    /\ [i \in MacroIds |-> <<>>] \in Macros
    /\ Space([i \in MacroIds |-> <<>>]) = 0
<1>1. UNION {{i} \X DOMAIN [j \in MacroIds |-> <<>>][i] : i \in MacroIds} = {}
  BY EmptySeq
<1>2. [i \in MacroIds |-> <<>>] \in Macros
  BY EmptySeq DEF Macros
<1> QED
  BY <1>1, <1>2, FS_EmptySet, Zenon DEF Space

\* The space depends on the lengths only.
LEMMA SpaceOfLengths ==
    ASSUME NEW macros \in Macros, NEW ms \in Macros,
           \A i \in MacroIds : Len(ms[i]) = Len(macros[i])
    PROVE  Space(ms) = Space(macros)
<1>1. \A i \in MacroIds : DOMAIN ms[i] = DOMAIN macros[i]
  BY DEF Macros
<1> QED
  BY <1>1, Zenon DEF Space

-----------------------------------------------------------------------------
(* The parts of the definition parser. *)

\* The space a macro takes is given back with its text.
LEMMA DeleteFacts ==
    ASSUME NEW b, Accounted(b), NEW i \in MacroIds
    PROVE  Accounted(DeleteMacro(b, i)) /\ Invoking(b, DeleteMacro(b, i))
<1> DEFINE d == DeleteMacro(b, i)
<1>1. /\ d = [b EXCEPT !.spaceUsed = @ - Len(b.macros[i]), !.macros = [@ EXCEPT ![i] = <<>>]]
      /\ b \in Buffers /\ b.macros \in Macros
  BY DEF DeleteMacro, Accounted, Buffers
<1>2. <<>> \in Seq(Tokens) /\ Len(<<>>) = 0
  BY EmptySeq
<1>3. /\ [b.macros EXCEPT ![i] = <<>>] \in Macros
      /\ Space([b.macros EXCEPT ![i] = <<>>]) = Space(b.macros) - Len(b.macros[i]) + 0
      /\ Space(b.macros) \in Nat /\ Len(b.macros[i]) \in Nat
      /\ Len(b.macros[i]) <= Space(b.macros)
  BY <1>1, <1>2, SpaceChange, Zenon
<1>4. b.spaceUsed - Len(b.macros[i]) \in 0 .. MAX_SPACE
  BY <1>1, <1>3, MacroBounds DEF Accounted, Buffers
<1>5. d \in Buffers
  BY <1>1, <1>3, <1>4, Zenon DEF Buffers
<1>6. d.spaceUsed = Space(d.macros)
  BY <1>1, <1>3 DEF Buffers, Accounted
<1> QED
  BY <1>1, <1>5, <1>6 DEF Accounted, Invoking, Buffers

\* So is the space of all of them.
LEMMA DeleteAllFacts ==
    ASSUME NEW b, Accounted(b)
    PROVE  Accounted(DeleteAll(b)) /\ Invoking(b, DeleteAll(b))
<1>1. b \in Buffers /\ b.spaceUsed = Space(b.macros) /\ b.spaceUsed \in Nat
  BY DEF Accounted, Buffers
<1>2. b.spaceUsed - Space(b.macros) = 0
  BY <1>1
<1>3. 0 \in 0 .. MAX_SPACE
  BY MacroBounds
<1>4. DeleteAll(b) = [b EXCEPT !.spaceUsed = 0, !.macros = [i \in MacroIds |-> <<>>]]
  BY <1>1, <1>2, Zenon DEF DeleteAll, Buffers
<1> DEFINE none == [i \in MacroIds |-> <<>>]
<1>5. none \in Macros /\ Space(none) = 0
  BY SpaceOfNone
<1> HIDE DEF none
<1>6. DeleteAll(b) = [b EXCEPT !.spaceUsed = 0, !.macros = none]
  BY <1>4 DEF none
<1>7. DeleteAll(b) \in Buffers
  BY <1>1, <1>3, <1>5, <1>6, Zenon DEF Buffers
<1> QED
  BY <1>1, <1>5, <1>6, <1>7 DEF Accounted, Buffers, Invoking

LEMMA ForgetFacts ==
    ASSUME NEW b, Accounted(b)
    PROVE  /\ Accounted(Forget(b)) /\ Invoking(b, Forget(b))
           /\ RepeatOK(Forget(b))
<1>1. FirstMacro \in MacroIds
  BY MacroNames DEF FirstMacro
<1>2. b \in Buffers /\ b.spaceUsed = Space(b.macros) /\ 0 \in 0 .. MAX_PARAMETER_VALUE
  BY MacroBounds DEF Accounted
<1>3. Forget(b) \in Buffers
  BY <1>1, <1>2, Zenon DEF Forget, Buffers
<1>4. /\ Forget(b).spaceUsed = b.spaceUsed /\ Forget(b).macros = b.macros
      /\ Forget(b).repeatPending = FALSE
      /\ Invoking(b, Forget(b))
  BY <1>2 DEF Forget, Buffers, Invoking
<1> QED
  BY <1>2, <1>3, <1>4 DEF Accounted, RepeatOK

\* A buffer as it is created.
LEMMA EmptyFacts ==
    /\ Accounted(EmptyBuffer) /\ RepeatOK(EmptyBuffer)
    /\ EmptyBuffer.invokedDepth = 0 /\ EmptyBuffer.invokedSequenceLength = 0
<1>1. FirstMacro \in MacroIds
  BY MacroNames DEF FirstMacro
<1> QED
  BY <1>1, SpaceOfNone, MacroBounds DEF EmptyBuffer, Accounted, Buffers, RepeatOK

\* A text behind the active macro, where there is space for it.
LEMMA LongerFacts ==
    ASSUME NEW b, Accounted(b), NEW text \in Seq(Tokens), Len(text) <= SpaceAvailable(b)
    PROVE  LET longer == [b EXCEPT !.macros[b.activeMacroId] = @ \o text,
                                   !.spaceUsed = @ + Len(text)]
           IN  /\ Accounted(longer) /\ Invoking(b, longer)
               /\ RepeatOK(b) => RepeatOK(longer)
<1> DEFINE i == b.activeMacroId
           longer == [b EXCEPT !.macros[i] = @ \o text, !.spaceUsed = @ + Len(text)]
           ms == [b.macros EXCEPT ![i] = @ \o text]
<1>1. b \in Buffers /\ b.macros \in Macros /\ i \in MacroIds /\ b.macros[i] \in Seq(Tokens)
  BY DEF Accounted, Buffers, Macros
<1>2. b.macros[i] \o text \in Seq(Tokens)
  BY <1>1
<1>3. Len(b.macros[i] \o text) = Len(b.macros[i]) + Len(text)
  BY <1>1
<1>4. /\ ms \in Macros
      /\ Space(ms) = Space(b.macros) - Len(b.macros[i]) + Len(b.macros[i] \o text)
      /\ Space(b.macros) \in Nat /\ Len(b.macros[i]) \in Nat
  BY <1>1, <1>2, SpaceChange, Zenon
<1>5. Len(text) \in Nat
  OBVIOUS
<1>6. Space(ms) = b.spaceUsed + Len(text)
  BY <1>3, <1>4, <1>5 DEF Accounted
<1>7. b.spaceUsed + Len(text) \in 0 .. MAX_SPACE
  BY <1>1, <1>5, MacroBounds DEF SpaceAvailable, Buffers
<1>8. longer = [b EXCEPT !.macros = ms, !.spaceUsed = @ + Len(text)]
  BY <1>1 DEF Buffers
<1>9. Accounted(longer) /\ Invoking(b, longer)
  <2> HIDE DEF ms, i
  <2> QED
    BY <1>1, <1>4, <1>6, <1>7, <1>8, Zenon DEF Accounted, Buffers, Invoking
<1>10. /\ longer.repeatPending = b.repeatPending /\ longer.repeatStart = b.repeatStart
       /\ ActiveMacro(longer) = b.macros[i] \o text
  BY <1>1 DEF Buffers, ActiveMacro, Macros
<1>11. RepeatOK(b) => RepeatOK(longer)
  <2> HIDE DEF longer, i
  <2>1. b.repeatStart \in Nat
    BY <1>1 DEF Buffers
  <2> QED
    BY <1>3, <1>4, <1>5, <1>10, <2>1 DEF RepeatOK, ActiveMacro, i
<1> QED
  BY <1>9, <1>11

LEMMA AppendFacts ==
    ASSUME NEW b, Accounted(b), RepeatOK(b), NEW token \in Tokens
    PROVE  LET r == AppendToActiveMacro(b, token)
           IN  /\ r.ok \in BOOLEAN /\ Accounted(r.b) /\ Invoking(b, r.b)
               /\ RepeatOK(r.b)
<1>1. CASE ~(SpaceAvailable(b) > 0)
  BY <1>1 DEF AppendToActiveMacro, Failure, Invoking
<1>2. CASE SpaceAvailable(b) > 0
  <2> DEFINE longer == [b EXCEPT !.macros[b.activeMacroId] = @ \o <<token>>,
                                 !.spaceUsed = @ + Len(<<token>>)]
  <2>1. <<token>> \in Seq(Tokens) /\ Len(<<token>>) = 1
    OBVIOUS
  <2>2. Len(<<token>>) <= SpaceAvailable(b)
    BY <1>2, <2>1, MacroBounds DEF SpaceAvailable, Accounted, Buffers
  <2>3. Accounted(longer) /\ Invoking(b, longer) /\ RepeatOK(longer)
    BY <2>1, <2>2, LongerFacts, Zenon
  <2>4. AppendToActiveMacro(b, token) = Success(longer)
    <3>1. /\ b.activeMacroId \in MacroIds /\ b.macros \in Macros
          /\ b.macros[b.activeMacroId] \in Seq(Tokens)
      BY DEF Accounted, Buffers, Macros
    <3>2. Append(b.macros[b.activeMacroId], token) = b.macros[b.activeMacroId] \o <<token>>
      BY <3>1, AppendIsConcat
    <3> QED
      BY <1>2, <2>1, <3>1, <3>2 DEF AppendToActiveMacro, Accounted, Buffers
  <2> HIDE DEF longer
  <2> QED
    BY <2>3, <2>4 DEF Success
<1> QED
  BY <1>1, <1>2

\* The copies of a repeat fit into the space there is, or the repeat fails.
LEMMA RepeatFacts ==
    ASSUME NEW b, Accounted(b), RepeatOK(b), b.repeatPending
    PROVE  LET r == ApplyPendingRepeat(b)
           IN  /\ r.ok \in BOOLEAN /\ Accounted(r.b) /\ Invoking(b, r.b)
               /\ RepeatOK(r.b)
<1> DEFINE macro == ActiveMacro(b)
           n == Len(macro) - b.repeatStart
           required == (b.repeatCount - 1) * n
           copies == [k \in 1 .. required |-> macro[b.repeatStart + ((k - 1) % n) + 1]]
           done == [b EXCEPT !.repeatPending = FALSE, !.repeatCount = 0, !.repeatStart = 0]
<1>1. /\ b \in Buffers /\ b.spaceUsed = Space(b.macros)
      /\ b.repeatCount \in 0 .. MAX_PARAMETER_VALUE /\ b.repeatStart \in Nat
      /\ 0 \in 0 .. MAX_PARAMETER_VALUE
  BY MacroBounds DEF Accounted, Buffers
<1>2. macro \in Seq(Tokens) /\ b.repeatStart <= Len(macro)
  BY <1>1 DEF RepeatOK, ActiveMacro, Buffers, Macros
<1>3. Accounted(done) /\ Invoking(b, done) /\ RepeatOK(done)
  <2>1. done \in Buffers
    BY <1>1, Zenon DEF Buffers
  <2>2. /\ done.spaceUsed = b.spaceUsed /\ done.macros = b.macros
        /\ done.repeatPending = FALSE /\ Invoking(b, done)
    BY <1>1 DEF Buffers, Invoking
  <2> HIDE DEF done
  <2> QED
    BY <1>1, <2>1, <2>2 DEF Accounted, RepeatOK
<1>4. CASE b.repeatCount <= 1
  <2>1. ApplyPendingRepeat(b) = Success(done)
    BY <1>1, <1>4 DEF ApplyPendingRepeat
  <2> HIDE DEF done
  <2> QED
    BY <1>3, <2>1 DEF Success
<1>5. CASE b.repeatCount > 1 /\ required > SpaceAvailable(b)
  <2>1. ApplyPendingRepeat(b) = Failure(b)
    BY <1>1, <1>5 DEF ApplyPendingRepeat
  <2> QED
    BY <2>1 DEF Failure, Invoking
<1>6. CASE b.repeatCount > 1 /\ ~(required > SpaceAvailable(b))
  <2> DEFINE longer == [done EXCEPT !.macros[done.activeMacroId] = @ \o copies,
                                    !.spaceUsed = @ + Len(copies)]
  <2>1. n \in Nat /\ b.repeatCount - 1 \in Nat
    BY <1>1, <1>2, <1>6
  <2>2. required \in Nat /\ (n = 0 => required = 0)
    <3> HIDE DEF n
    <3> QED
      BY <2>1
  <2>3. copies \in Seq(Tokens) /\ Len(copies) = required
    <3>1. ASSUME NEW k \in 1 .. required
          PROVE  macro[b.repeatStart + ((k - 1) % n) + 1] \in Tokens
      <4>1. n > 0
        BY <2>1, <2>2
      <4>2. (k - 1) % n \in 0 .. n - 1
        <5> HIDE DEF n, required
        <5> QED
          BY <2>1, <2>2, <4>1
      <4>3. b.repeatStart + ((k - 1) % n) + 1 \in 1 .. Len(macro)
        <5>1. \A m \in 0 .. n - 1 : b.repeatStart + m + 1 \in 1 .. Len(macro)
          BY <1>1, <1>2
        <5> QED
          BY <4>2, <5>1
      <4> HIDE DEF macro, n
      <4> QED
        BY <1>2, <4>3
    <3> HIDE DEF macro, n, required
    <3>2. copies \in [1 .. required -> Tokens]
      BY <3>1
    <3> QED
      BY <2>2, <3>2
  <2>4. SpaceAvailable(done) = SpaceAvailable(b) /\ done.activeMacroId = b.activeMacroId
    BY <1>1 DEF SpaceAvailable, Buffers
  <2>5. required <= SpaceAvailable(b)
    <3>1. SpaceAvailable(b) \in Int
      BY <1>1, MacroBounds DEF SpaceAvailable, Buffers
    <3> HIDE DEF required
    <3> QED
      BY <1>6, <2>2, <3>1
  <2>6. Accounted(longer) /\ Invoking(done, longer) /\ RepeatOK(longer)
    <3>1. Len(copies) <= SpaceAvailable(done)
      BY <2>3, <2>4, <2>5, Zenon
    <3> HIDE DEF done, copies
    <3> QED
      BY <1>3, <2>3, <3>1, LongerFacts, Zenon
  <2>7. ApplyPendingRepeat(b)
          = Success([done EXCEPT !.macros[b.activeMacroId] = @ \o copies, !.spaceUsed = @ + required])
    BY <1>1, <1>6 DEF ApplyPendingRepeat
  <2>8. ApplyPendingRepeat(b) = Success(longer)
    <3> HIDE DEF done, copies, required
    <3> QED
      BY <2>3, <2>4, <2>7
  <2> HIDE DEF longer, done
  <2> QED
    BY <1>3, <2>6, <2>8 DEF Success, Invoking
<1> QED
  BY <1>1, <1>4, <1>5, <1>6

\* The end of a definition.
LEMMA EndFacts ==
    ASSUME NEW b, Accounted(b), RepeatOK(b)
    PROVE  Accounted(EndDefinition(b)) /\ Invoking(b, EndDefinition(b))
<1> DEFINE r == ApplyPendingRepeat(b)
<1>0. b.activeMacroId \in MacroIds /\ b.repeatPending \in BOOLEAN
  BY DEF Accounted, Buffers
<1>1. CASE ~b.repeatPending
  BY <1>1, ForgetFacts DEF EndDefinition
<1>2. CASE b.repeatPending /\ r.ok
  <2>1. EndDefinition(b) = Forget(r.b)
    BY <1>2 DEF EndDefinition
  <2>2. Accounted(r.b) /\ Invoking(b, r.b)
    BY <1>2, RepeatFacts
  <2> HIDE DEF r
  <2> QED
    BY <2>1, <2>2, ForgetFacts DEF Invoking
<1>3. CASE b.repeatPending /\ ~r.ok
  <2>1. EndDefinition(b) = Forget(DeleteMacro(b, b.activeMacroId))
    BY <1>3 DEF EndDefinition
  <2> QED
    BY <1>0, <2>1, DeleteFacts, ForgetFacts DEF Invoking
<1> QED
  BY <1>1, <1>2, <1>3

\* The begin of a definition: it succeeds only outside of any invocation, and one
\* within leaves the buffer as it is.
LEMMA InitParserFacts ==
    ASSUME NEW b, Accounted(b), NEW id \in MacroIds, NEW deleteControl,
           NEW encoding \in {"hex", "text", "invalid"}
    PROVE  LET r == InitParser(b, id, deleteControl, encoding)
           IN  /\ r.ok \in BOOLEAN /\ Accounted(r.b) /\ Invoking(b, r.b)
               /\ r.ok => b.invokedDepth = 0 /\ RepeatOK(r.b)
               /\ b.invokedDepth > 0 => r.b = b
<1> DEFINE started == [b EXCEPT !.activeMacroId = id, !.repeatPending = FALSE]
           parsing == [started EXCEPT !.parseState = encoding]
           r == InitParser(b, id, deleteControl, encoding)
<1>1. b \in Buffers /\ b.spaceUsed = Space(b.macros) /\ b.invokedDepth \in Nat
  BY DEF Accounted, Buffers
<1>2. Accounted(started) /\ Invoking(b, started) /\ RepeatOK(started)
  BY <1>1, Zenon DEF Buffers, Accounted, Invoking, RepeatOK
<1>3. CASE b.invokedDepth > 0
  <2>1. r = Failure(b)
    BY <1>1, <1>3 DEF InitParser
  <2> QED
    BY <2>1 DEF Failure, Invoking
<1>4. CASE b.invokedDepth = 0 /\ encoding = "invalid"
  <2>1. r = Failure(Forget(started))
    BY <1>4 DEF InitParser
  <2> HIDE DEF started
  <2>2. Accounted(Forget(started)) /\ Invoking(started, Forget(started))
    BY <1>2, ForgetFacts
  <2>3. Invoking(b, Forget(started))
    BY <1>2, <2>2 DEF Invoking
  <2>4. ~(b.invokedDepth > 0)
    BY <1>1, <1>4
  <2> QED
    BY <2>1, <2>2, <2>3, <2>4 DEF Failure
<1>5. CASE b.invokedDepth = 0 /\ encoding # "invalid"
  <2>1. /\ Accounted(parsing) /\ Invoking(b, parsing)
        /\ parsing.repeatPending = FALSE
    BY <1>1, <1>5, Zenon DEF Buffers, Accounted, Invoking
  <2>2. r = CASE deleteControl = "id" -> Success(DeleteMacro(parsing, id))
              [] deleteControl = "all" -> Success(DeleteAll(parsing))
              [] OTHER -> Failure(Forget(parsing))
    BY <1>5 DEF InitParser
  <2>3. parsing \in Buffers
    BY <2>1 DEF Accounted
  <2> HIDE DEF parsing
  <2>4. CASE deleteControl = "id"
    <3>1. Accounted(DeleteMacro(parsing, id)) /\ Invoking(parsing, DeleteMacro(parsing, id))
      BY <2>1, DeleteFacts
    <3>2. RepeatOK(DeleteMacro(parsing, id))
      BY <2>1, <2>3 DEF RepeatOK, DeleteMacro, Buffers
    <3>3. r = Success(DeleteMacro(parsing, id))
      BY <2>2, <2>4
    <3> QED
      BY <1>5, <2>1, <3>1, <3>2, <3>3 DEF Success, Invoking
  <2>5. CASE deleteControl = "all"
    <3>1. Accounted(DeleteAll(parsing)) /\ Invoking(parsing, DeleteAll(parsing))
      BY <2>1, DeleteAllFacts
    <3>2. RepeatOK(DeleteAll(parsing))
      BY <2>1, <2>3 DEF RepeatOK, DeleteAll, Buffers
    <3>3. r = Success(DeleteAll(parsing))
      BY <2>2, <2>5
    <3> QED
      BY <1>5, <2>1, <3>1, <3>2, <3>3 DEF Success, Invoking
  <2>6. CASE deleteControl \notin {"id", "all"}
    <3>1. Accounted(Forget(parsing)) /\ Invoking(parsing, Forget(parsing))
      BY <2>1, ForgetFacts
    <3>2. r = Failure(Forget(parsing))
      BY <2>2, <2>6
    <3> QED
      BY <1>5, <2>1, <3>1, <3>2 DEF Failure, Invoking
  <2> QED
    BY <2>4, <2>5, <2>6
<1> QED
  BY <1>1, <1>3, <1>4, <1>5

\* A state of the definition parser keeps the accounts, whether or not it accepts
\* the character.
Parsed(b, r) ==
    r.ok \in BOOLEAN /\ Accounted(r.b) /\ Invoking(b, r.b) /\ RepeatOK(r.b)

LEMMA ParseCharacterFacts ==
    ASSUME NEW b, Accounted(b), RepeatOK(b), NEW c \in Plain, NEW decoded \in Tokens
    PROVE  Parsed(b, ParseCharacter(b, c, decoded))
<1>1. /\ b \in Buffers /\ b.spaceUsed = Space(b.macros)
      /\ b.repeatCount \in 0 .. MAX_PARAMETER_VALUE /\ b.repeatStart \in Nat
      /\ 0 \in 0 .. MAX_PARAMETER_VALUE /\ MAX_PARAMETER_VALUE \in Nat
      /\ b.parseState \in {"text", "hex", "hex2", "repeat"}
      /\ ActiveMacro(b) \in Seq(Tokens)
  BY MacroBounds DEF Accounted, Buffers, ActiveMacro, Macros
<1>2. Parsed(b, Success(b)) /\ Parsed(b, Failure(b))
  BY DEF Parsed, Success, Failure, Invoking
<1>3. ASSUME NEW s \in {"text", "hex", "hex2", "repeat"}
      PROVE  LET next == [b EXCEPT !.parseState = s]
             IN  Accounted(next) /\ Invoking(b, next) /\ RepeatOK(next)
  BY <1>1 DEF Accounted, Buffers, Invoking, RepeatOK, ActiveMacro
<1>4. Parsed(b, ExpectingHexDigit(b, c))
  <2>1. CASE c \in {"2", "F"}
    <3>1. ExpectingHexDigit(b, c) = Success([b EXCEPT !.parseState = "hex2"])
      BY <2>1, Zenon DEF ExpectingHexDigit
    <3> QED
      BY <1>3, <3>1 DEF Parsed, Success
  <2>2. CASE c = "!" /\ ~b.repeatPending
    <3> DEFINE next == [b EXCEPT !.parseState = "repeat", !.repeatCount = 0]
    <3>1. ExpectingHexDigit(b, c) = Success(next)
      BY <2>2 DEF ExpectingHexDigit
    <3>2. Accounted(next) /\ Invoking(b, next) /\ RepeatOK(next)
      BY <1>1, <2>2, Zenon DEF Accounted, Buffers, Invoking, RepeatOK
    <3> HIDE DEF next
    <3> QED
      BY <3>1, <3>2 DEF Parsed, Success
  <2>3. CASE c = ";" /\ b.repeatPending
    <3>1. ExpectingHexDigit(b, c) = ApplyPendingRepeat(b)
      BY <2>3, Zenon DEF ExpectingHexDigit
    <3> QED
      BY <2>3, <3>1, RepeatFacts, Zenon DEF Parsed
  <2>4. CASE ~(c \in {"2", "F"} \/ (c = "!" /\ ~b.repeatPending) \/ (c = ";" /\ b.repeatPending))
    <3>1. ExpectingHexDigit(b, c) = Failure(b)
      BY <2>4, Zenon DEF ExpectingHexDigit
    <3> QED
      BY <1>2, <3>1
  <2> QED
    BY <2>1, <2>2, <2>3, <2>4, Zenon
<1>5. Parsed(b, ExpectingSecondHexDigit(b, c, decoded))
  <2> DEFINE next == [b EXCEPT !.parseState = "hex"]
  <2>1. Accounted(next) /\ Invoking(b, next) /\ RepeatOK(next)
    BY <1>3
  <2>2. ExpectingSecondHexDigit(b, c, decoded)
          = IF c \in {"2", "F"} THEN AppendToActiveMacro(next, decoded) ELSE Failure(next)
    BY DEF ExpectingSecondHexDigit
  <2> HIDE DEF next
  <2>3. CASE c \in {"2", "F"}
    BY <2>1, <2>2, <2>3, AppendFacts DEF Parsed, Invoking
  <2>4. CASE c \notin {"2", "F"}
    BY <2>1, <2>2, <2>4 DEF Parsed, Failure
  <2> QED
    BY <2>3, <2>4
<1>6. Parsed(b, ExpectingRepeatCount(b, c))
  <2>1. CASE c = "2"
    <3> DEFINE count == b.repeatCount * 10 + 2
               least == IF count > MAX_PARAMETER_VALUE THEN MAX_PARAMETER_VALUE ELSE count
               next == [b EXCEPT !.repeatCount = least]
    <3>1. ExpectingRepeatCount(b, c) = Success(next)
      BY <2>1 DEF ExpectingRepeatCount
    <3>2. least \in 0 .. MAX_PARAMETER_VALUE
      BY <1>1
    <3> HIDE DEF least
    <3>3. Accounted(next) /\ Invoking(b, next) /\ RepeatOK(next)
      BY <1>1, <3>2 DEF Accounted, Buffers, Invoking, RepeatOK, ActiveMacro
    <3> HIDE DEF next
    <3> QED
      BY <3>1, <3>3 DEF Parsed, Success
  <2>2. CASE c = ";"
    <3> DEFINE next == [b EXCEPT !.repeatPending = TRUE, !.repeatStart = Len(ActiveMacro(b)),
                                 !.parseState = "hex"]
    <3>1. ExpectingRepeatCount(b, c) = Success(next)
      BY <2>2, Zenon DEF ExpectingRepeatCount
    <3>2. Len(ActiveMacro(b)) \in Nat
      BY <1>1
    <3>3. Accounted(next) /\ Invoking(b, next)
      BY <1>1, <3>2, Zenon DEF Accounted, Buffers, Invoking
    <3>4. next.repeatStart = Len(ActiveMacro(b)) /\ ActiveMacro(next) = ActiveMacro(b)
      BY <1>1 DEF ActiveMacro, Buffers
    <3> HIDE DEF next
    <3> QED
      BY <3>1, <3>2, <3>3, <3>4 DEF Parsed, Success, RepeatOK
  <2>3. CASE c \notin {"2", ";"}
    <3>1. ExpectingRepeatCount(b, c) = Failure(b)
      BY <2>3, Zenon DEF ExpectingRepeatCount
    <3> QED
      BY <1>2, <3>1
  <2> QED
    BY <2>1, <2>2, <2>3, Zenon
<1>7. Parsed(b, AppendToActiveMacro(b, "x"))
  BY AppendFacts, Zenon DEF Parsed, Tokens, Plain
<1> QED
  <2>1. CASE c = "NUL"
    BY <1>2, <2>1 DEF ParseCharacter
  <2>2. CASE c # "NUL" /\ b.parseState = "text"
    BY <1>7, <2>2 DEF ParseCharacter
  <2>3. CASE c # "NUL" /\ b.parseState = "hex"
    BY <1>4, <2>3 DEF ParseCharacter
  <2>4. CASE c # "NUL" /\ b.parseState = "hex2"
    BY <1>5, <2>4 DEF ParseCharacter
  <2>5. CASE c # "NUL" /\ b.parseState = "repeat"
    BY <1>6, <2>5 DEF ParseCharacter
  <2> QED
    BY <1>1, <2>1, <2>2, <2>3, <2>4, <2>5

\* A character that is refused deletes what there is of the macro.
LEMMA ParseDefinitionFacts ==
    ASSUME NEW b, Accounted(b), RepeatOK(b), NEW c \in Plain, NEW decoded \in Tokens
    PROVE  Parsed(b, ParseDefinition(b, c, decoded))
<1> DEFINE r == ParseCharacter(b, c, decoded)
<1>1. Parsed(b, r)
  BY ParseCharacterFacts
<1>2. ParseDefinition(b, c, decoded)
        = IF r.ok THEN r ELSE Failure(Forget(DeleteMacro(r.b, r.b.activeMacroId)))
  BY DEF ParseDefinition
<1> HIDE DEF r
<1>3. CASE r.ok
  BY <1>1, <1>2, <1>3
<1>4. CASE ~r.ok
  <2>1. Accounted(r.b) /\ Invoking(b, r.b) /\ r.b.activeMacroId \in MacroIds
    BY <1>1 DEF Parsed, Accounted, Buffers
  <2> DEFINE d == DeleteMacro(r.b, r.b.activeMacroId)
  <2>2. Accounted(d) /\ Invoking(r.b, d)
    BY <2>1, DeleteFacts
  <2> HIDE DEF d
  <2>3. Accounted(Forget(d)) /\ Invoking(d, Forget(d)) /\ RepeatOK(Forget(d))
    BY <2>2, ForgetFacts
  <2>4. ParseDefinition(b, c, decoded) = Failure(Forget(d))
    BY <1>2, <1>4 DEF d
  <2> QED
    BY <2>1, <2>2, <2>3, <2>4 DEF Parsed, Failure, Invoking
<1> QED
  BY <1>3, <1>4

-----------------------------------------------------------------------------
(* The nested calls of ProcessString. *)

Calls == [macro : MacroIds, offset : Nat]
Frames == Seq(Calls)

\* Every call is within the text it walks over.
Within(fs, macros) ==
    fs \in Frames /\ \A k \in DOMAIN fs : fs[k].offset <= Len(macros[fs[k].macro])

\* What a call has still to run, and the calls together.
Behind(fs, macros) ==
    [k \in DOMAIN fs |-> fs[k].offset + 1 .. Len(macros[fs[k].macro])]
ToRun(fs, macros) == Cardinality(Pairs(DOMAIN fs, Behind(fs, macros)))

Shorter(fs) == SubSeq(fs, 1, Len(fs) - 1)

LEMMA FrameFacts ==
    ASSUME NEW macros \in Macros, NEW fs, Within(fs, macros)
    PROVE  /\ fs \in Frames /\ Len(fs) \in Nat /\ DOMAIN fs = 1 .. Len(fs)
           /\ fs # <<>> => Len(fs) > 0 /\ Len(fs) \in 1 .. Len(fs)
           /\ \A k \in 1 .. Len(fs) : /\ fs[k] \in Calls
                                      /\ fs[k].macro \in MacroIds /\ fs[k].offset \in Nat
                                      /\ fs[k].offset <= Len(macros[fs[k].macro])
                                      /\ Len(macros[fs[k].macro]) \in Nat
<1>1. /\ fs \in Seq(Calls) /\ Len(fs) \in Nat /\ DOMAIN fs = 1 .. Len(fs)
      /\ \A k \in 1 .. Len(fs) : fs[k] \in Calls
  BY DEF Within, Frames
<1>2. fs # <<>> => Len(fs) > 0 /\ Len(fs) \in 1 .. Len(fs)
  BY <1>1, EmptySeq
<1>3. \A c \in Calls : c.macro \in MacroIds /\ c.offset \in Nat
  BY DEF Calls
<1>4. \A i \in MacroIds : Len(macros[i]) \in Nat
  BY DEF Macros
<1> QED
  BY <1>1, <1>2, <1>3, <1>4 DEF Within, Frames

LEMMA ShorterFacts ==
    ASSUME NEW fs \in Frames, Len(fs) > 0
    PROVE  /\ Shorter(fs) \in Frames /\ Len(Shorter(fs)) = Len(fs) - 1
           /\ DOMAIN Shorter(fs) = 1 .. Len(fs) - 1
           /\ \A k \in 1 .. Len(fs) - 1 : Shorter(fs)[k] = fs[k]
<1>1. fs \in Seq(Calls) /\ Len(fs) \in Nat /\ Len(fs) - 1 \in 0 .. Len(fs)
  BY DEF Frames
<1>2. \A k \in 1 .. Len(fs) - 1 : fs[k] \in Calls
  BY <1>1
<1> DEFINE n == Len(fs) - 1
<1>3. n \in Int /\ 1 \in Int /\ n >= 0
  BY <1>1
<1> HIDE DEF n
<1>4. /\ SubSeq(fs, 1, n) \in Seq(Calls)
      /\ Len(SubSeq(fs, 1, n)) = IF 1 <= n THEN n - 1 + 1 ELSE 0
      /\ \A i \in 1 .. n - 1 + 1 : SubSeq(fs, 1, n)[i] = fs[1 + i - 1]
  BY <1>2, <1>3, SubSeqProperties DEF n
<1>5. n - 1 + 1 = n /\ \A i \in 1 .. n : 1 + i - 1 = i
  BY <1>3
<1>6. /\ Shorter(fs) \in Seq(Calls) /\ Len(Shorter(fs)) = n
      /\ \A i \in 1 .. n : Shorter(fs)[i] = fs[i]
  BY <1>3, <1>4, <1>5 DEF Shorter, n
<1>7. DOMAIN Shorter(fs) = 1 .. n
  BY <1>6
<1> QED
  BY <1>6, <1>7 DEF Frames, n

\* What is left to run is left to the innermost call and to those around it.
LEMMA ToRunParts ==
    ASSUME NEW macros \in Macros, NEW fs, Within(fs, macros), fs # <<>>
    PROVE  /\ Within(Shorter(fs), macros) /\ Len(Shorter(fs)) = Len(fs) - 1
           /\ Len(fs) \in Nat /\ Len(fs) > 0
           /\ ToRun(fs, macros)
                = ToRun(Shorter(fs), macros)
                     + (Len(macros[fs[Len(fs)].macro]) - fs[Len(fs)].offset)
           /\ ToRun(Shorter(fs), macros) \in Nat
<1> DEFINE n == Len(fs)
           f == Behind(fs, macros)
           g == Behind(Shorter(fs), macros)
<1>1. /\ fs \in Frames /\ n \in Nat /\ n > 0 /\ DOMAIN fs = 1 .. n /\ n \in 1 .. n
      /\ \A k \in 1 .. n : /\ fs[k] \in Calls
                           /\ fs[k].offset <= Len(macros[fs[k].macro])
  BY FrameFacts
<1>2. /\ Shorter(fs) \in Frames /\ Len(Shorter(fs)) = n - 1
      /\ \A k \in 1 .. n - 1 : Shorter(fs)[k] = fs[k]
  BY <1>1, ShorterFacts, Zenon
<1>3. DOMAIN Shorter(fs) = (1 .. n) \ {n}
  <2>1. DOMAIN Shorter(fs) = 1 .. n - 1
    BY <1>1, ShorterFacts
  <2> QED
    BY <1>1, <2>1
<1>4. \A k \in MacroIds : Len(macros[k]) \in Nat
  BY DEF Macros
<1>5. \A k \in 1 .. n : /\ IsFiniteSet(f[k])
                        /\ Cardinality(f[k]) = Len(macros[fs[k].macro]) - fs[k].offset
  <2> SUFFICES ASSUME NEW k \in 1 .. n
               PROVE  /\ IsFiniteSet(f[k])
                      /\ Cardinality(f[k]) = Len(macros[fs[k].macro]) - fs[k].offset
    OBVIOUS
  <2> DEFINE a == fs[k].offset
             m == Len(macros[fs[k].macro])
  <2>1. f[k] = a + 1 .. m
    BY <1>1 DEF Behind
  <2>2. a \in Nat /\ m \in Nat /\ a <= m
    BY FrameFacts
  <2> HIDE DEF a, m
  <2>3. IsFiniteSet(a + 1 .. m) /\ Cardinality(a + 1 .. m) = m - a
    <3>1. a + 1 \in Int /\ m \in Int
      BY <2>2
    <3>2. /\ IsFiniteSet(a + 1 .. m)
          /\ Cardinality(a + 1 .. m) = IF a + 1 > m THEN 0 ELSE m - (a + 1) + 1
      BY <3>1, FS_Interval
    <3> QED
      BY <2>2, <3>2
  <2> QED
    BY <2>1, <2>3 DEF a, m
<1>6. Pairs((1 .. n) \ {n}, f) = Pairs(DOMAIN Shorter(fs), g)
  <2>1. \A k \in (1 .. n) \ {n} : f[k] = g[k]
    <3> SUFFICES ASSUME NEW k \in (1 .. n) \ {n} PROVE f[k] = g[k]
      OBVIOUS
    <3>0. n \in Nat
      BY <1>1, Zenon
    <3>1. k \in 1 .. n - 1
      BY <3>0
    <3> QED
      BY <1>1, <1>2, <1>3, <3>1, Zenon DEF Behind
  <2> HIDE DEF f, g
  <2> QED
    BY <1>3, <2>1 DEF Pairs
<1>7. Within(Shorter(fs), macros)
  <2>1. ASSUME NEW k \in DOMAIN Shorter(fs)
        PROVE  Shorter(fs)[k].offset <= Len(macros[Shorter(fs)[k].macro])
    <3>1. k \in 1 .. n - 1 /\ k \in 1 .. n
      BY <1>1, <1>3, <2>1
    <3> QED
      BY <1>1, <1>2, <3>1
  <2> QED
    BY <1>2, <2>1 DEF Within
<1> HIDE DEF f, g
<1>8. /\ Cardinality(Pairs(1 .. n, f)) = Cardinality(Pairs((1 .. n) \ {n}, f)) + Cardinality(f[n])
      /\ Cardinality(Pairs((1 .. n) \ {n}, f)) \in Nat
  <2>1. IsFiniteSet(1 .. n)
    BY <1>1, FS_Interval
  <2> QED
    BY <1>1, <1>5, <2>1, PairsSplit, Zenon
<1>9. /\ ToRun(fs, macros) = Cardinality(Pairs(1 .. n, f))
      /\ ToRun(Shorter(fs), macros) = Cardinality(Pairs((1 .. n) \ {n}, f))
  BY <1>1, <1>6 DEF ToRun, f, g
<1> QED
  BY <1>1, <1>2, <1>5, <1>7, <1>8, <1>9

\* With no call there is nothing to run.
LEMMA NothingToRun ==
    ASSUME NEW macros
    PROVE  Within(<<>>, macros) /\ ToRun(<<>>, macros) = 0
<1>1. <<>> \in Frames /\ DOMAIN <<>> = {}
  BY EmptySeq DEF Frames
<1>2. Pairs(DOMAIN <<>>, Behind(<<>>, macros)) = {}
  BY <1>1 DEF Pairs
<1> QED
  BY <1>1, <1>2, FS_EmptySet DEF ToRun, Within

\* What is left to run depends on the lengths of the macros only.
LEMMA ToRunOfLengths ==
    ASSUME NEW macros \in Macros, NEW ms \in Macros, NEW fs, Within(fs, macros),
           \A i \in MacroIds : Len(ms[i]) = Len(macros[i])
    PROVE  Within(fs, ms) /\ ToRun(fs, ms) = ToRun(fs, macros)
<1>1. \A k \in DOMAIN fs : fs[k].macro \in MacroIds
  BY FrameFacts
<1>2. Behind(fs, ms) = Behind(fs, macros)
  BY <1>1 DEF Behind
<1> QED
  BY <1>1, <1>2 DEF Within, ToRun

\* A token of the innermost text.
LEMMA AdvanceFacts ==
    ASSUME NEW macros \in Macros, NEW fs, Within(fs, macros), fs # <<>>,
           fs[Len(fs)].offset < Len(macros[fs[Len(fs)].macro])
    PROVE  LET next == [fs EXCEPT ![Len(fs)].offset = @ + 1]
           IN  /\ Within(next, macros) /\ Len(next) = Len(fs)
               /\ ToRun(next, macros) \in Nat
               /\ ToRun(fs, macros) = ToRun(next, macros) + 1
<1> DEFINE n == Len(fs)
           top == [fs[n] EXCEPT !.offset = @ + 1]
           next == [fs EXCEPT ![n].offset = @ + 1]
<1>1. /\ fs \in Frames /\ n \in Nat /\ n > 0 /\ DOMAIN fs = 1 .. n /\ n \in 1 .. n
      /\ \A k \in 1 .. n : /\ fs[k] \in Calls
                           /\ fs[k].offset <= Len(macros[fs[k].macro])
  BY FrameFacts
<1>2. fs[n].offset \in Nat /\ Len(macros[fs[n].macro]) \in Nat /\ fs[n].macro \in MacroIds
  BY <1>1, FrameFacts
<1>3. /\ top \in Calls
      /\ top.macro = fs[n].macro /\ top.offset = fs[n].offset + 1
  BY <1>1, <1>2 DEF Calls
<1> HIDE DEF top
<1>4. next = [fs EXCEPT ![n] = top]
  BY DEF top
<1>5. /\ next \in Frames /\ Len(next) = n /\ next[n] = top
      /\ \A k \in 1 .. n : k # n => next[k] = fs[k]
  BY <1>1, <1>3, <1>4 DEF Frames
<1>6. DOMAIN next = 1 .. n /\ next # <<>>
  BY <1>1, <1>5, EmptySeq DEF Frames
<1> HIDE DEF next
<1>7. Within(next, macros)
  <2>1. ASSUME NEW k \in 1 .. n PROVE next[k].offset <= Len(macros[next[k].macro])
    <3>1. CASE k = n
      BY <1>2, <1>3, <1>5, <3>1
    <3>2. CASE k # n
      BY <1>1, <1>5, <3>2, Zenon
    <3> QED
      BY <3>1, <3>2
  <2> QED
    BY <1>5, <1>6, <2>1, Zenon DEF Within
<1>8. Shorter(next) = Shorter(fs)
  <2>1. \A k \in 1 .. n - 1 : next[k] = fs[k]
    <3>0. n \in Nat
      BY <1>1
    <3>1. \A k \in 1 .. n - 1 : k \in 1 .. n /\ k # n
      BY <3>0
    <3> QED
      BY <1>5, <3>1
  <2>2. Shorter(next) \in Frames /\ Shorter(fs) \in Frames
        /\ Len(Shorter(next)) = n - 1 /\ Len(Shorter(fs)) = n - 1
        /\ \A k \in 1 .. n - 1 : Shorter(next)[k] = next[k] /\ Shorter(fs)[k] = fs[k]
    BY <1>1, <1>5, ShorterFacts, Zenon
  <2> QED
    BY <2>1, <2>2, SeqEqual DEF Frames
<1> DEFINE rest == ToRun(Shorter(fs), macros)
           m == Len(macros[fs[n].macro])
<1>9. ToRun(fs, macros) = rest + (m - fs[n].offset) /\ rest \in Nat
  BY ToRunParts
<1>10. ToRun(next, macros) = rest + (m - (fs[n].offset + 1))
  <2>1. ToRun(next, macros)
          = ToRun(Shorter(next), macros)
               + (Len(macros[next[Len(next)].macro]) - next[Len(next)].offset)
    BY <1>6, <1>7, ToRunParts
  <2> QED
    BY <1>3, <1>5, <1>8, <2>1
<1>11. m \in Nat /\ fs[n].offset \in Nat /\ fs[n].offset < m
  BY <1>2
<1> HIDE DEF rest, m
<1>12. ToRun(next, macros) \in Nat /\ ToRun(fs, macros) = ToRun(next, macros) + 1
  BY <1>9, <1>10, <1>11
<1> QED
  BY <1>5, <1>7, <1>12 DEF next

\* A macro that is invoked.
LEMMA CallFacts ==
    ASSUME NEW macros \in Macros, NEW fs, Within(fs, macros), NEW id \in MacroIds
    PROVE  LET next == Append(fs, [macro |-> id, offset |-> 0])
           IN  /\ Within(next, macros) /\ Len(next) = Len(fs) + 1
               /\ ToRun(next, macros) = ToRun(fs, macros) + Len(macros[id])
<1> DEFINE top == [macro |-> id, offset |-> 0]
           next == Append(fs, top)
<1>1. top \in Calls /\ top.macro = id /\ top.offset = 0
  BY DEF Calls
<1> HIDE DEF top
<1>2. fs \in Frames /\ Len(fs) \in Nat /\ DOMAIN fs = 1 .. Len(fs)
  BY FrameFacts
<1>3. /\ next \in Frames /\ Len(next) = Len(fs) + 1 /\ next[Len(fs) + 1] = top
      /\ \A k \in 1 .. Len(fs) : next[k] = fs[k]
  BY <1>1, <1>2 DEF Frames
<1>4. DOMAIN next = 1 .. Len(fs) + 1 /\ next # <<>>
  BY <1>2, <1>3, EmptySeq DEF Frames
<1> HIDE DEF next
<1>5. Len(macros[id]) \in Nat
  BY DEF Macros
<1>6. Within(next, macros)
  <2>1. ASSUME NEW k \in 1 .. Len(fs) + 1 PROVE next[k].offset <= Len(macros[next[k].macro])
    <3>1. CASE k = Len(fs) + 1
      BY <1>1, <1>3, <1>5, <3>1
    <3>2. CASE k # Len(fs) + 1
      <4>1. k \in 1 .. Len(fs)
        BY <1>2, <3>2
      <4> QED
        BY <1>2, <1>3, <4>1 DEF Within
    <3> QED
      BY <3>1, <3>2
  <2> QED
    BY <1>3, <1>4, <2>1 DEF Within
<1>7. Shorter(next) = fs
  <2>1. Shorter(next) \in Frames /\ Len(Shorter(next)) = Len(fs)
        /\ \A k \in 1 .. Len(fs) : Shorter(next)[k] = next[k]
    <3>1. Len(next) > 0 /\ Len(next) - 1 = Len(fs)
      BY <1>2, <1>3
    <3> QED
      BY <1>3, <3>1, ShorterFacts
  <2> QED
    BY <1>2, <1>3, <2>1, SeqEqual DEF Frames
<1>8. /\ ToRun(next, macros)
           = ToRun(Shorter(next), macros)
                + (Len(macros[next[Len(next)].macro]) - next[Len(next)].offset)
      /\ ToRun(Shorter(next), macros) \in Nat
  BY <1>4, <1>6, ToRunParts
<1>9. ToRun(next, macros) = ToRun(fs, macros) + (Len(macros[id]) - 0)
  BY <1>1, <1>3, <1>7, <1>8
<1>10. ToRun(next, macros) = ToRun(fs, macros) + Len(macros[id])
  BY <1>5, <1>7, <1>8, <1>9
<1> QED
  BY <1>3, <1>6, <1>10 DEF next, top

-----------------------------------------------------------------------------
(* The inductive invariant. *)

Parsers == {"ground", "define", "ignore"}

Cleared(macros) == \A i \in MacroIds : \A k \in 1 .. Len(macros[i]) : macros[i][k] = "NUL"

\* A definition is parsed outside of any invocation.
Defining == parser = "define" => hasBuffer /\ frames = <<>> /\ RepeatOK(buf)

\* A buffer that was reset while it was in use has nothing left that could begin
\* a definition.
Released == ~hasBuffer /\ frames # <<>> => Cleared(buf.macros)

\* The calls are counted, and what has been run of an invocation together with
\* what is left is the length that was allowed.
Counting ==
    /\ Within(frames, buf.macros)
    /\ buf.invokedDepth = Len(frames) /\ Len(frames) <= MaxDepth
    /\ invoked \in Nat /\ (frames = <<>> => invoked = 0)
    /\ invoked + ToRun(frames, buf.macros) = buf.invokedSequenceLength
    /\ buf.invokedSequenceLength < MAX_SPACE

IInv ==
    /\ Accounted(buf)
    /\ hasBuffer \in BOOLEAN /\ writing \in BOOLEAN /\ parser \in Parsers
    /\ size \in 0 .. MaxString
    /\ Defining /\ Released /\ Counting

LEMMA InitIInv == Init => IInv
<1> SUFFICES ASSUME Init PROVE IInv
  OBVIOUS
<1>1. Accounted(buf) /\ buf.invokedDepth = 0 /\ buf.invokedSequenceLength = 0
  BY EmptyFacts DEF Init
<1>2. /\ hasBuffer \in BOOLEAN /\ writing \in BOOLEAN /\ parser \in Parsers
      /\ size \in 0 .. MaxString
  <2>1. 0 \in 0 .. MaxString
    BY MacroBounds
  <2> QED
    BY <2>1, Zenon DEF Init, Parsers
<1>3. Defining /\ Released
  BY DEF Init, Defining, Released
<1>4. Counting
  <2>1. Within(<<>>, buf.macros) /\ ToRun(<<>>, buf.macros) = 0 /\ Len(<<>>) = 0
    BY NothingToRun, EmptySeq
  <2>2. frames = <<>> /\ invoked = 0 /\ 0 < MAX_SPACE /\ 0 <= MaxDepth
    BY MacroBounds DEF Init
  <2> QED
    BY <1>1, <2>1, <2>2 DEF Counting
<1> QED
  BY <1>1, <1>2, <1>3, <1>4 DEF IInv

\* ESC ends the definition the parser is in, and within an invocation there is
\* none.
LEMMA InterruptedFacts ==
    ASSUME IInv
    PROVE  /\ Accounted(Interrupted) /\ Invoking(buf, Interrupted)
           /\ frames # <<>> => Interrupted = buf
<1>1. CASE parser = "define"
  BY <1>1, EndFacts DEF IInv, Defining, Interrupted
<1>2. CASE parser # "define"
  BY <1>2 DEF IInv, Interrupted, Invoking
<1> QED
  BY <1>1, <1>2

\* RIS within an invocation keeps the lengths of the macros.
LEMMA OverwrittenFacts ==
    ASSUME NEW b, Accounted(b)
    PROVE  /\ Accounted(Overwritten(b)) /\ Invoking(b, Overwritten(b))
           /\ \A i \in MacroIds : Len(Overwritten(b).macros[i]) = Len(b.macros[i])
           /\ Cleared(Overwritten(b).macros)
<1> DEFINE ms == [i \in MacroIds |-> [k \in DOMAIN b.macros[i] |-> "NUL"]]
<1>1. b \in Buffers /\ b.macros \in Macros /\ b.spaceUsed = Space(b.macros)
  BY DEF Accounted, Buffers
<1>2. \A i \in MacroIds : /\ ms[i] \in Seq(Tokens) /\ Len(ms[i]) = Len(b.macros[i])
                          /\ \A k \in 1 .. Len(ms[i]) : ms[i][k] = "NUL"
  <2> SUFFICES ASSUME NEW i \in MacroIds
               PROVE  /\ ms[i] \in Seq(Tokens) /\ Len(ms[i]) = Len(b.macros[i])
                      /\ \A k \in 1 .. Len(ms[i]) : ms[i][k] = "NUL"
    OBVIOUS
  <2>1. Len(b.macros[i]) \in Nat /\ DOMAIN b.macros[i] = 1 .. Len(b.macros[i])
    BY <1>1 DEF Macros
  <2>2. ms[i] = [k \in 1 .. Len(b.macros[i]) |-> "NUL"]
    BY <2>1
  <2>3. "NUL" \in Tokens
    BY DEF Tokens, Plain
  <2> HIDE DEF ms
  <2>4. ms[i] \in Seq(Tokens) /\ Len(ms[i]) = Len(b.macros[i])
    BY <2>1, <2>2, <2>3
  <2> QED
    BY <2>2, <2>4
<1>3. ms \in Macros
  <2>1. ms = [i \in MacroIds |-> ms[i]]
    OBVIOUS
  <2> HIDE DEF ms
  <2> QED
    BY <1>2, <2>1 DEF Macros
<1>4. Overwritten(b) = [b EXCEPT !.macros = ms]
  BY DEF Overwritten
<1> HIDE DEF ms
<1>5. Space(ms) = Space(b.macros)
  BY <1>1, <1>2, <1>3, SpaceOfLengths
<1>6. /\ Overwritten(b) \in Buffers /\ Overwritten(b).macros = ms
      /\ Overwritten(b).spaceUsed = b.spaceUsed /\ Invoking(b, Overwritten(b))
  BY <1>1, <1>3, <1>4 DEF Buffers, Invoking
<1> QED
  BY <1>1, <1>2, <1>5, <1>6 DEF Accounted, Cleared

\* What a token does to the nested calls: one more may begin, if the limits
\* allow it.
Begins(fs, b, id) ==
    /\ b.invokedDepth < MaxDepth
    /\ Len(b.macros[id]) < MAX_SPACE - b.invokedSequenceLength
    /\ buf'.macros = b.macros
    /\ buf'.invokedDepth = b.invokedDepth + 1
    /\ buf'.invokedSequenceLength = b.invokedSequenceLength + Len(b.macros[id])
    /\ frames' = Append(fs, [macro |-> id, offset |-> 0])

\* The macro that a token invokes.
LEMMA InvokeFacts ==
    ASSUME IInv, NEW token, InvokeMacro(token)
    PROVE  /\ token \in MacroIds /\ parser' = "ground" /\ hasBuffer' = hasBuffer
           /\ Accounted(buf')
           /\ \/ buf' = Interrupted /\ frames' = Advanced
              \/ hasBuffer /\ Begins(Advanced, Interrupted, token)
<1> DEFINE b == Interrupted
<1>1. Accounted(b)
  BY InterruptedFacts
<1>2. CASE ~MayInvoke(b, token)
  BY <1>1, <1>2 DEF InvokeMacro
<1>3. CASE MayInvoke(b, token)
  <2>1. /\ token \in MacroIds /\ parser' = "ground" /\ hasBuffer' = hasBuffer
        /\ buf' = [b EXCEPT !.invokedDepth = @ + 1,
                            !.invokedSequenceLength = @ + Len(b.macros[token])]
        /\ frames' = Append(Advanced, [macro |-> token, offset |-> 0])
    BY <1>3 DEF InvokeMacro
  <2>2. /\ b \in Buffers /\ b.spaceUsed = Space(b.macros)
        /\ b.invokedDepth \in Nat /\ b.invokedSequenceLength \in Nat
        /\ b.macros \in Macros
    BY <1>1 DEF Accounted, Buffers
  <2>3. Len(b.macros[token]) \in Nat
    BY <2>1, <2>2 DEF Macros
  <2> HIDE DEF b
  <2>4. /\ b.invokedDepth + 1 \in Nat
        /\ b.invokedSequenceLength + Len(b.macros[token]) \in Nat
    BY <2>2, <2>3
  <2>5. Accounted(buf')
    BY <2>1, <2>2, <2>4, Zenon DEF Accounted, Buffers
  <2>6. /\ buf'.macros = b.macros /\ buf'.invokedDepth = b.invokedDepth + 1
        /\ buf'.invokedSequenceLength = b.invokedSequenceLength + Len(b.macros[token])
    BY <2>1, <2>2 DEF Buffers
  <2>7. hasBuffer /\ Begins(Advanced, b, token)
    BY <1>3, <2>1, <2>6 DEF MayInvoke, Begins
  <2> QED
    BY <2>1, <2>5, <2>7 DEF b
<1> QED
  BY <1>2, <1>3

\* A token of the outer string.  Only here can a definition begin or go on.
LEMMA OuterToken ==
    ASSUME IInv, frames = <<>>, NEW token \in Tokens, Process(token)
    PROVE  /\ Accounted(buf') /\ hasBuffer' \in BOOLEAN /\ parser' \in Parsers
           /\ \/ /\ frames' = <<>> /\ buf'.invokedDepth = 0 /\ buf'.invokedSequenceLength = 0
                 /\ parser' = "define" => hasBuffer' /\ RepeatOK(buf')
              \/ /\ hasBuffer' /\ parser' = "ground"
                 /\ \E id \in MacroIds :
                       /\ Begins(<<>>, Interrupted, id)
                       /\ Interrupted.invokedDepth = 0 /\ Interrupted.invokedSequenceLength = 0
<1>1. Accounted(buf) /\ buf.invokedDepth = 0 /\ buf.invokedSequenceLength = 0
  <2>1. Within(<<>>, buf.macros) /\ ToRun(<<>>, buf.macros) = 0 /\ Len(<<>>) = 0
    BY NothingToRun, EmptySeq
  <2> QED
    BY <2>1 DEF IInv, Counting
<1>2. /\ Accounted(Interrupted)
      /\ Interrupted.invokedDepth = 0 /\ Interrupted.invokedSequenceLength = 0
  BY <1>1, InterruptedFacts DEF Invoking
<1>3. Advanced = <<>>
  BY DEF Advanced
<1>4. hasBuffer \in BOOLEAN /\ parser \in Parsers
  BY DEF IInv
<1>5. CASE ResetMode(token)
  <2>1. parser' = "ground" /\ frames' = <<>>
    BY <1>3, <1>5 DEF ResetMode
  <2>2. CASE token = "ris"
    <3>1. HardReset
      BY <1>5, <2>2 DEF ResetMode
    <3>2. buf' = buf \/ buf' = EmptyBuffer
      BY <1>1, <3>1 DEF HardReset
    <3>3. hasBuffer' = FALSE
      BY <3>1 DEF HardReset
    <3> QED
      BY <1>1, <2>1, <3>2, <3>3, EmptyFacts, Zenon DEF Parsers
  <2>3. CASE token # "ris"
    <3>1. buf' = Interrupted /\ hasBuffer' = hasBuffer
      BY <1>5, <2>3 DEF ResetMode
    <3> QED
      BY <1>2, <1>4, <2>1, <3>1 DEF Parsers
  <2> QED
    BY <2>2, <2>3
<1>6. CASE InvokeMacro(token)
  <2>1. /\ token \in MacroIds /\ parser' = "ground" /\ hasBuffer' = hasBuffer
        /\ Accounted(buf')
        /\ \/ buf' = Interrupted /\ frames' = Advanced
           \/ hasBuffer /\ Begins(Advanced, Interrupted, token)
    BY <1>6, InvokeFacts
  <2> QED
    BY <1>2, <1>3, <1>4, <2>1 DEF Parsers
<1>7. CASE DefineMacro(token)
  <2> DEFINE b == IF hasBuffer THEN Interrupted ELSE EmptyBuffer
  <2>1. Accounted(b) /\ b.invokedDepth = 0 /\ b.invokedSequenceLength = 0
    BY <1>2, EmptyFacts
  <2>2. PICK id \in MacroIds, deleteControl \in {"id", "all", "invalid"},
             encoding \in {"hex", "text", "invalid"} :
                LET r == InitParser(b, id, deleteControl, encoding)
                IN  /\ buf' = r.b
                    /\ parser' = IF r.ok THEN "define" ELSE "ignore"
    BY <1>7 DEF DefineMacro
  <2>3. hasBuffer' = TRUE /\ frames' = <<>>
    BY <1>3, <1>7 DEF DefineMacro
  <2> HIDE DEF b
  <2> DEFINE r == InitParser(b, id, deleteControl, encoding)
  <2>4. /\ r.ok \in BOOLEAN /\ Accounted(r.b) /\ Invoking(b, r.b)
        /\ r.ok => RepeatOK(r.b)
    BY <2>1, InitParserFacts
  <2>5. buf' = r.b /\ parser' = IF r.ok THEN "define" ELSE "ignore"
    BY <2>2
  <2> HIDE DEF r
  <2> QED
    BY <2>1, <2>3, <2>4, <2>5 DEF Invoking, Parsers
<1>8. CASE Character(token)
  <2>1. frames' = <<>> /\ hasBuffer' = hasBuffer
    BY <1>3, <1>8 DEF Character
  <2>2. CASE token = "st"
    <3>1. buf' = Interrupted /\ parser' = "ground"
      BY <1>8, <2>2 DEF Character, Plain
    <3> QED
      BY <1>2, <1>4, <2>1, <3>1 DEF Parsers
  <2>3. CASE token # "st" /\ token \in Plain /\ parser = "define"
    <3>1. PICK decoded \in Encoded :
              LET r == ParseDefinition(buf, token, decoded)
              IN  buf' = r.b /\ parser' = IF r.ok THEN "define" ELSE "ignore"
      BY <1>8, <2>3 DEF Character
    <3> DEFINE r == ParseDefinition(buf, token, decoded)
    <3>2. hasBuffer /\ RepeatOK(buf)
      BY <2>3 DEF IInv, Defining
    <3>3. Parsed(buf, r)
      BY <1>1, <2>3, <3>2, MacroNames, ParseDefinitionFacts
    <3>4. buf' = r.b /\ parser' = IF r.ok THEN "define" ELSE "ignore"
      BY <3>1
    <3> HIDE DEF r
    <3> QED
      BY <1>1, <2>1, <3>2, <3>3, <3>4 DEF Parsed, Invoking, Parsers
  <2>4. CASE token # "st" /\ ~(token \in Plain /\ parser = "define")
    <3>1. buf' = buf /\ parser' = parser /\ token \in Plain
      BY <1>8, <2>4 DEF Character
    <3> QED
      BY <1>1, <1>4, <2>1, <2>4, <3>1
  <2> QED
    BY <2>2, <2>3, <2>4
<1> QED
  BY <1>5, <1>6, <1>7, <1>8 DEF Process

\* A token of a macro: the macros keep their lengths, and no definition begins.
LEMMA NestedToken ==
    ASSUME IInv, frames # <<>>, Innermost.offset < Len(MacroText),
           Process(MacroText[Innermost.offset + 1])
    PROVE  /\ Accounted(buf') /\ hasBuffer' \in BOOLEAN
           /\ parser' \in Parsers \ {"define"}
           /\ \A i \in MacroIds : Len(buf'.macros[i]) = Len(buf.macros[i])
           /\ ~hasBuffer' => Cleared(buf'.macros)
           /\ \/ frames' = Advanced /\ Invoking(buf, buf')
              \/ \E id \in MacroIds : Begins(Advanced, buf, id)
<1> DEFINE token == MacroText[Innermost.offset + 1]
<1>1. /\ Accounted(buf) /\ buf.macros \in Macros /\ Within(frames, buf.macros)
      /\ hasBuffer \in BOOLEAN /\ buf.invokedDepth = Len(frames)
      /\ parser \in Parsers \ {"define"}
  BY DEF IInv, Accounted, Buffers, Counting, Defining
<1>2. /\ Len(frames) \in Nat /\ Len(frames) > 0
      /\ Innermost.macro \in MacroIds /\ Innermost.offset \in Nat
  BY <1>1, FrameFacts DEF Innermost
<1>3. Interrupted = buf
  BY InterruptedFacts
<1>4. buf.invokedDepth > 0
  BY <1>1, <1>2
<1>5. ~hasBuffer => Cleared(buf.macros)
  BY DEF IInv, Released
<1>6. ~hasBuffer => token = "NUL"
  <2>1. MacroText \in Seq(Tokens) /\ Innermost.offset + 1 \in 1 .. Len(MacroText)
    BY <1>1, <1>2 DEF MacroText, Macros
  <2> QED
    BY <1>2, <1>5, <2>1 DEF Cleared, MacroText
<1>7. Process(token)
  OBVIOUS
<1> HIDE DEF token
<1>8. CASE ResetMode(token)
  <2>1. parser' = "ground" /\ frames' = Advanced /\ token # "NUL"
    BY <1>8 DEF ResetMode
  <2>2. hasBuffer
    BY <1>1, <1>6, <2>1
  <2>3. CASE token = "ris"
    <3>1. HardReset
      BY <1>8, <2>3 DEF ResetMode
    <3>2. buf' = Overwritten(buf) /\ hasBuffer' = FALSE
      BY <1>4, <2>2, <3>1 DEF HardReset
    <3> QED
      BY <1>1, <2>1, <3>2, OverwrittenFacts, Zenon DEF Parsers
  <2>4. CASE token # "ris"
    <3>1. buf' = buf /\ hasBuffer' = hasBuffer
      BY <1>3, <1>8, <2>4 DEF ResetMode
    <3> QED
      BY <1>1, <2>1, <2>2, <3>1 DEF Parsers, Invoking
  <2> QED
    BY <2>3, <2>4
<1>9. CASE InvokeMacro(token)
  <2>1. /\ token \in MacroIds /\ parser' = "ground" /\ hasBuffer' = hasBuffer
        /\ Accounted(buf')
        /\ \/ buf' = buf /\ frames' = Advanced
           \/ hasBuffer /\ Begins(Advanced, buf, token)
    BY <1>3, <1>9, InvokeFacts
  <2>2. CASE buf' = buf /\ frames' = Advanced
    BY <1>1, <1>5, <2>1, <2>2 DEF Parsers, Invoking
  <2>3. CASE hasBuffer /\ Begins(Advanced, buf, token)
    <3>1. buf'.macros = buf.macros
      BY <2>3 DEF Begins
    <3> QED
      BY <1>1, <2>1, <2>3, <3>1 DEF Parsers
  <2> QED
    BY <2>1, <2>2, <2>3
<1>10. CASE DefineMacro(token)
  <2>1. hasBuffer
    BY <1>1, <1>6, <1>10 DEF DefineMacro
  <2>2. PICK id \in MacroIds, deleteControl \in {"id", "all", "invalid"},
             encoding \in {"hex", "text", "invalid"} :
                LET r == InitParser(buf, id, deleteControl, encoding)
                IN  /\ buf' = r.b
                    /\ parser' = IF r.ok THEN "define" ELSE "ignore"
    BY <1>3, <1>10, <2>1 DEF DefineMacro
  <2>3. hasBuffer' = TRUE /\ frames' = Advanced
    BY <1>10 DEF DefineMacro
  <2> DEFINE r == InitParser(buf, id, deleteControl, encoding)
  <2>4. /\ r.ok \in BOOLEAN
        /\ r.ok => buf.invokedDepth = 0
        /\ buf.invokedDepth > 0 => r.b = buf
    BY <1>1, InitParserFacts
  <2>5. buf' = r.b /\ parser' = IF r.ok THEN "define" ELSE "ignore"
    BY <2>2
  <2> HIDE DEF r
  <2>6. buf' = buf /\ parser' = "ignore"
    <3>1. buf.invokedDepth # 0
      BY <1>1, <1>2
    <3> QED
      BY <1>4, <2>4, <2>5, <3>1
  <2> QED
    BY <1>1, <2>3, <2>6 DEF Parsers, Invoking
<1>11. CASE Character(token)
  <2>1. frames' = Advanced /\ hasBuffer' = hasBuffer
    BY <1>11 DEF Character
  <2>2. buf' = buf /\ parser' \in {"ground", parser}
    BY <1>1, <1>3, <1>11 DEF Character
  <2> QED
    BY <1>1, <1>5, <2>1, <2>2 DEF Parsers, Invoking
<1> QED
  BY <1>7, <1>8, <1>9, <1>10, <1>11 DEF Process

\* The next call of a macro is within the limits.
LEMMA BeginsCounting ==
    ASSUME Accounted(buf'), NEW b, NEW fs, NEW id \in MacroIds, Begins(fs, b, id),
           b.macros \in Macros, Within(fs, b.macros),
           b.invokedDepth = Len(fs), b.invokedSequenceLength \in Nat,
           invoked' \in Nat, invoked' + ToRun(fs, b.macros) = b.invokedSequenceLength,
           ToRun(fs, b.macros) \in Nat
    PROVE  Counting' /\ frames' # <<>>
<1> DEFINE next == Append(fs, [macro |-> id, offset |-> 0])
<1>1. /\ frames' = next /\ buf'.macros = b.macros
      /\ buf'.invokedDepth = b.invokedDepth + 1 /\ b.invokedDepth < MaxDepth
      /\ buf'.invokedSequenceLength = b.invokedSequenceLength + Len(b.macros[id])
      /\ Len(b.macros[id]) < MAX_SPACE - b.invokedSequenceLength
  BY DEF Begins
<1>2. /\ Within(next, b.macros) /\ Len(next) = Len(fs) + 1
      /\ ToRun(next, b.macros) = ToRun(fs, b.macros) + Len(b.macros[id])
  BY CallFacts
<1>3. Len(fs) \in Nat /\ Len(b.macros[id]) \in Nat
  BY FrameFacts DEF Macros
<1> HIDE DEF next
<1>4. next # <<>>
  BY <1>2, <1>3, EmptySeq
<1>5. Within(frames', buf'.macros) /\ ToRun(frames', buf'.macros) = ToRun(next, b.macros)
  BY <1>1, <1>2
<1>6. buf'.invokedDepth = Len(frames') /\ Len(frames') <= MaxDepth
  BY <1>1, <1>2, <1>3, MacroBounds
<1>7. /\ invoked' + ToRun(frames', buf'.macros) = buf'.invokedSequenceLength
      /\ buf'.invokedSequenceLength < MAX_SPACE
  <2> DEFINE L == Len(b.macros[id])
             T == ToRun(fs, b.macros)
             S == b.invokedSequenceLength
             I == invoked'
  <2>1. /\ L \in Nat /\ T \in Nat /\ S \in Nat /\ I \in Nat /\ MAX_SPACE \in Nat
        /\ I + T = S /\ L < MAX_SPACE - S
    BY <1>1, <1>3, MacroBounds
  <2>2. ToRun(frames', buf'.macros) = T + L /\ buf'.invokedSequenceLength = S + L
    BY <1>1, <1>2, <1>5
  <2> HIDE DEF L, T, S, I
  <2>3. I + (T + L) = S + L /\ S + L < MAX_SPACE
    BY <2>1
  <2> QED
    BY <2>2, <2>3 DEF I
<1> QED
  BY <1>1, <1>4, <1>5, <1>6, <1>7 DEF Counting

LEMMA OuterKeeps ==
    ASSUME IInv, ProcessOuter
    PROVE  IInv'
<1>1. PICK token \in Tokens : Process(token)
  BY DEF ProcessOuter
<1>2. /\ frames = <<>> /\ size' = size + 1 /\ size < MaxString
      /\ invoked' = invoked /\ writing' = writing
  BY <1>1 DEF ProcessOuter, Process
<1>3. /\ Accounted(buf') /\ hasBuffer' \in BOOLEAN /\ parser' \in Parsers
      /\ \/ /\ frames' = <<>> /\ buf'.invokedDepth = 0 /\ buf'.invokedSequenceLength = 0
            /\ parser' = "define" => hasBuffer' /\ RepeatOK(buf')
         \/ /\ hasBuffer' /\ parser' = "ground"
            /\ \E id \in MacroIds :
                  /\ Begins(<<>>, Interrupted, id)
                  /\ Interrupted.invokedDepth = 0 /\ Interrupted.invokedSequenceLength = 0
  BY <1>1, <1>2, OuterToken
<1>4. size' \in 0 .. MaxString /\ writing' \in BOOLEAN
  BY <1>2, MacroBounds DEF IInv
<1>5. invoked = 0 /\ Len(<<>>) = 0 /\ 0 <= MaxDepth /\ 0 < MAX_SPACE
  BY <1>2, EmptySeq, MacroBounds DEF IInv, Counting
<1>6. CASE /\ frames' = <<>> /\ buf'.invokedDepth = 0 /\ buf'.invokedSequenceLength = 0
           /\ parser' = "define" => hasBuffer' /\ RepeatOK(buf')
  <2>1. Within(<<>>, buf'.macros) /\ ToRun(<<>>, buf'.macros) = 0
    BY NothingToRun
  <2>2. Counting'
    BY <1>2, <1>5, <1>6, <2>1 DEF Counting
  <2>3. Defining' /\ Released'
    BY <1>6 DEF Defining, Released, RepeatOK, ActiveMacro
  <2> QED
    BY <1>3, <1>4, <2>2, <2>3 DEF IInv, Accounted
<1>7. CASE /\ hasBuffer' /\ parser' = "ground"
           /\ \E id \in MacroIds :
                 /\ Begins(<<>>, Interrupted, id)
                 /\ Interrupted.invokedDepth = 0 /\ Interrupted.invokedSequenceLength = 0
  <2> DEFINE b == Interrupted
  <2>1. PICK id \in MacroIds : Begins(<<>>, b, id) /\ b.invokedDepth = 0
                               /\ b.invokedSequenceLength = 0
    BY <1>7
  <2>2. b.macros \in Macros
    BY InterruptedFacts DEF Accounted, Buffers
  <2> HIDE DEF b
  <2>3. Within(<<>>, b.macros) /\ ToRun(<<>>, b.macros) = 0
    BY NothingToRun
  <2>4. Counting'
    BY <1>2, <1>3, <1>5, <2>1, <2>2, <2>3, BeginsCounting
  <2>5. Defining' /\ Released'
    BY <1>7 DEF Defining, Released
  <2> QED
    BY <1>3, <1>4, <2>4, <2>5 DEF IInv, Accounted
<1> QED
  BY <1>3, <1>6, <1>7

LEMMA NestedKeeps ==
    ASSUME IInv, ProcessNested
    PROVE  /\ IInv'
           /\ \A i \in MacroIds : Len(buf'.macros[i]) = Len(buf.macros[i])
<1>1. /\ frames # <<>> /\ Innermost.offset < Len(MacroText)
      /\ Process(MacroText[Innermost.offset + 1])
      /\ invoked' = IF invoked < MAX_SPACE THEN invoked + 1 ELSE invoked
      /\ size' = size /\ writing' = writing
  BY DEF ProcessNested, Process
<1>2. /\ Accounted(buf') /\ hasBuffer' \in BOOLEAN
      /\ parser' \in Parsers \ {"define"}
      /\ \A i \in MacroIds : Len(buf'.macros[i]) = Len(buf.macros[i])
      /\ ~hasBuffer' => Cleared(buf'.macros)
      /\ \/ frames' = Advanced /\ Invoking(buf, buf')
         \/ \E id \in MacroIds : Begins(Advanced, buf, id)
  BY <1>1, NestedToken
<1>3. /\ buf \in Buffers /\ buf.macros \in Macros /\ buf'.macros \in Macros
      /\ buf.invokedSequenceLength \in Nat
  BY <1>2 DEF IInv, Accounted, Buffers
<1>4. /\ Within(frames, buf.macros)
      /\ buf.invokedDepth = Len(frames) /\ Len(frames) <= MaxDepth
      /\ invoked \in Nat
      /\ invoked + ToRun(frames, buf.macros) = buf.invokedSequenceLength
      /\ buf.invokedSequenceLength < MAX_SPACE
  BY DEF IInv, Counting
<1>5. Advanced = [frames EXCEPT ![Len(frames)].offset = @ + 1]
  BY <1>1 DEF Advanced
<1>6. /\ Within(Advanced, buf.macros) /\ Len(Advanced) = Len(frames)
      /\ ToRun(Advanced, buf.macros) \in Nat
      /\ ToRun(frames, buf.macros) = ToRun(Advanced, buf.macros) + 1
  BY <1>1, <1>3, <1>4, <1>5, AdvanceFacts, Zenon DEF Innermost, MacroText
<1>7. invoked' \in Nat /\ invoked' + ToRun(Advanced, buf.macros) = buf.invokedSequenceLength
  <2>1. invoked < MAX_SPACE
    BY <1>3, <1>4, <1>6, MacroBounds
  <2>2. invoked' = invoked + 1
    BY <1>1, <2>1
  <2> QED
    BY <1>4, <1>6, <2>2
<1>8. Counting' /\ frames' # <<>>
  <2>1. CASE frames' = Advanced /\ Invoking(buf, buf')
    <3>1. Within(Advanced, buf'.macros) /\ ToRun(Advanced, buf'.macros) = ToRun(Advanced, buf.macros)
      BY <1>2, <1>3, <1>6, ToRunOfLengths
    <3>2. Len(frames) \in Nat /\ Len(frames) > 0
      BY <1>1, <1>3, <1>4, FrameFacts
    <3>3. Advanced # <<>>
      BY <1>6, <3>2, EmptySeq
    <3> QED
      BY <1>4, <1>6, <1>7, <2>1, <3>1, <3>3 DEF Counting, Invoking
  <2>2. CASE \E id \in MacroIds : Begins(Advanced, buf, id)
    <3>1. PICK id \in MacroIds : Begins(Advanced, buf, id)
      BY <2>2
    <3>2. buf.invokedDepth = Len(Advanced)
      BY <1>4, <1>6
    <3> QED
      BY <1>2, <1>3, <1>6, <1>7, <3>1, <3>2, BeginsCounting
  <2> QED
    BY <1>2, <2>1, <2>2
<1>9. Defining' /\ Released'
  BY <1>2, <1>8 DEF Defining, Released, Cleared
<1>10. parser' \in Parsers /\ size' \in 0 .. MaxString /\ writing' \in BOOLEAN
  BY <1>1, <1>2 DEF IInv
<1> QED
  BY <1>2, <1>8, <1>9, <1>10 DEF IInv, Accounted

\* The macro has been run: what is left is left to the calls around it.
LEMMA ReturnKeeps ==
    ASSUME IInv, ReturnFromMacro
    PROVE  /\ IInv'
           /\ frames' # <<>> => buf'.macros = buf.macros
<1> DEFINE depth == buf.invokedDepth - 1
<1>1. /\ frames # <<>> /\ Innermost.offset = Len(MacroText)
      /\ frames' = Shorter(frames)
      /\ invoked' = IF Len(frames) = 1 THEN 0 ELSE invoked
      /\ hasBuffer' = hasBuffer /\ parser' = parser /\ size' = size /\ writing' = writing
  BY DEF ReturnFromMacro, Shorter
<1>2. buf' = CASE depth > 0 -> [buf EXCEPT !.invokedDepth = depth]
               [] depth = 0 /\ hasBuffer ->
                    [buf EXCEPT !.invokedDepth = 0, !.invokedSequenceLength = 0]
               [] OTHER -> EmptyBuffer
  BY DEF ReturnFromMacro
<1>3. /\ buf \in Buffers /\ buf.macros \in Macros /\ Accounted(buf)
      /\ buf.invokedSequenceLength \in Nat
  BY DEF IInv, Accounted, Buffers
<1>4. /\ Within(frames, buf.macros)
      /\ buf.invokedDepth = Len(frames) /\ Len(frames) <= MaxDepth
      /\ invoked \in Nat
      /\ invoked + ToRun(frames, buf.macros) = buf.invokedSequenceLength
      /\ buf.invokedSequenceLength < MAX_SPACE
  BY DEF IInv, Counting
<1>5. /\ Within(Shorter(frames), buf.macros) /\ Len(Shorter(frames)) = Len(frames) - 1
      /\ Len(frames) \in Nat /\ Len(frames) > 0
      /\ ToRun(frames, buf.macros)
           = ToRun(Shorter(frames), buf.macros)
                + (Len(buf.macros[frames[Len(frames)].macro]) - frames[Len(frames)].offset)
      /\ ToRun(Shorter(frames), buf.macros) \in Nat
  BY <1>1, <1>3, <1>4, ToRunParts
<1>6. ToRun(frames, buf.macros) = ToRun(Shorter(frames), buf.macros)
  <2>1. /\ Len(buf.macros[frames[Len(frames)].macro]) = frames[Len(frames)].offset
        /\ frames[Len(frames)].offset \in Nat
    BY <1>1, <1>3, <1>4, FrameFacts DEF Innermost, MacroText
  <2> QED
    BY <1>5, <2>1
<1>7. parser # "define"
  BY <1>1 DEF IInv, Defining
<1>8. /\ hasBuffer \in BOOLEAN /\ parser \in Parsers /\ size \in 0 .. MaxString
      /\ writing \in BOOLEAN
  BY DEF IInv
<1>9. CASE Len(frames) > 1
  <2>1. depth > 0 /\ depth \in Nat /\ depth = Len(frames) - 1
    BY <1>4, <1>5, <1>9
  <2>2. buf' = [buf EXCEPT !.invokedDepth = depth]
    BY <1>2, <2>1
  <2> HIDE DEF depth
  <2>3. /\ Accounted(buf') /\ buf'.macros = buf.macros /\ buf'.invokedDepth = depth
        /\ buf'.invokedSequenceLength = buf.invokedSequenceLength
    BY <1>3, <2>1, <2>2 DEF Accounted, Buffers
  <2>4. invoked' = invoked
    BY <1>1, <1>5, <1>9
  <2>5. frames' # <<>>
    BY <1>1, <1>5, <2>1, EmptySeq
  <2>6. Counting'
    <3>1. Len(frames') = depth /\ depth <= MaxDepth
      BY <1>1, <1>4, <1>5, <2>1, MacroBounds
    <3> QED
      BY <1>1, <1>4, <1>5, <1>6, <2>3, <2>4, <2>5, <3>1 DEF Counting
  <2>7. Defining' /\ Released'
    <3>1. ~hasBuffer => Cleared(buf.macros)
      BY <1>1 DEF IInv, Released
    <3> QED
      BY <1>1, <1>7, <2>3, <3>1 DEF Defining, Released, Cleared
  <2> QED
    BY <1>1, <1>8, <2>3, <2>6, <2>7 DEF IInv, Accounted
<1>10. CASE Len(frames) = 1
  <2>1. depth = 0 /\ ~(depth > 0)
    BY <1>4, <1>10
  <2>2. \/ buf' = [buf EXCEPT !.invokedDepth = 0, !.invokedSequenceLength = 0]
        \/ buf' = EmptyBuffer
    BY <1>2, <2>1
  <2>3. Accounted(buf') /\ buf'.invokedDepth = 0 /\ buf'.invokedSequenceLength = 0
    <3>1. CASE buf' = [buf EXCEPT !.invokedDepth = 0, !.invokedSequenceLength = 0]
      BY <1>3, <3>1, Zenon DEF Accounted, Buffers
    <3>2. CASE buf' = EmptyBuffer
      BY <3>2, EmptyFacts
    <3> QED
      BY <2>2, <3>1, <3>2
  <2>4. frames' = <<>> /\ invoked' = 0
    <3>1. Len(Shorter(frames)) = 0 /\ Shorter(frames) \in Frames
      BY <1>5, <1>10 DEF Within
    <3> QED
      BY <1>1, <1>10, <3>1, EmptySeq DEF Frames
  <2>5. Counting'
    <3>1. Within(<<>>, buf'.macros) /\ ToRun(<<>>, buf'.macros) = 0 /\ Len(<<>>) = 0
      BY NothingToRun, EmptySeq
    <3>2. 0 <= MaxDepth /\ 0 < MAX_SPACE
      BY MacroBounds
    <3> QED
      BY <2>3, <2>4, <3>1, <3>2 DEF Counting
  <2>6. Defining' /\ Released'
    BY <1>1, <1>7, <2>4 DEF Defining, Released
  <2> QED
    BY <1>1, <1>8, <2>3, <2>4, <2>5, <2>6 DEF IInv, Accounted
<1> QED
  BY <1>5, <1>9, <1>10

\* A step that leaves the macros and the parser alone.
LEMMA MacroFrame ==
    ASSUME IInv, UNCHANGED <<buf, hasBuffer, parser, frames, invoked>>,
           size' \in 0 .. MaxString, writing' \in BOOLEAN
    PROVE  IInv'
<1>1. Accounted(buf)' /\ Defining' /\ Released' /\ Counting'
  BY DEF IInv, Defining, Released, Counting
<1> QED
  BY <1>1 DEF IInv

LEMMA NextIInv == IInv /\ [Next]_vars => IInv'
<1> SUFFICES ASSUME IInv, [Next]_vars PROVE IInv'
  OBVIOUS
<1>0. size \in 0 .. MaxString /\ writing \in BOOLEAN /\ 0 \in 0 .. MaxString
  BY MacroBounds DEF IInv
<1>1. CASE UNCHANGED vars
  BY <1>0, <1>1, MacroFrame DEF vars
<1>2. CASE BeginWriteCharsVT
  BY <1>0, <1>2, MacroFrame DEF BeginWriteCharsVT
<1>3. CASE EndWriteCharsVT
  BY <1>0, <1>3, MacroFrame, Zenon DEF EndWriteCharsVT
<1> QED
  BY <1>1, <1>2, <1>3, OuterKeeps, NestedKeeps, ReturnKeeps DEF Next

-----------------------------------------------------------------------------
(* What follows from it. *)

\* Every write, definition, invocation and reset keeps the buffer accounted for
\* and the running invocations within what was counted for them.
THEOREM InvariantHolds == Spec => []IInv
BY InitIInv, NextIInv, PTL DEF Spec

\* For every number of macros and every amount of space: _spaceUsed is the space
\* the macros take, after every definition that is cut short, refused or repeated
\* (_appendToActiveMacro, _deleteMacro, _applyPendingRepeat).
THEOREM SpaceIsAccountedHolds == Spec => []SpaceIsAccounted
<1>1. IInv => SpaceIsAccounted
  <2> SUFFICES ASSUME IInv PROVE SpaceIsAccounted
    OBVIOUS
  <2>1. /\ buf.macros \in [MacroIds -> Seq(Tokens)] /\ buf.spaceUsed = Space(buf.macros)
        /\ buf.spaceUsed \in 0 .. MAX_SPACE
        /\ buf.parseState \in {"text", "hex", "hex2", "repeat"}
        /\ buf.repeatCount \in 0 .. MAX_PARAMETER_VALUE /\ buf.invokedDepth \in Nat
    BY DEF IInv, Accounted, Buffers, Macros
  <2>2. buf.invokedDepth \in 0 .. MaxDepth
    BY <2>1, MacroBounds DEF IInv, Counting
  <2>3. \A k \in DOMAIN frames : frames[k].macro \in MacroIds
    BY FrameFacts DEF IInv, Counting, Accounted, Buffers
  <2>4. parser = "define" => buf.repeatStart <= Len(ActiveMacro(buf)) \/ ~buf.repeatPending
    BY DEF IInv, Defining, RepeatOK
  <2> QED
    BY <2>1, <2>2, <2>3, <2>4 DEF IInv, SpaceIsAccounted, TypeOK, Parsers
<1> QED
  BY <1>1, InvariantHolds, PTL

\* For every depth and every amount of space: the buffer counts the nested calls
\* of ProcessString, and one invocation runs no more text than its limit allows,
\* however macros invoke each other (MacroBuffer::InvokeMacro).
THEOREM InvocationIsBoundedHolds == Spec => []InvocationIsBounded
<1>1. IInv => InvocationIsBounded
  <2> SUFFICES ASSUME IInv PROVE InvocationIsBounded
    OBVIOUS
  <2>1. ToRun(frames, buf.macros) \in Nat
    <3>1. CASE frames = <<>>
      BY <3>1, NothingToRun
    <3>2. CASE frames # <<>>
      <4> DEFINE n == Len(frames)
                 rest == ToRun(Shorter(frames), buf.macros)
                 top == Len(buf.macros[frames[n].macro]) - frames[n].offset
      <4>1. buf.macros \in Macros /\ Within(frames, buf.macros)
        BY DEF IInv, Counting, Accounted, Buffers
      <4>2. ToRun(frames, buf.macros) = rest + top /\ rest \in Nat
        BY <3>2, <4>1, ToRunParts
      <4>3. top \in Nat
        BY <3>2, <4>1, FrameFacts
      <4> HIDE DEF rest, top
      <4> QED
        BY <4>2, <4>3
    <3> QED
      BY <3>1, <3>2
  <2>2. buf.invokedSequenceLength \in Nat
    BY DEF IInv, Accounted, Buffers
  <2> QED
    BY <2>1, <2>2 DEF IInv, Counting, InvocationIsBounded
<1> QED
  BY <1>1, InvariantHolds, PTL

\* No step changes the length of a macro that is being run, whatever its text
\* defines, invokes or resets: the view that ProcessString walks over stays valid
\* (InvokeMacro, ClearMacrosIfInUse).
THEOREM MacroInUseIsStableHolds == Spec => MacroInUseIsStable
<1> DEFINE Stable == \A k \in DOMAIN frames \cap DOMAIN frames' :
                        LET id == frames[k].macro
                        IN  Len(buf'.macros[id]) = Len(buf.macros[id])
<1>1. IInv /\ [Next]_vars => [Stable]_vars
  <2> SUFFICES ASSUME IInv, Next PROVE Stable
    OBVIOUS
  <2>1. \A k \in DOMAIN frames : frames[k].macro \in MacroIds
    BY FrameFacts DEF IInv, Counting, Accounted, Buffers
  <2>2. CASE ProcessNested
    BY <2>1, <2>2, NestedKeeps
  <2>3. CASE ReturnFromMacro
    <3>1. frames' # <<>> => buf'.macros = buf.macros
      BY <2>3, ReturnKeeps
    <3>2. frames' = <<>> => DOMAIN frames' = {}
      BY EmptySeq
    <3> QED
      BY <3>1, <3>2
  <2>4. CASE ProcessOuter
    <3>1. DOMAIN frames = {}
      BY <2>4, EmptySeq DEF ProcessOuter
    <3> QED
      BY <3>1
  <2>5. CASE BeginWriteCharsVT \/ EndWriteCharsVT
    BY <2>5, Zenon DEF BeginWriteCharsVT, EndWriteCharsVT
  <2> QED
    BY <2>2, <2>3, <2>4, <2>5 DEF Next
<1> QED
  BY <1>1, InvariantHolds, PTL DEF Spec, MacroInUseIsStable

=============================================================================
