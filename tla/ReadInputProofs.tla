-------------------------- MODULE ReadInputProofs --------------------------
(***************************************************************************)
(* ReadInput implements Input, for a text of any length and a buffer of    *)
(* any size.  The argument is Window: between calls, and in the middle of  *)
(* one, the buffer holds the bytes from the cursor to the reader's offset. *)
(***************************************************************************)
EXTENDS ReadInput, TLAPS

-----------------------------------------------------------------------------
(* IInv holds initially and every action keeps it.                         *)

LEMMA InitInv ==
  ASSUME Init
  PROVE  IInv
<1> USE ReadInputAssumption
<1>1. TypeOK
  <2>1. shown \in Seq(Nat) /\ Len(shown) = 0
    BY DEF Init
  <2>2. buffer \in [Slots -> Nat]
    BY DEF Init
  <2>3. /\ offset = 0 /\ bufferLen = 0 /\ request = 0 /\ start = 0 /\ cursor = 0
        /\ failed \in BOOLEAN
    BY DEF Init
  <2> QED  BY <2>1, <2>2, <2>3 DEF TypeOK
<1>2. Window
  BY DEF Init, Window, Filled, Slots
<1> QED  BY <1>1, <1>2 DEF IInv

LEMMA CallPeekInv ==
  ASSUME IInv, CallPeek
  PROVE  IInv'
<1> USE ReadInputAssumption DEF IInv, CallPeek, sourceVars, lexerVars
<1>1. TypeOK'
  BY DEF TypeOK, Slots
<1>2. Window'
  BY DEF TypeOK, Window, Filled
<1> QED  BY <1>1, <1>2

LEMMA ReadSomeInv ==
  ASSUME IInv, ReadSome
  PROVE  IInv'
<1> USE ReadInputAssumption
<1>1. PICK n \in 1..(MaxPeek - start) :
        /\ offset + n <= Size
        /\ buffer' = [i \in Slots |->
                        IF i \in start..(start + n - 1) THEN offset + (i - start) ELSE buffer[i]]
        /\ start' = start + n
        /\ offset' = offset + n
  BY DEF ReadSome
<1>2. start < request /\ request # 0
  BY DEF IInv, TypeOK, ReadSome
<1>3. UNCHANGED <<bufferLen, request, cursor, shown, failed>>
  BY DEF ReadSome, lexerVars
<1>4. TypeOK'
  BY <1>1, <1>2, <1>3 DEF IInv, TypeOK, Slots
<1>5. Window'
  <2> SUFFICES ASSUME ~failed'
               PROVE  /\ offset' = cursor' + Filled'
                      /\ bufferLen' <= Filled'
                      /\ \A i \in 0..(Filled' - 1) : buffer'[i] = cursor' + i
                      /\ \A i \in 1..Len(shown') : shown'[i] = cursor' + i - 1
    BY DEF Window
  <2>1. /\ offset = cursor + start /\ bufferLen <= start
        /\ \A i \in 0..(start - 1) : buffer[i] = cursor + i
        /\ \A i \in 1..Len(shown) : shown[i] = cursor + i - 1
    BY <1>2, <1>3 DEF IInv, Window, Filled
  <2>2. Filled' = start + n
    BY <1>1, <1>2, <1>3 DEF Filled
  <2>3. ASSUME NEW i \in 0..(Filled' - 1)
        PROVE  buffer'[i] = cursor' + i
    BY <1>1, <1>3, <2>1, <2>2, <2>3 DEF IInv, TypeOK, Slots
  <2> QED  BY <1>1, <1>3, <2>1, <2>2, <2>3 DEF IInv, TypeOK
<1> QED  BY <1>4, <1>5 DEF IInv

\* What a peek() that ends returns: the bytes that are filled.
LEMMA ReturnFacts ==
  ASSUME IInv, Return, request # 0
  PROVE  /\ shown' \in Seq(Nat) /\ Len(shown') = start
         /\ ~failed => \A i \in 1..start : shown'[i] = cursor + i - 1
<1> USE ReadInputAssumption
<1>1. shown' = [i \in 1..start |-> buffer[i - 1]]
  BY DEF Return
<1>2. start \in 0..MaxPeek /\ buffer \in [Slots -> Nat]
  BY DEF IInv, TypeOK
<1>3. \A i \in 1..start : i - 1 \in Slots /\ buffer[i - 1] \in Nat
  BY <1>2 DEF Slots
<1>4. shown' \in Seq(Nat) /\ Len(shown') = start
  BY <1>1, <1>2, <1>3
<1>5. ASSUME ~failed, NEW i \in 1..start
      PROVE  shown'[i] = cursor + i - 1
  <2>1. \A j \in 0..(start - 1) : buffer[j] = cursor + j
    BY <1>5 DEF IInv, Window, Filled
  <2>2. buffer[i - 1] = cursor + (i - 1)
    BY <1>2, <2>1
  <2> QED  BY <1>1, <2>2 DEF IInv, TypeOK
<1> QED  BY <1>4, <1>5

LEMMA ReturnInv ==
  ASSUME IInv, Return, request # 0
  PROVE  IInv'
<1> USE ReadInputAssumption
<1>1. UNCHANGED <<offset, buffer, start, cursor, failed>> /\ request' = 0 /\ bufferLen' = start
  BY DEF Return, sourceVars
<1>2. TypeOK'
  BY <1>1, ReturnFacts DEF IInv, TypeOK
<1>3. Window'
  BY <1>1, ReturnFacts DEF IInv, TypeOK, Window, Filled
<1> QED  BY <1>2, <1>3 DEF IInv

LEMMA ReadErrorInv ==
  ASSUME IInv, ReadError
  PROVE  IInv'
<1> USE ReadInputAssumption
<1>1. TypeOK'
  BY DEF IInv, TypeOK, ReadError, sourceVars
<1>2. Window'
  BY DEF Window, ReadError
<1> QED  BY <1>1, <1>2 DEF IInv

LEMMA AdvanceFacts ==
  ASSUME IInv, NEW n \in 1..Len(shown)
  PROVE  /\ SubSeq(shown, n + 1, Len(shown)) \in Seq(Nat)
         /\ Len(SubSeq(shown, n + 1, Len(shown))) = Len(shown) - n
         /\ \A i \in 1..(Len(shown) - n) : SubSeq(shown, n + 1, Len(shown))[i] = shown[n + i]
<1>1. shown \in Seq(Nat) /\ Len(shown) \in Nat
  BY DEF IInv, TypeOK
<1> QED  BY <1>1

LEMMA AdvanceInv ==
  ASSUME IInv, Advance
  PROVE  IInv'
<1> USE ReadInputAssumption
<1>1. PICK n \in 1..Len(shown) :
        /\ cursor' = cursor + n
        /\ shown' = SubSeq(shown, n + 1, Len(shown))
        /\ buffer' = [i \in Slots |-> IF i + n \in Slots THEN buffer[i + n] ELSE 0]
        /\ bufferLen' = bufferLen - n
  BY DEF Advance
<1>2. request = 0 /\ UNCHANGED <<offset, request, start, failed>>
  BY DEF Advance, peekVars
<1>3. Len(shown) \in Nat /\ Len(shown) <= bufferLen /\ n \in Nat
  BY DEF IInv, TypeOK
<1>4. /\ shown' \in Seq(Nat) /\ Len(shown') = Len(shown) - n
      /\ \A i \in 1..Len(shown') : shown'[i] = shown[n + i]
  BY <1>1, <1>3, AdvanceFacts
<1>5. TypeOK'
  BY <1>1, <1>2, <1>3, <1>4 DEF IInv, TypeOK, Slots
<1>6. Window'
  <2>0. Filled' = bufferLen' /\ bufferLen' <= bufferLen' /\ failed' = failed
    BY <1>1, <1>2, <1>3 DEF Filled, IInv, TypeOK
  <2> SUFFICES ASSUME ~failed
               PROVE  /\ offset' = cursor' + bufferLen'
                      /\ \A i \in 0..(bufferLen' - 1) : buffer'[i] = cursor' + i
                      /\ \A i \in 1..Len(shown') : shown'[i] = cursor' + i - 1
    BY <2>0 DEF Window
  <2>1. /\ offset = cursor + bufferLen
        /\ \A i \in 0..(bufferLen - 1) : buffer[i] = cursor + i
        /\ \A i \in 1..Len(shown) : shown[i] = cursor + i - 1
    BY <1>2 DEF IInv, Window, Filled
  <2>2. offset' = cursor' + bufferLen'
    BY <1>1, <1>2, <1>3, <2>1 DEF IInv, TypeOK
  <2>3. ASSUME NEW i \in 0..(bufferLen' - 1)
        PROVE  buffer'[i] = cursor' + i
    <3>1. i + n \in 0..(bufferLen - 1) /\ i \in Slots /\ i + n \in Slots
      BY <1>1, <1>3 DEF IInv, TypeOK, Slots
    <3> QED  BY <1>1, <1>3, <2>1, <3>1 DEF IInv, TypeOK
  <2>4. ASSUME NEW i \in 1..Len(shown')
        PROVE  shown'[i] = cursor' + i - 1
    <3>1. n + i \in 1..Len(shown)
      BY <1>1, <1>3, <1>4
    <3>2. shown'[i] = cursor + (n + i) - 1
      BY <1>4, <2>1, <3>1
    <3> QED  BY <1>1, <1>3, <3>2 DEF IInv, TypeOK
  <2> QED  BY <2>2, <2>3, <2>4
<1> QED  BY <1>5, <1>6 DEF IInv

LEMMA NextInv ==
  ASSUME IInv, [Next]_vars
  PROVE  IInv'
<1>1. CASE CallPeek   BY <1>1, CallPeekInv
<1>2. CASE ReadSome   BY <1>2, ReadSomeInv
<1>3. CASE ReadEnd
  BY <1>3, ReturnInv, ReadInputAssumption DEF ReadEnd, IInv, TypeOK
<1>4. CASE PeekDone   BY <1>4, ReturnInv DEF PeekDone
<1>5. CASE ReadError  BY <1>5, ReadErrorInv
<1>6. CASE Advance    BY <1>6, AdvanceInv
<1>7. CASE UNCHANGED vars
  BY <1>7 DEF vars, sourceVars, peekVars, lexerVars, IInv, TypeOK, Window, Filled
<1> QED  BY <1>1, <1>2, <1>3, <1>4, <1>5, <1>6, <1>7 DEF Next

THEOREM Invariance == Spec => []IInv
<1>1. Init => IInv
  BY InitInv
<1>2. IInv /\ [Next]_vars => IInv'
  BY NextInv
<1> QED  BY <1>1, <1>2, PTL DEF Spec

\* The fields keep their types, and neither assertion of ReadInput fails.
THEOREM TypeCorrect == Spec => []TypeOK
<1>1. IInv => TypeOK
  BY DEF IInv
<1> QED  BY <1>1, Invariance, PTL

-----------------------------------------------------------------------------
(* Every step is a step of Input or changes nothing that the lexer sees.   *)

\* A peek() that has what it was asked for, or all there is, is Input's.
LEMMA ReturnIsPeek ==
  ASSUME IInv, ~failed, Return, request # 0, start < request => offset = Size
  PROVE  Text!Peek(request)
<1> USE ReadInputAssumption
<1>1. offset = cursor + start /\ UNCHANGED <<cursor, failed>>
  BY DEF IInv, Window, Filled, Return
<1>2. start \in 0..(Size - cursor)
  BY <1>1 DEF IInv, TypeOK
<1>3. start < request => start = Size - cursor
  BY <1>1 DEF IInv, TypeOK
<1>4. shown' = [i \in 1..start |-> buffer[i - 1]] /\ \A i \in 1..start : shown'[i] = cursor + i - 1
  BY ReturnFacts DEF Return
<1>5. shown' = Text!Ahead(start)
  BY <1>4 DEF Text!Ahead
<1> QED  BY <1>1, <1>2, <1>3, <1>5 DEF Text!Peek

\* A failed lexer is left alone.
Quiet == failed => request = 0 /\ shown = <<>>

LEMMA StepImplements ==
  ASSUME IInv, Quiet, [Next]_vars
  PROVE  Quiet' /\ [Text!Next]_(Text!inputVars)
<1> USE ReadInputAssumption DEF Text!inputVars
<1>1. CASE CallPeek
  BY <1>1 DEF CallPeek, lexerVars, Quiet
<1>2. CASE ReadSome
  BY <1>2 DEF ReadSome, lexerVars, Quiet
<1>3. CASE ReadEnd \/ PeekDone
  <2>1. /\ Return /\ request # 0 /\ request \in 1..MaxPeek
        /\ start < request => offset = Size
    BY <1>3 DEF ReadEnd, PeekDone, IInv, TypeOK
  <2>2. ~failed
    BY <2>1 DEF Quiet
  <2>3. Text!Peek(request)
    BY <2>1, <2>2, ReturnIsPeek
  <2>4. ~failed'
    BY <2>1, <2>2 DEF Return
  <2> QED  BY <2>1, <2>2, <2>3, <2>4 DEF Text!Next, Quiet
<1>4. CASE ReadError
  <2>1. request # 0
    BY <1>4 DEF ReadError, IInv, TypeOK
  <2>2. Text!Fail /\ ~failed
    BY <1>4, <2>1 DEF ReadError, Text!Fail, Quiet
  <2> QED  BY <1>4, <2>2 DEF Text!Next, Quiet, ReadError
<1>5. CASE Advance
  <2>1. PICK n \in 1..Len(shown) :
          cursor' = cursor + n /\ shown' = SubSeq(shown, n + 1, Len(shown))
    BY <1>5 DEF Advance
  <2>2. shown # <<>> /\ ~failed
    <3>1. Len(shown) \in Nat /\ Len(shown) # 0
      BY <2>1 DEF IInv, TypeOK
    <3> QED  BY <3>1 DEF Quiet
  <2>3. UNCHANGED failed
    BY <1>5 DEF Advance
  <2>4. Text!Advance(n)
    BY <2>1, <2>3 DEF Text!Advance
  <2> QED  BY <2>2, <2>3, <2>4 DEF Text!Next, Quiet
<1>6. CASE UNCHANGED vars
  BY <1>6 DEF vars, peekVars, lexerVars, Quiet
<1> QED  BY <1>1, <1>2, <1>3, <1>4, <1>5, <1>6 DEF Next

\* The lexer is shown the bytes of the text in order, each exactly once,
\* whatever the reader does.
THEOREM ImplementsInput == Spec => IsInput
<1>1. Init => Quiet /\ Text!Init
  BY DEF Init, Quiet, Text!Init
<1>2. IInv /\ Quiet /\ [Next]_vars => Quiet' /\ [Text!Next]_(Text!inputVars)
  BY StepImplements
<1> QED  BY <1>1, <1>2, Invariance, PTL DEF Spec, IsInput, Text!Spec

=============================================================================
