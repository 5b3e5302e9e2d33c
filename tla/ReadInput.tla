----------------------------- MODULE ReadInput -----------------------------
(***************************************************************************)
(* lexer::ReadInput: the bytes of a std::io::Read, which come in pieces of *)
(* any size, are collected in a buffer of MaxPeek bytes until a peek() has *)
(* enough.  A read that is interrupted is tried again and changes nothing. *)
(*                                                                         *)
(* An error in the middle of a peek() loses the bytes which that call had  *)
(* read already; Lexer::peek answers it by never looking again.            *)
(***************************************************************************)
EXTENDS Naturals, Sequences

CONSTANTS Size, MaxPeek

ASSUME ReadInputAssumption == Size \in Nat /\ MaxPeek \in Nat \ {0}

VARIABLES
  offset,                 \* bytes taken from the reader
  buffer, bufferLen,      \* ReadInput::buffer, ReadInput::buffer_len
  request, start,         \* peek()'s argument (0: not running) and local
  cursor, shown, failed   \* the lexer, see Input

sourceVars == <<offset, buffer>>
peekVars   == <<request, start>>
lexerVars  == <<cursor, shown, failed>>
vars == <<sourceVars, bufferLen, peekVars, lexerVars>>

Slots == 0..(MaxPeek - 1)

-----------------------------------------------------------------------------

CallPeek ==
  /\ request = 0 /\ ~failed
  /\ request' \in 1..MaxPeek
  /\ start' = bufferLen
  /\ UNCHANGED <<sourceVars, bufferLen, lexerVars>>

\* Mutant: the bytes go to the front of the buffer.
ReadSomeToFront ==
  /\ start < request
  /\ \E n \in 1..(MaxPeek - start) :
       /\ offset + n <= Size
       /\ buffer' = [i \in Slots |-> IF i < n THEN offset + i ELSE buffer[i]]
       /\ start' = start + n
       /\ offset' = offset + n
  /\ UNCHANGED <<bufferLen, request, lexerVars>>

\* Ok(n): read() fills the rest of the buffer as far as it has bytes ready.
ReadSome ==
  /\ start < request
  /\ \E n \in 1..(MaxPeek - start) :
       /\ offset + n <= Size
       /\ buffer' = [i \in Slots |->
                       IF i \in start..(start + n - 1) THEN offset + (i - start) ELSE buffer[i]]
       /\ start' = start + n
       /\ offset' = offset + n
  /\ UNCHANGED <<bufferLen, request, lexerVars>>

\* Mutant: buffer_len is only brought up to what was asked for.
ReturnRequested ==
  /\ request' = 0
  /\ bufferLen' = IF start < request THEN start ELSE request
  /\ shown' = [i \in 1..start |-> buffer[i - 1]]
  /\ UNCHANGED <<sourceVars, start, cursor, failed>>

Return ==
  /\ request' = 0
  /\ bufferLen' = start
  /\ shown' = [i \in 1..start |-> buffer[i - 1]]
  /\ UNCHANGED <<sourceVars, start, cursor, failed>>

\* Ok(0) breaks the loop.
ReadEnd == start < request /\ offset = Size /\ Return

PeekDone == request # 0 /\ start >= request /\ Return

\* Err: buffer_len stays; Lexer::next_skip becomes IrrecoverableError.
ReadError ==
  /\ start < request
  /\ request' = 0
  /\ failed' = TRUE
  /\ shown' = <<>>
  /\ UNCHANGED <<sourceVars, bufferLen, start, cursor>>

\* The lexer advances over bytes it has been shown; the buffer, one integer in
\* little-endian order, is shifted by as many.
Advance ==
  /\ request = 0
  /\ \E n \in 1..Len(shown) :
       /\ cursor' = cursor + n
       /\ shown' = SubSeq(shown, n + 1, Len(shown))
       /\ buffer' = [i \in Slots |-> IF i + n \in Slots THEN buffer[i + n] ELSE 0]
       /\ bufferLen' = bufferLen - n
  /\ UNCHANGED <<offset, peekVars, failed>>

Init ==
  /\ offset = 0
  /\ buffer = [i \in Slots |-> 0] /\ bufferLen = 0
  /\ request = 0 /\ start = 0
  /\ cursor = 0 /\ shown = <<>> /\ failed = FALSE

Next == CallPeek \/ ReadSome \/ ReadEnd \/ PeekDone \/ ReadError \/ Advance

Spec == Init /\ [][Next]_vars

-----------------------------------------------------------------------------

\* The fields and locals have their types, and both assertions hold: peek() has
\* room for what it is asked for, and advance() has what it is to drop.
TypeOK ==
  /\ offset \in 0..Size
  /\ buffer \in [Slots -> Nat]
  /\ bufferLen \in 0..MaxPeek
  /\ request \in 0..MaxPeek /\ start \in 0..MaxPeek
  /\ cursor \in Nat
  /\ shown \in Seq(Nat) /\ Len(shown) <= bufferLen
  /\ failed \in BOOLEAN

\* The bytes in the buffer, those of the running call included.
Filled == IF request = 0 THEN bufferLen ELSE start

\* The buffer holds the bytes from the cursor to the reader's offset, in order.
Window ==
  ~failed =>
    /\ offset = cursor + Filled
    /\ bufferLen <= Filled
    /\ \A i \in 0..(Filled - 1) : buffer[i] = cursor + i
    /\ \A i \in 1..Len(shown) : shown[i] = cursor + i - 1

IInv == TypeOK /\ Window

Text == INSTANCE Input

\* However the reader cuts the text up, the lexer is shown the bytes of the
\* text in order, each exactly once, as many as it asked for unless the text
\* ends, and nothing after an error.
IsInput == Text!Spec

=============================================================================
