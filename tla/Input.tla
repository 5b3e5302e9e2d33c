------------------------------- MODULE Input -------------------------------
(***************************************************************************)
(* What lexer::Input promises the lexer: it shows the bytes that follow    *)
(* the cursor, as many as were asked for or all there are, until reading   *)
(* fails for good.  A byte is known by its offset in the text.             *)
(***************************************************************************)
EXTENDS Naturals, Sequences

CONSTANTS
  Size,    \* bytes in the text, any number
  MaxPeek  \* char::MAX_LEN_UTF8 (not 0), the most that peek() can be asked for

VARIABLES
  cursor,  \* Lexer::cursor
  shown,   \* what peek() returned last, less what was advanced over since
  failed   \* the lexer was told of an IO error

inputVars == <<cursor, shown, failed>>

Ahead(count) == [i \in 1..count |-> cursor + i - 1]

Peek(n) ==
  /\ \E count \in 0..(Size - cursor) :
       /\ count < n => count = Size - cursor
       /\ shown' = Ahead(count)
  /\ UNCHANGED <<cursor, failed>>

Advance(n) ==
  /\ cursor' = cursor + n
  /\ shown' = SubSeq(shown, n + 1, Len(shown))
  /\ UNCHANGED failed

Fail ==
  /\ failed' = TRUE
  /\ shown' = <<>>
  /\ UNCHANGED cursor

Init == cursor = 0 /\ shown = <<>> /\ failed = FALSE

Next ==
  /\ ~failed
  /\ \/ \E n \in 1..MaxPeek : Peek(n)
     \/ \E n \in 1..Len(shown) : Advance(n)
     \/ Fail

Spec == Init /\ [][Next]_inputVars

=============================================================================
