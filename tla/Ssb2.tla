-------------------------------- MODULE Ssb2 --------------------------------
(***************************************************************************)
(* SmolStrBuilder2 of just-kdl, which makes every string and number: up to *)
(* MaxInline bytes are kept in a buffer, more in a String.  Truncation and *)
(* the move to the heap leave bytes behind in the buffer, so that what is  *)
(* behind its size is not always zero.                                     *)
(*                                                                         *)
(* string is the string that was asked for, in characters.                 *)
(***************************************************************************)
EXTENDS Integers, Sequences, SequencesExt

CONSTANTS
  MaxInline,          \* bytes in the buffer
  MaxBytes,           \* bound on the length of the string
  Release,            \* debug assertions are compiled out
  PushAfterTruncate   \* a string that was truncated may grow again

ASSUME Ssb2Assumption ==
  /\ MaxInline \in Nat \ {0} /\ MaxBytes \in Nat
  /\ Release \in BOOLEAN /\ PushAfterTruncate \in BOOLEAN

VARIABLES
  variant,       \* "Inline" or "Heap"
  size, buffer,  \* of Inline
  heap,          \* the bytes of Heap
  string, truncated

ssb2Vars == <<variant, size, buffer, heap, string, truncated>>

\* The bytes in the UTF-8 encoding of a character.
Width == [c \in {"#", "quote", "nbsp", "quad"} |->
            IF c = "nbsp" THEN 2 ELSE IF c = "quad" THEN 3 ELSE 1]
Chars == DOMAIN Width
Ascii == {c \in Chars : Width[c] = 1}

\* A byte says which character it is of and where in it; the first of a
\* character is no continuation.
ZeroByte == <<"#0", 1>>
Encoded(c) == [k \in 1 .. Width[c] |-> <<c, k>>]
Continues(byte) == byte[2] > 1

Encoding(s) == FlattenSeq([i \in DOMAIN s |-> Encoded(s[i])])

-----------------------------------------------------------------------------

AsBytes == IF variant = "Inline" THEN SubSeq(buffer, 1, size) ELSE heap

\* What reserve(n) does to an inline string that does not fit any more.
Moves(n) == variant = "Inline" /\ size + n > MaxInline

\* The buffer with bytes written behind its size.
Written(bytes) ==
  [i \in 1 .. MaxInline |->
     IF i - size \in DOMAIN bytes THEN bytes[i - size] ELSE buffer[i]]

\* Mutant: the move to the heap forgets what is in the buffer.
AppendBytesMoved(bytes, written) ==
  IF variant = "Inline" /\ ~Moves(Len(bytes))
  THEN /\ buffer' = (IF written THEN Written(bytes) ELSE buffer)
       /\ size' = size + Len(bytes)
       /\ UNCHANGED <<variant, heap>>
  ELSE /\ variant' = "Heap" /\ heap' = heap \o bytes
       /\ UNCHANGED <<size, buffer>>

\* push_str(), push_repeated() and, where the bytes are written, push().
AppendBytes(bytes, written) ==
  IF variant = "Inline" /\ ~Moves(Len(bytes))
  THEN /\ buffer' = (IF written THEN Written(bytes) ELSE buffer)
       /\ size' = size + Len(bytes)
       /\ UNCHANGED <<variant, heap>>
  ELSE /\ variant' = "Heap" /\ heap' = AsBytes \o bytes
       /\ UNCHANGED <<size, buffer>>

Extend(s, written) ==
  /\ Len(AsBytes) + Len(Encoding(s)) <= MaxBytes
  /\ truncated => PushAfterTruncate
  /\ AppendBytes(Encoding(s), written)
  /\ string' = string \o s
  /\ UNCHANGED truncated

\* The character is encoded in what only a debug build evaluates.
Push(c) == Extend(<<c>>, ~Release)

PushStr(s) == Extend(s, TRUE)

PushRepeated(c, n) == Extend([i \in 1 .. n |-> c], TRUE)

FloorCharBoundary(bytes, index) ==
  IF index >= Len(bytes) THEN Len(bytes)
  ELSE CHOOSE i \in 0 .. index :
         /\ i = 0 \/ ~Continues(bytes[i + 1])
         /\ \A j \in i + 1 .. index : Continues(bytes[j + 1])

\* The characters that fit in len bytes.
Fitting(len) ==
  LET fits == {n \in 0 .. Len(string) : Len(Encoding(SubSeq(string, 1, n))) <= len}
  IN  SubSeq(string, 1, CHOOSE n \in fits : \A m \in fits : m <= n)

\* Inline, the whole buffer is searched for the boundary, not only the string.
TruncateFloor(len) ==
  /\ IF variant = "Inline"
     THEN /\ size' = FloorCharBoundary(buffer, IF len < size THEN len ELSE size)
          /\ UNCHANGED heap
     ELSE /\ heap' = SubSeq(heap, 1, FloorCharBoundary(heap, len))
          /\ UNCHANGED size
  /\ string' = Fitting(len) /\ truncated' = TRUE
  /\ UNCHANGED <<variant, buffer>>

\* The first character has to be ASCII.
Swap0(c) ==
  /\ string # <<>> /\ string[1] \in Ascii
  /\ IF variant = "Inline"
     THEN buffer' = [buffer EXCEPT ![1] = <<c, 1>>] /\ UNCHANGED heap
     ELSE heap' = [heap EXCEPT ![1] = <<c, 1>>] /\ UNCHANGED buffer
  /\ string' = [string EXCEPT ![1] = c]
  /\ UNCHANGED <<variant, size, truncated>>

Ssb2Init ==
  /\ variant = "Inline" /\ size = 0 /\ buffer = [i \in 1 .. MaxInline |-> ZeroByte]
  /\ heap = <<>> /\ string = <<>> /\ truncated = FALSE

Ssb2Next ==
  \/ \E c \in Chars : Push(c)
  \/ \E s \in SeqOf(Chars, 2) : PushStr(s)
  \/ \E c \in Ascii, n \in 0 .. MaxInline : PushRepeated(c, n)
  \/ \E len \in 0 .. MaxBytes : TruncateFloor(len)
  \/ \E c \in Ascii : Swap0(c)

Ssb2Spec == Ssb2Init /\ [][Ssb2Next]_ssb2Vars

-----------------------------------------------------------------------------

\* Whatever the calls and wherever the bytes are kept, the string is the one
\* that was asked for: whole characters, none lost at the move to the heap and
\* none left over by a truncation.
Faithful ==
  /\ AsBytes = Encoding(string)
  /\ variant = "Inline" => size <= MaxInline
=============================================================================
