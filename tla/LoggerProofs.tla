---------------------------- MODULE LoggerProofs ----------------------------
(***************************************************************************)
(* What the logger's outputs have in common for any threads, calls and     *)
(* nesting.  Every step changes the frames of one thread: its top moves on *)
(* (Moved), some of its frames are left (Cut), or one is added (Entered).  *)
(* Only a thread whose top is in the console's lock writes to the console, *)
(* or Settings::init when nobody is.                                       *)
(***************************************************************************)
EXTENDS Logger, SequenceTheorems, FiniteSetTheorems, TLAPS

\* Below its top a thread waits for a message or for the panic handler.
Below ==
  \A t \in Threads : \A k \in 1..Depth(t) :
    k < Depth(t) => frames[t][k].at \in Messages \union {"handler"}

\* Calls have their thread and numbers in the order in which they were made.
Numbered ==
  /\ \A t \in Threads : \A k \in 1..Depth(t) :
       frames[t][k].call[1] = t /\ frames[t][k].call[2] <= calls
  /\ \A t \in Threads : \A j, k \in 1..Depth(t) :
       j # k => frames[t][j].call # frames[t][k].call
  /\ \A i \in 1..Len(console) : console[i].call # <<>> => console[i].call[2] <= calls

\* Settings::init writes to the console once.
InitShown == setup \in {"logger", "level", "done", "failed"}
ShownOnce ==
  \A i, k \in 1..Len(console) :
    console[i].call = <<>> => InitShown /\ (console[k].call = <<>> => i = k)

OneHolder == \A t, u \in Threads : Holds(t) /\ Holds(u) => t = u

\* A call has nothing on the console before it has the lock, and while it has
\* it, nobody else has written since it began.
Placed ==
  \A t \in Threads : \A k \in 1..Depth(t) : \A i \in 1..Len(console) :
    console[i].call = frames[t][k].call =>
      /\ frames[t][k].at \in Locked \union {"handler"}
      /\ frames[t][k].at \in Locked =>
           \A j \in i..Len(console) : console[j].call # <<>> /\ console[j].call[1] = t

\* No thread has written between two pieces of another's call.
Whole ==
  \A i, k \in 1..Len(console) :
    i < k /\ console[i].call = console[k].call =>
      \A j \in i..k : console[j].call # <<>> /\ console[j].call[1] = console[i].call[1]

Console == Below /\ Numbered /\ ShownOnce /\ OneHolder /\ Placed /\ Whole

-----------------------------------------------------------------------------
(* The frames.                                                             *)

Others(t) == \A u \in Threads \ {t} : frames'[u] = frames[u]

Moved(t, point) ==
  /\ Others(t)
  /\ Len(frames'[t]) = Depth(t)
  /\ \A k \in 1..Depth(t) : k < Depth(t) => frames'[t][k] = frames[t][k]
  /\ frames'[t][Depth(t)].call = Top(t).call /\ frames'[t][Depth(t)].day = Top(t).day
  /\ frames'[t][Depth(t)].panic = Top(t).panic /\ frames'[t][Depth(t)].at = point

Cut(t) ==
  /\ Others(t)
  /\ Len(frames'[t]) < Depth(t)
  /\ \A k \in 1..Len(frames'[t]) : frames'[t][k] = frames[t][k]

Entered(t, point) ==
  /\ Others(t)
  /\ Len(frames'[t]) = Depth(t) + 1
  /\ \A k \in 1..Depth(t) : frames'[t][k] = frames[t][k]
  /\ frames'[t][Depth(t) + 1].call = <<t, calls + 1>>
  /\ frames'[t][Depth(t) + 1].at = point

FramesOK ==
  /\ frames \in [Threads -> Seq(Frames)]
  /\ \A t \in Threads : Depth(t) <= MaxNesting

\* A thread in a call has a top frame.
LEMMA TopFrame ==
  ASSUME TypeOK, NEW t \in Threads, frames[t] # <<>>
  PROVE  Depth(t) \in Nat \ {0} /\ Top(t) \in Frames
<1>1. frames[t] \in Seq(Frames)  BY DEF TypeOK
<1>2. Depth(t) \in Nat \ {0}  BY <1>1, EmptySeq DEF Depth
<1> QED  BY <1>1, <1>2, ElementOfSeq DEF Top, Depth

\* Only the nesting of the thread that moved can have changed.
LEMMA FramesFit ==
  ASSUME TypeOK, NEW t \in Threads, Others(t), frames' \in [Threads -> Seq(Frames)],
         Len(frames'[t]) <= MaxNesting
  PROVE  FramesOK'
<1>1. \A u \in Threads : u # t => frames'[u] = frames[u]  BY DEF Others
<1>2. \A u \in Threads : Len(frames'[u]) <= MaxNesting  BY <1>1 DEF TypeOK, Depth
<1> QED  BY <1>2 DEF FramesOK, Depth

\* Another top, with the same call.
LEMMA TopReplaced ==
  ASSUME TypeOK, NEW t \in Threads, frames[t] # <<>>, NEW f \in Frames,
         f.call = Top(t).call, f.day = Top(t).day, f.panic = Top(t).panic,
         frames' = [frames EXCEPT ![t] = [frames[t] EXCEPT ![Depth(t)] = f]]
  PROVE  Moved(t, f.at) /\ FramesOK'
<1> DEFINE s == [frames[t] EXCEPT ![Depth(t)] = f]
<1>1. frames \in [Threads -> Seq(Frames)] /\ frames[t] \in Seq(Frames)  BY DEF TypeOK
<1>2. Depth(t) \in 1..Len(frames[t])  BY TopFrame DEF Depth
<1>3. /\ s \in Seq(Frames) /\ Len(s) = Len(frames[t])
      /\ \A j \in 1..Len(frames[t]) : s[j] = IF j = Depth(t) THEN f ELSE frames[t][j]
  BY <1>1, <1>2, ExceptSeq
<1>4. frames' = [frames EXCEPT ![t] = s]  OBVIOUS
<1> HIDE DEF s
<1>5. frames' \in [Threads -> Seq(Frames)] /\ frames'[t] = s
  BY <1>1, <1>3, <1>4
<1>6. Others(t)  BY <1>1, <1>4 DEF Others
<1>7. FramesOK'  BY <1>1, <1>3, <1>5, <1>6 DEF FramesOK, Others, Depth, TypeOK
<1>8. Moved(t, f.at)
  BY <1>1, <1>2, <1>3, <1>5, <1>6 DEF Moved, Depth
<1> QED  BY <1>7, <1>8

LEMMA GotoMoves ==
  ASSUME TypeOK, NEW t \in Threads, frames[t] # <<>>, NEW point \in Points, Goto(t, point)
  PROVE  Moved(t, point) /\ FramesOK'
<1> DEFINE f == [Top(t) EXCEPT !.at = point]
<1>1. Top(t) \in Frames  BY TopFrame
<1>2. f \in Frames /\ f.call = Top(t).call /\ f.day = Top(t).day /\ f.panic = Top(t).panic
      /\ f.at = point
  BY <1>1 DEF Frames
<1>3. frames' = [frames EXCEPT ![t] = [frames[t] EXCEPT ![Depth(t)] = f]]
  BY DEF Goto, Top
<1> HIDE DEF f
<1> QED  BY <1>2, <1>3, TopReplaced

LEMMA StampMoves ==
  ASSUME TypeOK, NEW t \in Threads, frames[t] # <<>>, NEW date \in BOOLEAN, Stamp(t, date)
  PROVE  Moved(t, IF date THEN "fileDate" ELSE "fileHead") /\ FramesOK'
<1> DEFINE p == IF date THEN "fileDate" ELSE "fileHead"
           f == [Top(t) EXCEPT !.date = date, !.at = p]
<1>1. Top(t) \in Frames  BY TopFrame
<1>2. p \in Points  BY DEF Points
<1>3. f \in Frames /\ f.call = Top(t).call /\ f.day = Top(t).day /\ f.panic = Top(t).panic
      /\ f.at = p
  BY <1>1, <1>2 DEF Frames
<1>4. frames' = [frames EXCEPT ![t] = [frames[t] EXCEPT ![Depth(t)] = f]]
  BY DEF Stamp, Top
<1> HIDE DEF f, p
<1>5. Moved(t, p) /\ FramesOK'  BY <1>3, <1>4, TopReplaced
<1> QED  BY <1>5 DEF p

LEMMA PopCuts ==
  ASSUME TypeOK, NEW t \in Threads, frames[t] # <<>>, Pop(t)
  PROVE  Cut(t) /\ FramesOK'
<1> DEFINE s == SubSeq(frames[t], 1, Depth(t) - 1)
<1>1. frames \in [Threads -> Seq(Frames)] /\ frames[t] \in Seq(Frames)  BY DEF TypeOK
<1>2. Depth(t) \in Nat \ {0} /\ Depth(t) = Len(frames[t])  BY TopFrame DEF Depth
<1>3. \A i \in 1..(Depth(t) - 1) : frames[t][i] \in Frames
  BY <1>1, <1>2, ElementOfSeq
<1>4. /\ s \in Seq(Frames)
      /\ Len(s) = IF 1 <= Depth(t) - 1 THEN Depth(t) - 1 - 1 + 1 ELSE 0
      /\ \A i \in 1..(Depth(t) - 1 - 1 + 1) : s[i] = frames[t][1 + i - 1]
  BY <1>2, <1>3, SubSeqProperties
<1>5. Len(s) = Depth(t) - 1 /\ \A i \in 1..Len(s) : s[i] = frames[t][i]
  BY <1>2, <1>4
<1>6. frames' = [frames EXCEPT ![t] = s]  BY DEF Pop
<1> HIDE DEF s
<1>7. frames' \in [Threads -> Seq(Frames)] /\ frames'[t] = s /\ Others(t)
  BY <1>1, <1>4, <1>6 DEF Others
<1>8. Cut(t)  BY <1>2, <1>5, <1>7 DEF Cut
<1>9. Len(frames'[t]) <= MaxNesting
  BY <1>2, <1>5, <1>7, LoggerAssumption DEF TypeOK
<1> QED  BY <1>7, <1>8, <1>9, FramesFit

LEMMA ClearCuts ==
  ASSUME TypeOK, NEW t \in Threads, frames[t] # <<>>, frames' = [frames EXCEPT ![t] = <<>>]
  PROVE  Cut(t) /\ FramesOK' /\ Len(frames'[t]) = 0
<1>1. frames \in [Threads -> Seq(Frames)]  BY DEF TypeOK
<1>2. Depth(t) \in Nat \ {0}  BY TopFrame
<1>3. <<>> \in Seq(Frames) /\ Len(<<>>) = 0  BY EmptySeq
<1>4. frames' \in [Threads -> Seq(Frames)] /\ frames'[t] = <<>> /\ Others(t)
  BY <1>1, <1>3 DEF Others
<1>5. Len(frames'[t]) = 0  BY <1>3, <1>4
<1>6. Cut(t)  BY <1>2, <1>4, <1>5 DEF Cut
<1>7. Len(frames'[t]) <= MaxNesting  BY <1>5, LoggerAssumption
<1> QED  BY <1>4, <1>5, <1>6, <1>7, FramesFit

LEMMA EnterEnters ==
  ASSUME TypeOK, NEW t \in Threads, NEW panic \in BOOLEAN, NEW point \in Points,
         Enter(t, panic, point)
  PROVE  Entered(t, point) /\ FramesOK' /\ calls' \in 0..MaxCalls
         /\ frames'[t][Depth(t) + 1].day = today
<1> DEFINE f == [call |-> <<t, calls + 1>>, panic |-> panic, day |-> today, date |-> FALSE,
                 at |-> point]
           s == Append(frames[t], f)
<1>1. frames \in [Threads -> Seq(Frames)] /\ frames[t] \in Seq(Frames)  BY DEF TypeOK
<1>2. MaxCalls \in Nat /\ MaxNesting \in Nat /\ calls \in 0..MaxCalls /\ calls + 1 \in 1..MaxCalls
      /\ Depth(t) < MaxNesting /\ Depth(t) \in Nat /\ today \in Days
  BY <1>1, LenProperties, LoggerAssumption DEF Enter, TypeOK, Depth
<1>3. f \in Frames  BY <1>2 DEF Frames, Calls
<1>4. /\ s \in Seq(Frames) /\ Len(s) = Depth(t) + 1 /\ s[Depth(t) + 1] = f
      /\ \A i \in 1..Depth(t) : s[i] = frames[t][i]
  BY <1>1, <1>3, AppendProperties DEF Depth
<1>5. frames' = [frames EXCEPT ![t] = s]  BY DEF Enter
<1>6. f.call = <<t, calls + 1>> /\ f.at = point /\ f.day = today  OBVIOUS
<1> HIDE DEF f, s
<1>7. frames' \in [Threads -> Seq(Frames)] /\ frames'[t] = s /\ Others(t)
  BY <1>1, <1>4, <1>5 DEF Others
<1>8. calls' \in 0..MaxCalls  BY <1>2 DEF Enter
<1>9. Entered(t, point)  BY <1>4, <1>6, <1>7 DEF Entered
<1>10. Len(frames'[t]) <= MaxNesting  BY <1>2, <1>4, <1>7
<1> QED  BY <1>4, <1>6, <1>7, <1>8, <1>9, <1>10, FramesFit

-----------------------------------------------------------------------------
(* The console.                                                            *)

\* Moved or Cut, as far as the console is concerned.
Shrinks(t) ==
  /\ Others(t)
  /\ Len(frames'[t]) <= Depth(t)
  /\ \A k \in 1..Len(frames'[t]) :
       /\ frames'[t][k].call = frames[t][k].call
       /\ k < Depth(t) => frames'[t][k] = frames[t][k]

\* The top is still there.
Stays(t) == Len(frames'[t]) = Depth(t)

LEMMA MovedShrinks ==
  ASSUME TypeOK, NEW t \in Threads, frames[t] # <<>>, NEW point, Moved(t, point)
  PROVE  Shrinks(t) /\ frames'[t][Depth(t)].at = point
<1>1. Depth(t) \in Nat  BY TopFrame
<1> QED  BY <1>1 DEF Moved, Shrinks, Top

LEMMA CutShrinks ==
  ASSUME TypeOK, FramesOK', NEW t \in Threads, frames[t] # <<>>, Cut(t)
  PROVE  Shrinks(t) /\ ~Stays(t)
<1>1. Depth(t) \in Nat  BY TopFrame
<1>2. Len(frames'[t]) \in Nat  BY LenProperties DEF FramesOK
<1> QED  BY <1>1, <1>2 DEF Cut, Shrinks, Stays

\* Every frame that is left was there, and is as it was unless it is the top of
\* the thread that moved.
LEMMA Fewer ==
  ASSUME TypeOK, FramesOK', NEW t \in Threads, Shrinks(t), NEW u \in Threads
  PROVE  /\ Depth(u) \in Nat /\ Depth(u)' \in Nat
         /\ u # t => Depth(u)' = Depth(u)
         /\ Depth(u)' <= Depth(u)
         /\ \A k \in 1..Depth(u)' :
              /\ k \in 1..Depth(u)
              /\ frames'[u][k].call = frames[u][k].call
              /\ u # t \/ k < Depth(t) => frames'[u][k] = frames[u][k]
<1>1. frames[u] \in Seq(Frames) /\ frames'[u] \in Seq(Frames)  BY DEF TypeOK, FramesOK
<1>2. Depth(u) \in Nat /\ Depth(u)' \in Nat  BY <1>1, LenProperties DEF Depth
<1>3. CASE u = t  BY <1>2, <1>3 DEF Shrinks, Depth
<1>4. CASE u # t
  <2>1. frames'[u] = frames[u]  BY <1>4 DEF Shrinks, Others
  <2> QED  BY <1>2, <1>4, <2>1 DEF Depth
<1> QED  BY <1>3, <1>4

LEMMA BelowFewer ==
  ASSUME TypeOK, FramesOK', NEW t \in Threads, Shrinks(t), Below
  PROVE  Below'
<1> SUFFICES ASSUME NEW u \in Threads, NEW k \in 1..Depth(u)', k < Depth(u)'
             PROVE  frames'[u][k].at \in Messages \union {"handler"}
  BY DEF Below, Depth
<1>1. k \in 1..Depth(u) /\ k < Depth(u) /\ frames'[u][k] = frames[u][k]
  BY Fewer
<1> QED  BY <1>1 DEF Below

LEMMA NumberedFewer ==
  ASSUME TypeOK, FramesOK', NEW t \in Threads, Shrinks(t), Numbered, calls' = calls,
         \A i \in 1..Len(console') : console'[i].call # <<>> => console'[i].call[2] <= calls
  PROVE  Numbered'
<1>1. \A u \in Threads : \A k \in 1..Depth(u)' :
        k \in 1..Depth(u) /\ frames'[u][k].call = frames[u][k].call
  BY Fewer
<1>2. \A u \in Threads : \A k \in 1..Depth(u)' :
        frames'[u][k].call[1] = u /\ frames'[u][k].call[2] <= calls'
  BY <1>1 DEF Numbered
<1>3. \A u \in Threads : \A j, k \in 1..Depth(u)' :
        j # k => frames'[u][j].call # frames'[u][k].call
  BY <1>1 DEF Numbered
<1> QED  BY <1>2, <1>3 DEF Numbered, Depth

\* A call is none of no thread.
LEMMA IsCall ==
  ASSUME NEW c \in Calls
  PROVE  c # <<>> /\ c[1] \in Threads /\ c[2] \in 1..MaxCalls
<1>1. PICK t \in Threads, n \in 1..MaxCalls : c = <<t, n>>  BY DEF Calls
<1> QED  BY <1>1

LEMMA FrameCall ==
  ASSUME TypeOK, NEW t \in Threads, NEW k \in 1..Depth(t)
  PROVE  frames[t][k] \in Frames /\ frames[t][k].call \in Calls
<1>1. frames[t] \in Seq(Frames)  BY DEF TypeOK
<1>2. frames[t][k] \in Frames  BY <1>1, ElementOfSeq DEF Depth
<1> QED  BY <1>2 DEF Frames

\* Nothing is written: a call goes on, or leaves.
LEMMA Quiet ==
  ASSUME TypeOK, FramesOK', Console, NEW t \in Threads, frames[t] # <<>>, Shrinks(t),
         console' = console, calls' = calls, setup' = setup,
         Stays(t) =>
           /\ Top(t).at \notin Locked \union {"handler"}
           /\ frames'[t][Depth(t)].at \in Locked => \A u \in Threads \ {t} : ~Holds(u)
  PROVE  Console'
<1>1. Below'  BY BelowFewer DEF Console
<1>2. Numbered'  BY NumberedFewer DEF Console, Numbered
<1>3. ShownOnce'  BY DEF Console, ShownOnce, InitShown
<1>4. OneHolder'
  <2> SUFFICES ASSUME NEW u \in Threads, NEW v \in Threads, Holds(u)', Holds(v)'
               PROVE  u = v
    BY DEF OneHolder
  <2> DEFINE Raised == Stays(t) /\ frames'[t][Depth(t)].at \in Locked
  <2>1. \A w \in Threads : Holds(w)' => Holds(w) \/ (w = t /\ Raised)
    <3> SUFFICES ASSUME NEW w \in Threads, Holds(w)', ~Holds(w)
                 PROVE  w = t /\ Raised
      OBVIOUS
    <3>1. PICK k \in 1..Depth(w)' : frames'[w][k].at \in Locked  BY DEF Holds, Depth
    <3>2. k \in 1..Depth(w) /\ (w # t \/ k < Depth(t) => frames'[w][k] = frames[w][k])
          /\ Depth(w) \in Nat /\ Depth(w)' \in Nat /\ Depth(w)' <= Depth(w)
      BY Fewer
    <3>3. w = t /\ ~(k < Depth(t))  BY <3>1, <3>2 DEF Holds
    <3>4. k = Depth(t) /\ Depth(t)' = Depth(t)  BY <3>2, <3>3
    <3> QED  BY <3>1, <3>3, <3>4 DEF Stays, Depth
  <2>2. Raised => \A w \in Threads \ {t} : ~Holds(w)  OBVIOUS
  <2> HIDE DEF Raised
  <2> QED  BY <2>1, <2>2 DEF Console, OneHolder
<1>5. Placed'
  <2> SUFFICES ASSUME NEW u \in Threads, NEW k \in 1..Depth(u)', NEW i \in 1..Len(console),
                      console[i].call = frames'[u][k].call
               PROVE  /\ frames'[u][k].at \in Locked \union {"handler"}
                      /\ frames'[u][k].at \in Locked =>
                           \A j \in i..Len(console) :
                             console[j].call # <<>> /\ console[j].call[1] = u
    BY DEF Placed, Depth
  <2>1. k \in 1..Depth(u) /\ frames'[u][k].call = frames[u][k].call
        /\ (u # t \/ k < Depth(t) => frames'[u][k] = frames[u][k])
        /\ Depth(u) \in Nat /\ Depth(u)' \in Nat /\ Depth(u)' <= Depth(u)
    BY Fewer
  <2>2. frames[u][k].at \in Locked \union {"handler"}  BY <2>1 DEF Console, Placed
  <2>3. CASE u # t \/ k < Depth(t)
    <3>1. frames'[u][k] = frames[u][k]  BY <2>1, <2>3
    <3> QED  BY <2>1, <3>1 DEF Console, Placed
  <2>4. CASE u = t /\ ~(k < Depth(t))
    <3>1. k = Depth(t) /\ Stays(t)  BY <2>1, <2>4 DEF Stays, Depth
    <3> QED  BY <2>2, <2>4, <3>1 DEF Top
  <2> QED  BY <2>3, <2>4
<1>6. Whole'  BY DEF Console, Whole
<1> QED  BY <1>1, <1>2, <1>3, <1>4, <1>5, <1>6 DEF Console

\* What an output is with a piece more.
LEMMA Appended ==
  ASSUME NEW s \in Seq(Pieces), NEW piece \in Pieces
  PROVE  /\ Append(s, piece) \in Seq(Pieces)
         /\ Len(s) \in Nat /\ Len(Append(s, piece)) = Len(s) + 1
         /\ \A i \in 1..(Len(s) + 1) :
              Append(s, piece)[i] = IF i = Len(s) + 1 THEN piece ELSE s[i]
<1>1. Len(s) \in Nat  BY LenProperties
<1>2. /\ Append(s, piece) \in Seq(Pieces) /\ Len(Append(s, piece)) = Len(s) + 1
      /\ \A i \in 1..Len(s) : Append(s, piece)[i] = s[i]
      /\ Append(s, piece)[Len(s) + 1] = piece
  BY AppendProperties
<1> QED  BY <1>1, <1>2

\* A thread that has the lock writes a piece of its top call.
LEMMA Writes ==
  ASSUME TypeOK, FramesOK', Console, NEW t \in Threads, frames[t] # <<>>, Shrinks(t),
         NEW piece \in Pieces, piece.call = Top(t).call, console' = Append(console, piece),
         calls' = calls, setup' = setup,
         Top(t).at \in Locked,
         Stays(t) => frames'[t][Depth(t)].at \in Locked \union {"handler"}
  PROVE  Console'
<1> DEFINE n == Len(console) + 1
           c == Top(t).call
<1>1. /\ Len(console) \in Nat /\ Len(console') = n
      /\ \A i \in 1..n : console'[i] = IF i = n THEN piece ELSE console[i]
  BY Appended DEF TypeOK
<1>2. Depth(t) \in Nat \ {0}  BY TopFrame
<1>3. Depth(t) \in 1..Depth(t) /\ frames[t][Depth(t)] = Top(t)  BY <1>2 DEF Top
<1>4. c \in Calls /\ c # <<>> /\ c[1] = t /\ c[2] <= calls
  BY <1>3, FrameCall, IsCall DEF Console, Numbered
<1>5. Holds(t)  BY <1>3 DEF Holds
<1>6. \A u \in Threads \ {t} : ~Holds(u)  BY <1>5 DEF Console, OneHolder
\* Since the call's first piece, only this thread has written.
<1>7. \A i \in 1..Len(console) : console[i].call = c =>
        \A j \in i..n : console'[j].call # <<>> /\ console'[j].call[1] = t
  <2> SUFFICES ASSUME NEW i \in 1..Len(console), console[i].call = c, NEW j \in i..n
               PROVE  console'[j].call # <<>> /\ console'[j].call[1] = t
    OBVIOUS
  <2>1. \A m \in i..Len(console) : console[m].call # <<>> /\ console[m].call[1] = t
    BY <1>3 DEF Console, Placed
  <2> QED  BY <1>1, <1>4, <2>1
<1> HIDE DEF c
<1>8. piece.call = c  BY DEF c
<1>9. Below'  BY BelowFewer DEF Console
<1>10. Numbered'
  <2>1. \A i \in 1..n : console'[i].call # <<>> => console'[i].call[2] <= calls
    BY <1>1, <1>4, <1>8 DEF Console, Numbered
  <2> QED  BY <1>1, <2>1, NumberedFewer DEF Console
<1>11. ShownOnce'  BY <1>1, <1>4, <1>8 DEF Console, ShownOnce, InitShown
<1>12. \A u \in Threads \ {t} : ~Holds(u)'
  <2> SUFFICES ASSUME NEW u \in Threads \ {t}, Holds(u)'
               PROVE  FALSE
    OBVIOUS
  <2>1. PICK k \in 1..Depth(u)' : frames'[u][k].at \in Locked  BY DEF Holds, Depth
  <2>2. k \in 1..Depth(u) /\ frames'[u][k] = frames[u][k]  BY Fewer
  <2> QED  BY <1>6, <2>1, <2>2 DEF Holds
<1>13. OneHolder'  BY <1>12 DEF OneHolder
<1>14. Placed'
  <2> SUFFICES ASSUME NEW u \in Threads, NEW k \in 1..Depth(u)', NEW i \in 1..n,
                      console'[i].call = frames'[u][k].call
               PROVE  /\ frames'[u][k].at \in Locked \union {"handler"}
                      /\ frames'[u][k].at \in Locked =>
                           \A j \in i..n : console'[j].call # <<>> /\ console'[j].call[1] = u
    BY <1>1 DEF Placed, Depth
  <2>1. k \in 1..Depth(u) /\ frames'[u][k].call = frames[u][k].call
        /\ (u # t \/ k < Depth(t) => frames'[u][k] = frames[u][k])
        /\ Depth(u) \in Nat /\ Depth(u)' \in Nat /\ Depth(u)' <= Depth(u)
    BY Fewer
  <2>2. frames[u][k].call[1] = u  BY <2>1 DEF Console, Numbered
  <2>3. CASE u # t
    <3>1. i # n  BY <1>1, <1>4, <1>8, <2>1, <2>2, <2>3
    <3>2. i \in 1..Len(console) /\ console[i].call = frames[u][k].call
      BY <1>1, <2>1, <3>1
    <3>3. frames[u][k].at \in Locked \union {"handler"}
      BY <2>1, <3>2 DEF Console, Placed
    <3>4. frames[u][k].at \notin Locked  BY <1>6, <2>1, <2>3 DEF Holds
    <3> QED  BY <2>1, <2>3, <3>3, <3>4
  <2>4. CASE u = t /\ k < Depth(t)
    <3>1. frames[t][k].call # c  BY <1>3, <2>1, <2>4 DEF Console, Numbered, c
    <3>2. i # n  BY <1>1, <1>8, <2>1, <2>4, <3>1
    <3>3. i \in 1..Len(console) /\ console[i].call = frames[t][k].call
      BY <1>1, <2>1, <2>4, <3>2
    <3>4. /\ frames[t][k].at \in Locked \union {"handler"}
          /\ frames[t][k].at \in Locked =>
               \A j \in i..Len(console) : console[j].call # <<>> /\ console[j].call[1] = t
      BY <2>1, <2>4, <3>3 DEF Console, Placed
    <3> QED  BY <1>1, <1>4, <1>8, <2>1, <2>4, <3>4
  <2>5. CASE u = t /\ ~(k < Depth(t))
    <3>1. k = Depth(t) /\ Stays(t)  BY <2>1, <2>5 DEF Stays, Depth
    <3>2. frames'[u][k].at \in Locked \union {"handler"}  BY <2>5, <3>1
    <3>3. frames[u][k].call = c  BY <1>3, <2>5, <3>1 DEF c
    <3>4. \A j \in i..n : console'[j].call # <<>> /\ console'[j].call[1] = t
      <4>1. CASE i = n  BY <1>1, <1>4, <1>8, <4>1
      <4>2. CASE i # n  BY <1>1, <1>7, <2>1, <3>3, <4>2
      <4> QED  BY <4>1, <4>2
    <3> QED  BY <2>5, <3>2, <3>4
  <2> QED  BY <2>3, <2>4, <2>5
<1>15. Whole'
  <2>1. ASSUME NEW i \in 1..n, NEW k \in 1..n, i < k, console'[i].call = console'[k].call,
               NEW j \in i..k
        PROVE  console'[j].call # <<>> /\ console'[j].call[1] = console'[i].call[1]
    <3>1. i \in 1..Len(console) /\ console'[i] = console[i]  BY <1>1, <2>1
    <3>2. CASE k = n
      <4>1. console[i].call = c  BY <1>1, <1>8, <2>1, <3>1, <3>2
      <4> QED  BY <1>4, <1>7, <3>1, <3>2, <4>1
    <3>3. CASE k # n
      <4>1. k \in 1..Len(console) /\ console'[k] = console[k] /\ console'[j] = console[j]
        BY <1>1, <2>1, <3>3
      <4> QED  BY <2>1, <3>1, <4>1 DEF Console, Whole
    <3> QED  BY <3>2, <3>3
  <2>2. Len(console') = n  BY <1>1
  <2> HIDE DEF n
  <2> QED  BY <2>1, <2>2 DEF Whole
<1> QED  BY <1>9, <1>10, <1>11, <1>13, <1>14, <1>15 DEF Console

\* A call begins.
LEMMA Begins ==
  ASSUME TypeOK, FramesOK', Console, NEW t \in Threads, Runs(t),
         NEW point \in Points \ (Locked \union {"handler"}), Entered(t, point),
         console' = console, calls' = calls + 1, setup' = setup
  PROVE  Console'
<1>1. calls \in Nat  BY LoggerAssumption DEF TypeOK
<1>2. \A u \in Threads : Depth(u) \in Nat
  BY LenProperties DEF TypeOK, Depth
<1>3. \A u \in Threads : u # t => frames'[u] = frames[u] /\ Depth(u)' = Depth(u)
  BY DEF Entered, Others, Depth
<1>4. Depth(t)' = Depth(t) + 1  BY DEF Entered, Depth
<1>5. \A u \in Threads : \A k \in 1..Depth(u)' :
        \/ k \in 1..Depth(u) /\ frames'[u][k] = frames[u][k]
        \/ u = t /\ k = Depth(t) + 1
  BY <1>2, <1>3, <1>4 DEF Entered
<1> DEFINE f == frames'[t][Depth(t) + 1]
<1>6. f.call = <<t, calls + 1>> /\ f.at = point  BY DEF Entered
<1> HIDE DEF f
<1>7. f.call[1] = t /\ f.call[2] = calls + 1 /\ f.call # <<>>  BY <1>6
<1>8. Below'
  <2> SUFFICES ASSUME NEW u \in Threads, NEW k \in 1..Depth(u)', k < Depth(u)'
               PROVE  frames'[u][k].at \in Messages \union {"handler"}
    BY DEF Below, Depth
  <2>1. CASE u # t  BY <1>3, <2>1 DEF Console, Below
  <2>2. CASE u = t
    <3>1. k \in 1..Depth(t) /\ frames'[t][k] = frames[t][k]
      BY <1>2, <1>4, <2>2 DEF Entered
    <3>2. CASE k < Depth(t)  BY <2>2, <3>1, <3>2 DEF Console, Below
    <3>3. CASE k = Depth(t)
      <4>1. frames[t] # <<>>  BY <3>1, EmptySeq DEF Depth
      <4> QED  BY <2>2, <3>1, <3>3, <4>1 DEF Runs, Top
    <3> QED  BY <1>2, <3>1, <3>2, <3>3
  <2> QED  BY <2>1, <2>2
<1>9. \A u \in Threads : \A k \in 1..Depth(u) : frames[u][k].call[2] <= calls
  BY DEF Console, Numbered
<1>10. \A u \in Threads : \A k \in 1..Depth(u) : frames[u][k].call # f.call
  BY <1>1, <1>7, <1>9, FrameCall, IsCall
<1>11. Numbered'
  <2>1. \A u \in Threads : \A k \in 1..Depth(u) :
          frames[u][k].call[1] = u /\ frames[u][k].call[2] <= calls + 1
    BY <1>1, <1>9, FrameCall, IsCall DEF Console, Numbered
  <2>2. \A u \in Threads : \A k \in 1..Depth(u)' :
          frames'[u][k].call[1] = u /\ frames'[u][k].call[2] <= calls'
    BY <1>1, <1>5, <1>7, <2>1 DEF f
  <2>3. \A u \in Threads : \A j, k \in 1..Depth(u)' :
          j # k => frames'[u][j].call # frames'[u][k].call
    <3> SUFFICES ASSUME NEW u \in Threads, NEW j \in 1..Depth(u)', NEW k \in 1..Depth(u)', j # k
                 PROVE  frames'[u][j].call # frames'[u][k].call
      OBVIOUS
    <3>1. CASE j \in 1..Depth(u) /\ k \in 1..Depth(u)
      <4>1. frames'[u][j] = frames[u][j] /\ frames'[u][k] = frames[u][k]
        BY <1>2, <1>5, <3>1
      <4> QED  BY <3>1, <4>1 DEF Console, Numbered
    <3>2. CASE u = t /\ j = Depth(t) + 1
      <4>1. k \in 1..Depth(u) /\ frames'[u][k] = frames[u][k]  BY <1>5, <3>2
      <4> QED  BY <1>10, <3>2, <4>1 DEF f
    <3>3. CASE u = t /\ k = Depth(t) + 1
      <4>1. j \in 1..Depth(u) /\ frames'[u][j] = frames[u][j]  BY <1>5, <3>3
      <4> QED  BY <1>10, <3>3, <4>1 DEF f
    <3> QED  BY <1>5, <3>1, <3>2, <3>3
  <2>4. \A i \in 1..Len(console) : console[i].call # <<>> => console[i].call[2] <= calls'
    <3> SUFFICES ASSUME NEW i \in 1..Len(console), console[i].call # <<>>
                 PROVE  console[i].call[2] <= calls + 1
      OBVIOUS
    <3>1. console[i] \in Pieces  BY ElementOfSeq DEF TypeOK
    <3>2. console[i].call \in Calls  BY <3>1 DEF Pieces
    <3>3. console[i].call[2] \in 1..MaxCalls /\ console[i].call[2] <= calls
      BY <3>2, IsCall DEF Console, Numbered
    <3> QED  BY <1>1, <3>3
  <2> QED  BY <2>2, <2>3, <2>4 DEF Numbered, Depth
<1>12. ShownOnce'  BY DEF Console, ShownOnce, InitShown
<1>13. OneHolder'
  <2>1. \A u \in Threads : Holds(u)' => Holds(u)
    <3> SUFFICES ASSUME NEW u \in Threads, Holds(u)'
                 PROVE  Holds(u)
      OBVIOUS
    <3>1. PICK k \in 1..Depth(u)' : frames'[u][k].at \in Locked  BY DEF Holds, Depth
    <3>2. k \in 1..Depth(u) /\ frames'[u][k] = frames[u][k]
      BY <1>5, <1>6, <3>1 DEF f
    <3> QED  BY <3>1, <3>2 DEF Holds
  <2> QED  BY <2>1 DEF Console, OneHolder
<1>14. Placed'
  <2> SUFFICES ASSUME NEW u \in Threads, NEW k \in 1..Depth(u)', NEW i \in 1..Len(console),
                      console[i].call = frames'[u][k].call
               PROVE  /\ frames'[u][k].at \in Locked \union {"handler"}
                      /\ frames'[u][k].at \in Locked =>
                           \A j \in i..Len(console) :
                             console[j].call # <<>> /\ console[j].call[1] = u
    BY DEF Placed, Depth
  <2>1. CASE k \in 1..Depth(u) /\ frames'[u][k] = frames[u][k]
    BY <2>1 DEF Console, Placed
  <2>2. CASE u = t /\ k = Depth(t) + 1
    <3>1. console[i].call # <<>> /\ console[i].call[2] = calls + 1
      BY <1>7, <2>2 DEF f
    <3>2. console[i].call[2] <= calls  BY <3>1 DEF Console, Numbered
    <3> QED  BY <1>1, <3>1, <3>2
  <2> QED  BY <1>5, <2>1, <2>2
<1>15. Whole'  BY DEF Console, Whole
<1> QED  BY <1>8, <1>11, <1>12, <1>13, <1>14, <1>15 DEF Console

\* Settings::init shows its header, or that it has failed.
LEMMA Shows ==
  ASSUME TypeOK, Console, frames' = frames, calls' = calls,
         NEW piece \in Pieces, piece.call = <<>>, console' = Append(console, piece),
         \A t \in Threads : ~Holds(t), ~InitShown, InitShown'
  PROVE  Console'
<1> DEFINE n == Len(console) + 1
<1>1. /\ Len(console) \in Nat /\ Len(console') = n
      /\ \A i \in 1..n : console'[i] = IF i = n THEN piece ELSE console[i]
  BY Appended DEF TypeOK
<1>2. Below'  BY DEF Console, Below, Depth
<1>3. Numbered'  BY <1>1 DEF Console, Numbered, Depth
<1>4. \A i \in 1..Len(console) : console[i].call # <<>>  BY DEF Console, ShownOnce
<1>5. ShownOnce'  BY <1>1, <1>4 DEF ShownOnce
<1>6. OneHolder'  BY DEF OneHolder, Holds, Depth
<1>7. Placed'
  <2> SUFFICES ASSUME NEW u \in Threads, NEW k \in 1..Depth(u), NEW i \in 1..n,
                      console'[i].call = frames[u][k].call
               PROVE  frames[u][k].at \in {"handler"} /\ frames[u][k].at \notin Locked
    BY <1>1 DEF Placed, Depth
  <2>1. frames[u][k].call # <<>>  BY FrameCall, IsCall
  <2>2. i \in 1..Len(console) /\ console[i].call = frames[u][k].call  BY <1>1, <2>1
  <2>3. frames[u][k].at \in Locked \union {"handler"}  BY <2>2 DEF Console, Placed
  <2>4. frames[u][k].at \notin Locked  BY DEF Holds
  <2> QED  BY <2>3, <2>4
<1>8. Whole'
  <2> SUFFICES ASSUME NEW i \in 1..n, NEW k \in 1..n, i < k,
                      console'[i].call = console'[k].call, NEW j \in i..k
               PROVE  console'[j].call # <<>> /\ console'[j].call[1] = console'[i].call[1]
    BY <1>1 DEF Whole
  <2>1. i \in 1..Len(console) /\ console'[i] = console[i]  BY <1>1
  <2>2. k # n  BY <1>1, <1>4, <2>1
  <2>3. k \in 1..Len(console) /\ console'[k] = console[k] /\ console'[j] = console[j]
    BY <1>1, <2>2
  <2> QED  BY <2>1, <2>3 DEF Console, Whole
<1> QED  BY <1>2, <1>3, <1>5, <1>6, <1>7, <1>8 DEF Console

\* Neither the frames nor the console change.
LEMMA Waits ==
  ASSUME Console, UNCHANGED <<frames, console, calls>>, InitShown => InitShown'
  PROVE  Console'
<1>1. Below' /\ Numbered' /\ OneHolder' /\ Placed' /\ Whole'
  BY DEF Console, Below, Numbered, OneHolder, Placed, Whole, Holds, Depth
<1>2. ShownOnce'  BY DEF Console, ShownOnce
<1> QED  BY <1>1, <1>2 DEF Console

-----------------------------------------------------------------------------
(* Days.                                                                   *)

Announced(day) ==
  \/ \E j \in 1..Len(file) : file[j].part = "date" /\ file[j].day = day
  \/ \E t \in Threads : \E k \in 1..Depth(t) :
       frames[t][k].at = "fileDate" /\ frames[t][k].day = day

HeadsKnown == \A i \in 1..Len(file) : file[i].part = "head" => Announced(file[i].day)

\* prev_day is the day of init's header before it is written.
DayOfHeader == setup = "fileHeader" => prevDay = initDay

\* There are no records before, and the day that none needs to announce is known.
HasHeader == setup \in {"consoleHeader", "logger", "level", "done"}
PrevKnown == HasHeader => Announced(prevDay)

RecordsKnown ==
  \A t \in Threads : \A k \in 1..Depth(t) :
    /\ frames[t][k].at = "swap" => setup = "done"
    /\ frames[t][k].at = "fileHead" => Announced(frames[t][k].day)

DaysOK == HeadsKnown /\ DayOfHeader /\ PrevKnown /\ RecordsKnown

\* What is in the file stays there.
Grows ==
  /\ Len(file) <= Len(file')
  /\ \A i \in 1..Len(file) : file'[i] = file[i]

Known == \A day \in Days : Announced(day) => Announced(day)'

\* The only frame that can be at any other point than where the program runs is
\* the top.
LEMMA TopOnly ==
  ASSUME TypeOK, Below, NEW t \in Threads, NEW k \in 1..Depth(t),
         frames[t][k].at \notin Messages \union {"handler"}
  PROVE  frames[t] # <<>> /\ k = Depth(t) /\ frames[t][k] = Top(t)
<1>1. frames[t] \in Seq(Frames)  BY DEF TypeOK
<1>2. Depth(t) \in Nat  BY <1>1, LenProperties DEF Depth
<1>3. ~(k < Depth(t))  BY DEF Below
<1>4. k = Depth(t)  BY <1>2, <1>3
<1> QED  BY <1>1, <1>2, <1>4, EmptySeq DEF Top, Depth

\* A day that is announced stays so, if a thread that is about to write its date
\* does that and nothing else.
LEMMA KnownStays ==
  ASSUME TypeOK, FramesOK', Below, NEW t \in Threads, Others(t), Grows,
         NEW top \in Days, top = Top(t).day, At(t, "fileDate") => Announced(top)'
  PROVE  Known
<1> SUFFICES ASSUME NEW day \in Days, Announced(day)
             PROVE  Announced(day)'
  BY DEF Known
<1>1. CASE \E j \in 1..Len(file) : file[j].part = "date" /\ file[j].day = day
  <2>1. Len(file) \in Nat  BY LenProperties DEF TypeOK
  <2>2. PICK j \in 1..Len(file) : file[j].part = "date" /\ file[j].day = day  BY <1>1
  <2>3. file'[j].part = "date" /\ file'[j].day = day  BY <2>2 DEF Grows
  <2>4. j \in 1..Len(file')  BY <2>1, <2>2 DEF Grows
  <2> QED  BY <2>3, <2>4 DEF Announced
<1>2. CASE \E u \in Threads : \E k \in 1..Depth(u) :
              frames[u][k].at = "fileDate" /\ frames[u][k].day = day
  <2>0. PICK u \in Threads : \E k \in 1..Depth(u) :
          frames[u][k].at = "fileDate" /\ frames[u][k].day = day
    BY <1>2
  <2>1. PICK k \in 1..Depth(u) : frames[u][k].at = "fileDate" /\ frames[u][k].day = day
    BY <2>0
  <2>2. CASE u = t
    <3>1. frames[t] # <<>> /\ frames[t][k] = Top(t)
      BY <2>1, <2>2, TopOnly DEF Messages
    <3> QED  BY <2>1, <2>2, <3>1 DEF At
  <2>3. CASE u # t
    <3>1. frames'[u] = frames[u]  BY <2>3 DEF Others
    <3> QED  BY <2>1, <3>1 DEF Announced, Depth
  <2> QED  BY <2>2, <2>3
<1> QED  BY <1>1, <1>2 DEF Announced

LEMMA FilePieces ==
  ASSUME TypeOK, NEW i \in 1..Len(file)
  PROVE  file[i].day \in Days
<1>1. file[i] \in Pieces  BY ElementOfSeq DEF TypeOK
<1> QED  BY <1>1 DEF Pieces

\* A step of one thread: what it writes and where its top goes is all that
\* matters.
LEMMA DaysStep ==
  ASSUME TypeOK, FramesOK', Below, Below', DaysOK, NEW t \in Threads, Others(t), Known,
         setup' = setup, initDay' = initDay, setup # "done" => prevDay' = prevDay,
         PrevKnown',
         \A i \in 1..Len(file') :
           file'[i].part = "head" =>
             (i \in 1..Len(file) /\ file'[i] = file[i]) \/ Announced(file[i].day)',
         frames'[t] # <<>> => /\ Top(t)'.at = "swap" => setup = "done"
                              /\ Top(t)'.at = "fileHead" => Announced(Top(t).day)'
  PROVE  DaysOK'
<1>1. HeadsKnown'
  <2> SUFFICES ASSUME NEW i \in 1..Len(file'), file'[i].part = "head"
               PROVE  Announced(file[i].day)'
    BY DEF HeadsKnown, Announced
  <2>1. CASE i \in 1..Len(file) /\ file'[i] = file[i]
    <3>1. PICK day \in Days : day = file[i].day /\ Announced(day)
      BY <2>1, FilePieces DEF DaysOK, HeadsKnown
    <3>2. Announced(day)' /\ day = file'[i].day  BY <2>1, <3>1 DEF Known
    <3> QED  BY <3>2 DEF Announced
  <2> QED  BY <2>1
<1>2. DayOfHeader'  BY DEF DaysOK, DayOfHeader
<1>3. RecordsKnown'
  <2> SUFFICES ASSUME NEW u \in Threads, NEW k \in 1..Depth(u)'
               PROVE  /\ frames'[u][k].at = "swap" => setup' = "done"
                      /\ frames'[u][k].at = "fileHead" => Announced(frames[u][k].day)'
    BY DEF RecordsKnown, Depth, Announced
  <2>1. CASE u # t
    <3>1. frames'[u] = frames[u] /\ k \in 1..Depth(u)  BY <2>1 DEF Others, Depth
    <3>2. frames[u][k].at = "swap" => setup = "done"  BY <3>1 DEF DaysOK, RecordsKnown
    <3>3. ASSUME frames[u][k].at = "fileHead"
          PROVE  Announced(frames[u][k].day)'
      <4>1. frames[u][k].day \in Days  BY <3>1, FrameCall DEF Frames
      <4>2. PICK day \in Days : day = frames[u][k].day /\ Announced(day)
        BY <3>1, <3>3, <4>1 DEF DaysOK, RecordsKnown
      <4>3. Announced(day)' /\ day = frames'[u][k].day  BY <3>1, <4>2 DEF Known
      <4> QED  BY <4>3 DEF Announced
    <3> QED  BY <3>1, <3>2, <3>3
  <2>2. CASE u = t
    <3>1. CASE frames'[u][k].at \in Messages \union {"handler"}  BY <3>1 DEF Messages
    <3>2. CASE frames'[u][k].at \notin Messages \union {"handler"}
      <4>1. frames'[t] \in Seq(Frames)  BY DEF FramesOK
      <4>2. Depth(t)' \in Nat  BY <4>1, LenProperties DEF Depth
      <4>3. ~(k < Depth(t)')  BY <2>2, <3>2 DEF Below, Depth
      <4>4. k = Depth(t)'  BY <2>2, <4>2, <4>3
      <4>5. frames'[t] # <<>> /\ frames'[u][k] = Top(t)'
        BY <2>2, <4>1, <4>2, <4>4, EmptySeq DEF Top, Depth
      <4> QED  BY <2>2, <4>5 DEF Announced
    <3> QED  BY <3>1, <3>2
  <2> QED  BY <2>1, <2>2
<1> QED  BY <1>1, <1>2, <1>3 DEF DaysOK

LEMMA PrevStays ==
  ASSUME TypeOK, DaysOK, Known, prevDay' = prevDay, HasHeader' => HasHeader
  PROVE  PrevKnown'
<1> SUFFICES ASSUME HasHeader'
             PROVE  Announced(prevDay)'
  BY DEF PrevKnown
<1>1. PICK day \in Days : day = prevDay /\ Announced(day)
  BY DEF DaysOK, PrevKnown, TypeOK
<1>2. Announced(day)' /\ day = prevDay'  BY <1>1 DEF Known
<1> QED  BY <1>2 DEF Announced

\* A step that has nothing to do with days.
LEMMA DaysQuiet ==
  ASSUME TypeOK, FramesOK', Below, Below', DaysOK, NEW t \in Threads, Others(t),
         file' = file, UNCHANGED <<setup, initDay, prevDay>>, ~At(t, "fileDate"),
         frames'[t] # <<>> => /\ Top(t)'.at = "swap" => setup = "done"
                              /\ Top(t)'.at # "fileHead"
  PROVE  DaysOK'
<1>1. Grows  BY LenProperties DEF Grows, TypeOK
<1>2. PICK day \in Days : TRUE  BY DEF TypeOK
<1>3. Known
  <2> SUFFICES ASSUME NEW d \in Days, Announced(d)
               PROVE  Announced(d)'
    BY DEF Known
  <2>1. CASE \E j \in 1..Len(file) : file[j].part = "date" /\ file[j].day = d
    BY <2>1 DEF Announced
  <2>2. CASE \E u \in Threads : \E k \in 1..Depth(u) :
                frames[u][k].at = "fileDate" /\ frames[u][k].day = d
    <3>1. PICK u \in Threads : \E k \in 1..Depth(u) :
            frames[u][k].at = "fileDate" /\ frames[u][k].day = d
      BY <2>2
    <3>2. PICK k \in 1..Depth(u) : frames[u][k].at = "fileDate" /\ frames[u][k].day = d
      BY <3>1
    <3>3. frames[u] # <<>> /\ frames[u][k] = Top(u)  BY <3>2, TopOnly DEF Messages
    <3>4. u # t  BY <3>2, <3>3 DEF At
    <3>5. frames'[u] = frames[u]  BY <3>4 DEF Others
    <3> QED  BY <3>2, <3>5 DEF Announced, Depth
  <2> QED  BY <2>1, <2>2 DEF Announced
<1>4. PrevKnown'  BY <1>3, PrevStays DEF HasHeader
<1>5. \A i \in 1..Len(file') : file'[i].part = "head" => i \in 1..Len(file) /\ file'[i] = file[i]
  OBVIOUS
<1> QED  BY <1>3, <1>4, <1>5, DaysStep

-----------------------------------------------------------------------------
(* Dates.                                                                  *)

WrittenIn(s, days) == {i \in 1..Len(s) : s[i].part = "date" /\ s[i].day \in days}

PendingIn(f, days) ==
  {t \in Threads : \E k \in 1..Len(f[t]) : f[t][k].at = "fileDate" /\ f[t][k].day \in days}

\* Of the days of dates, those before and after a change of day are different
\* ones: that which has one date more than the others is prev_day.
DatesOK ==
  \A d \in Days :
    Dates({d}) <= Dates(Days \ {d}) + (IF HasHeader /\ prevDay = d THEN 1 ELSE 0)

LEMMA WrittenFinite ==
  ASSUME NEW s \in Seq(Pieces), NEW days
  PROVE  IsFiniteSet(WrittenIn(s, days)) /\ Cardinality(WrittenIn(s, days)) \in Nat
<1>1. Len(s) \in Nat  BY LenProperties
<1>2. IsFiniteSet(1..Len(s))  BY <1>1, FS_Interval
<1>3. WrittenIn(s, days) \subseteq 1..Len(s)  BY DEF WrittenIn
<1>4. IsFiniteSet(WrittenIn(s, days))  BY <1>2, <1>3, FS_Subset
<1> QED  BY <1>4, FS_CardinalityType

LEMMA WrittenMore ==
  ASSUME NEW s \in Seq(Pieces), NEW piece \in Pieces, NEW days
  PROVE  Cardinality(WrittenIn(Append(s, piece), days)) =
           Cardinality(WrittenIn(s, days))
           + (IF piece.part = "date" /\ piece.day \in days THEN 1 ELSE 0)
<1> DEFINE n == Len(s) + 1
           more == Append(s, piece)
<1>1. /\ Len(s) \in Nat /\ Len(more) = n
      /\ \A i \in 1..n : more[i] = IF i = n THEN piece ELSE s[i]
  BY Appended
<1> HIDE DEF more
<1>2. IsFiniteSet(WrittenIn(s, days)) /\ Cardinality(WrittenIn(s, days)) \in Nat
  BY WrittenFinite
<1>3. CASE piece.part = "date" /\ piece.day \in days
  <2>1. WrittenIn(more, days) = WrittenIn(s, days) \union {n} /\ n \notin WrittenIn(s, days)
    BY <1>1, <1>3 DEF WrittenIn
  <2>2. Cardinality(WrittenIn(more, days)) = Cardinality(WrittenIn(s, days)) + 1
    BY <1>2, <2>1, FS_AddElement
  <2> QED  BY <1>3, <2>2 DEF more
<1>4. CASE ~(piece.part = "date" /\ piece.day \in days)
  <2>1. WrittenIn(more, days) = WrittenIn(s, days)  BY <1>1, <1>4 DEF WrittenIn
  <2> QED  BY <1>2, <1>4, <2>1 DEF more
<1> QED  BY <1>3, <1>4

LEMMA PendingFinite ==
  ASSUME NEW f, NEW days
  PROVE  IsFiniteSet(PendingIn(f, days)) /\ Cardinality(PendingIn(f, days)) \in Nat
<1>1. PendingIn(f, days) \subseteq Threads  BY DEF PendingIn
<1>2. IsFiniteSet(PendingIn(f, days))  BY <1>1, ThreadsAssumption, FS_Subset
<1> QED  BY <1>2, FS_CardinalityType

\* A thread may begin or cease to have a date to write.
LEMMA PendingMoves ==
  ASSUME NEW f, NEW g, NEW t \in Threads, \A u \in Threads \ {t} : g[u] = f[u], NEW days
  PROVE  Cardinality(PendingIn(g, days)) + (IF t \in PendingIn(f, days) THEN 1 ELSE 0) =
           Cardinality(PendingIn(f, days)) + (IF t \in PendingIn(g, days) THEN 1 ELSE 0)
<1> DEFINE F == PendingIn(f, days)
           G == PendingIn(g, days)
<1>1. \A u \in Threads \ {t} : u \in G <=> u \in F  BY DEF PendingIn
<1>2. F \subseteq Threads /\ G \subseteq Threads  BY DEF PendingIn
<1>3. /\ IsFiniteSet(F) /\ Cardinality(F) \in Nat
      /\ IsFiniteSet(G) /\ Cardinality(G) \in Nat
  BY PendingFinite
<1> HIDE DEF F, G
<1>4. CASE t \in F <=> t \in G
  <2>1. F = G  BY <1>1, <1>2, <1>4
  <2> QED  BY <1>3, <2>1 DEF F, G
<1>5. CASE t \in F /\ t \notin G
  <2>1. F = G \union {t}  BY <1>1, <1>2, <1>5
  <2>2. Cardinality(F) = Cardinality(G) + 1  BY <1>3, <1>5, <2>1, FS_AddElement
  <2> QED  BY <1>3, <1>5, <2>2 DEF F, G
<1>6. CASE t \notin F /\ t \in G
  <2>1. G = F \union {t}  BY <1>1, <1>2, <1>6
  <2>2. Cardinality(G) = Cardinality(F) + 1  BY <1>3, <1>6, <2>1, FS_AddElement
  <2> QED  BY <1>3, <1>6, <2>2 DEF F, G
<1> QED  BY <1>4, <1>5, <1>6

\* It is the top frame that has a date to write.
LEMMA PendingTop ==
  ASSUME NEW f, NEW t \in Threads, f[t] \in Seq(Frames), NEW days,
         \A k \in 1..Len(f[t]) : k < Len(f[t]) => f[t][k].at \in Messages \union {"handler"}
  PROVE  t \in PendingIn(f, days) <=>
           /\ f[t] # <<>> /\ f[t][Len(f[t])].at = "fileDate"
           /\ f[t][Len(f[t])].day \in days
<1>1. Len(f[t]) \in Nat /\ (f[t] # <<>> => Len(f[t]) \in Nat \ {0})
  BY LenProperties, EmptySeq
<1>2. ASSUME t \in PendingIn(f, days)
      PROVE  /\ f[t] # <<>> /\ f[t][Len(f[t])].at = "fileDate"
             /\ f[t][Len(f[t])].day \in days
  <2>1. PICK k \in 1..Len(f[t]) : f[t][k].at = "fileDate" /\ f[t][k].day \in days
    BY <1>2 DEF PendingIn
  <2>2. ~(k < Len(f[t]))  BY <2>1 DEF Messages
  <2>3. k = Len(f[t])  BY <1>1, <2>2
  <2>4. f[t] # <<>>  BY <2>3, EmptySeq
  <2> QED  BY <2>1, <2>3, <2>4
<1>3. ASSUME /\ f[t] # <<>> /\ f[t][Len(f[t])].at = "fileDate"
             /\ f[t][Len(f[t])].day \in days
      PROVE  t \in PendingIn(f, days)
  <2>1. Len(f[t]) \in 1..Len(f[t])  BY <1>1, <1>3
  <2> QED  BY <1>3, <2>1 DEF PendingIn
<1> QED  BY <1>2, <1>3

\* A step of a thread adds to the dates what it writes, and what it has to write
\* then, less what it had to write before.
LEMMA DatesMove ==
  ASSUME TypeOK, FramesOK', Below, Below', NEW t \in Threads, Others(t), NEW days,
         file' \in Seq(Pieces)
  PROVE  /\ Dates(days) \in Nat /\ Dates(days)' \in Nat
         /\ Cardinality(WrittenIn(file, days)) \in Nat
         /\ Dates(days)' + Cardinality(WrittenIn(file, days))
              + (IF At(t, "fileDate") /\ Top(t).day \in days THEN 1 ELSE 0)
            = Dates(days) + Cardinality(WrittenIn(file', days))
              + (IF At(t, "fileDate")' /\ Top(t)'.day \in days THEN 1 ELSE 0)
<1>1. frames[t] \in Seq(Frames) /\ frames'[t] \in Seq(Frames)  BY DEF TypeOK, FramesOK
<1>2. t \in PendingIn(frames, days) <=> At(t, "fileDate") /\ Top(t).day \in days
  <2>1. \A k \in 1..Len(frames[t]) : k < Len(frames[t]) =>
          frames[t][k].at \in Messages \union {"handler"}
    BY DEF Below, Depth
  <2> QED  BY <1>1, <2>1, PendingTop DEF At, Top, Depth
<1>3. t \in PendingIn(frames', days) <=> At(t, "fileDate")' /\ Top(t)'.day \in days
  <2>1. \A k \in 1..Len(frames'[t]) : k < Len(frames'[t]) =>
          frames'[t][k].at \in Messages \union {"handler"}
    BY DEF Below, Depth
  <2> QED  BY <1>1, <2>1, PendingTop DEF At, Top, Depth
<1> DEFINE before == IF At(t, "fileDate") /\ Top(t).day \in days THEN 1 ELSE 0
           after == IF At(t, "fileDate")' /\ Top(t)'.day \in days THEN 1 ELSE 0
           p == Cardinality(PendingIn(frames, days))
           q == Cardinality(PendingIn(frames', days))
           v == Cardinality(WrittenIn(file, days))
           w == Cardinality(WrittenIn(file', days))
<1>4. q + before = p + after
  BY <1>2, <1>3, PendingMoves DEF Others
<1>5. p \in Nat /\ q \in Nat /\ v \in Nat /\ w \in Nat
  BY PendingFinite, WrittenFinite DEF TypeOK
<1>6. Dates(days) = v + p /\ Dates(days)' = w + q
  BY Zenon DEF Dates, WrittenIn, PendingIn, Depth
<1>7. before \in Nat /\ after \in Nat  OBVIOUS
<1>8. Dates(days)' + v + before = Dates(days) + w + after
  <2> HIDE DEF before, after, p, q, v, w
  <2> QED  BY <1>4, <1>5, <1>6, <1>7
<1>9. Dates(days) \in Nat /\ Dates(days)' \in Nat  BY <1>5, <1>6
<1> QED  BY <1>5, <1>8, <1>9

\* Nothing of a date happens.
LEMMA DatesQuiet ==
  ASSUME TypeOK, FramesOK', Below, Below', DatesOK, NEW t \in Threads, Others(t),
         ~At(t, "fileDate"), ~At(t, "fileDate")',
         \/ file' = file
         \/ \E piece \in Pieces : piece.part # "date" /\ file' = Append(file, piece),
         setup' = setup, prevDay' = prevDay
  PROVE  DatesOK'
<1>1. file' \in Seq(Pieces)  BY Appended DEF TypeOK
<1>2. ASSUME NEW days
      PROVE  Cardinality(WrittenIn(file', days)) = Cardinality(WrittenIn(file, days))
  <2>1. Cardinality(WrittenIn(file, days)) \in Nat  BY WrittenFinite DEF TypeOK
  <2>2. CASE file' = file  BY <2>1, <2>2
  <2>3. CASE \E piece \in Pieces : piece.part # "date" /\ file' = Append(file, piece)
    <3>1. PICK piece \in Pieces : piece.part # "date" /\ file' = Append(file, piece)  BY <2>3
    <3> QED  BY <2>1, <3>1, WrittenMore DEF TypeOK
  <2> QED  BY <2>2, <2>3
<1>3. ASSUME NEW days
      PROVE  Dates(days)' = Dates(days) /\ Dates(days) \in Nat
  <2>1. /\ Dates(days) \in Nat /\ Dates(days)' \in Nat
        /\ Cardinality(WrittenIn(file, days)) \in Nat
        /\ Dates(days)' + Cardinality(WrittenIn(file, days)) + 0
             = Dates(days) + Cardinality(WrittenIn(file', days)) + 0
    BY <1>1, DatesMove
  <2> QED  BY <1>2, <2>1
<1> QED  BY <1>3 DEF DatesOK, HasHeader

-----------------------------------------------------------------------------
(* The invariant.                                                          *)

IInv == TypeOK /\ Console /\ DaysOK /\ DatesOK

Free == Points \ (Locked \union {"handler"})

LEMMA TypeKept ==
  ASSUME TypeOK, FramesOK', UNCHANGED <<setup, initDay, today, prevDay, calls>>,
         file' \in Seq(Pieces), console' \in Seq(Pieces)
  PROVE  TypeOK'
BY DEF TypeOK, FramesOK, Depth

LEMMA PieceOK ==
  ASSUME TypeOK, NEW t \in Threads, frames[t] # <<>>,
         NEW part \in {"date", "head", "message", "panic", "trace", "fallback"}
  PROVE  /\ Piece(t, part) \in Pieces /\ Piece(t, part).call = Top(t).call
         /\ Piece(t, part).part = part /\ Piece(t, part).day = Top(t).day
         /\ Top(t).day \in Days
<1>1. Top(t) \in Frames  BY TopFrame
<1> QED  BY <1>1 DEF Piece, Pieces, Frames

\* The new top is the old one where it stands now.
LEMMA NewTop ==
  ASSUME TypeOK, FramesOK', NEW t \in Threads, frames[t] # <<>>, NEW point, Moved(t, point)
  PROVE  Top(t)'.at = point /\ Top(t)'.day = Top(t).day
BY DEF Moved, Top, Depth

\* A thread writes to the file.
LEMMA FileStep ==
  ASSUME IInv, NEW t \in Threads, NEW from \in Free, NEW to \in Free \ {"swap", "fileDate"},
         NEW part \in {"date", "head", "message", "panic", "trace"},
         At(t, from), ToFile(t, part), Goto(t, to),
         from = "fileDate" <=> part = "date", from = "fileHead" <=> part = "head",
         to = "fileHead" => part = "date", to \notin Locked
  PROVE  IInv'
<1>1. frames[t] # <<>> /\ Top(t).at = from  BY DEF At
<1>2. Moved(t, to) /\ FramesOK'  BY <1>1, GotoMoves DEF IInv, Free
<1>3. Shrinks(t) /\ frames'[t][Depth(t)].at = to  BY <1>1, <1>2, MovedShrinks DEF IInv
<1>4. UNCHANGED <<setup, initDay, today, prevDay, console, calls>>
      /\ file' = Append(file, Piece(t, part))
  BY DEF ToFile, setupVars
<1>5. Console'  BY <1>1, <1>2, <1>3, <1>4, Quiet DEF IInv, Free
<1> DEFINE piece == Piece(t, part)
           n == Len(file) + 1
<1>6. /\ piece \in Pieces /\ piece.call = Top(t).call
      /\ piece.part = part /\ piece.day = Top(t).day /\ Top(t).day \in Days
  BY <1>1, PieceOK DEF IInv
<1> HIDE DEF piece
<1>7. file' = Append(file, piece)  BY <1>4 DEF piece
<1>8. /\ file' \in Seq(Pieces) /\ Len(file) \in Nat /\ Len(file') = n
      /\ \A i \in 1..n : file'[i] = IF i = n THEN piece ELSE file[i]
  BY <1>6, <1>7, Appended DEF IInv, TypeOK
<1>9. TypeOK'  BY <1>2, <1>4, <1>8, TypeKept DEF IInv, TypeOK
<1>10. Grows  BY <1>8 DEF Grows
<1>11. Below /\ Below' /\ Others(t)  BY <1>3, <1>5 DEF IInv, Console, Shrinks
<1>12. PICK top \in Days : top = Top(t).day  BY <1>6
<1>13. ASSUME At(t, "fileDate") PROVE Announced(top)'
  <2>1. part = "date"  BY <1>1, <1>13 DEF At
  <2>2. file'[n].part = "date" /\ file'[n].day = top /\ n \in 1..Len(file')
    BY <1>6, <1>8, <1>12, <2>1
  <2> QED  BY <2>2 DEF Announced
<1>14. Known  BY <1>2, <1>10, <1>11, <1>12, <1>13, KnownStays DEF IInv
<1>15. PrevKnown'  BY <1>4, <1>14, PrevStays DEF IInv, HasHeader
\* A head is written for a day that is known.
<1>16. ASSUME from = "fileHead" PROVE Announced(top)'
  <2>1. Depth(t) \in 1..Depth(t) /\ frames[t][Depth(t)] = Top(t)
    BY <1>1, TopFrame DEF IInv, Top
  <2>2. Announced(top)  BY <1>1, <1>12, <1>16, <2>1 DEF IInv, DaysOK, RecordsKnown
  <2> QED  BY <1>14, <2>2 DEF Known
<1>17. ASSUME NEW i \in 1..Len(file'), file'[i].part = "head"
       PROVE  (i \in 1..Len(file) /\ file'[i] = file[i]) \/ Announced(file[i].day)'
  <2>1. CASE i = n
    <3>1. file'[i] = piece /\ part = "head"  BY <1>6, <1>8, <1>17, <2>1
    <3>2. Announced(top)' /\ top = file'[i].day  BY <1>6, <1>12, <1>16, <3>1
    <3> QED  BY <3>2 DEF Announced
  <2>2. CASE i # n  BY <1>8, <2>2
  <2> QED  BY <2>1, <2>2
<1>18. Top(t)'.at = to /\ Top(t)'.day = top  BY <1>1, <1>2, <1>12, NewTop DEF IInv
<1>19. ASSUME to = "fileHead" PROVE Announced(Top(t).day)'
  <2>1. Announced(top)'  BY <1>1, <1>13, <1>19 DEF At
  <2> QED  BY <1>18, <2>1 DEF Announced
<1>20. DaysOK'
  BY <1>2, <1>4, <1>11, <1>14, <1>15, <1>17, <1>18, <1>19, DaysStep DEF IInv
<1>21. DatesOK'
  <2>1. ~At(t, "fileDate")'  BY <1>18 DEF At
  <2>2. CASE part = "date"
    <3>1. At(t, "fileDate")  BY <1>1, <2>2 DEF At
    <3>2. ASSUME NEW days
          PROVE  Dates(days)' = Dates(days) /\ Dates(days) \in Nat
      <4>1. Cardinality(WrittenIn(file', days)) =
              Cardinality(WrittenIn(file, days)) + (IF top \in days THEN 1 ELSE 0)
        BY <1>6, <1>7, <1>12, <2>2, WrittenMore DEF IInv, TypeOK
      <4>2. /\ Dates(days) \in Nat /\ Dates(days)' \in Nat
            /\ Cardinality(WrittenIn(file, days)) \in Nat
            /\ Dates(days)' + Cardinality(WrittenIn(file, days))
                 + (IF top \in days THEN 1 ELSE 0)
               = Dates(days) + Cardinality(WrittenIn(file', days)) + 0
        BY <1>2, <1>8, <1>11, <1>12, <2>1, <3>1, DatesMove DEF IInv
      <4> QED  BY <4>1, <4>2
    <3> QED  BY <1>4, <3>2 DEF IInv, DatesOK, HasHeader
  <2>3. CASE part # "date"
    <3>1. ~At(t, "fileDate")  BY <1>1, <2>3 DEF At
    <3> QED  BY <1>2, <1>4, <1>6, <1>7, <1>11, <2>1, <2>3, <3>1, DatesQuiet DEF IInv
  <2> QED  BY <2>2, <2>3
<1> QED  BY <1>5, <1>9, <1>20, <1>21 DEF IInv

\* The day is swapped: one that is new is about to be announced.
LEMMA SwapStep ==
  ASSUME IInv, NEW t \in Threads, SwapDay(t)
  PROVE  IInv'
<1> DEFINE date == prevDay # Top(t).day
           to == IF date THEN "fileDate" ELSE "fileHead"
<1>1. frames[t] # <<>> /\ Top(t).at = "swap"  BY DEF SwapDay, At
<1>2. Stamp(t, date) /\ UNCHANGED <<setup, initDay, today, file, console, calls>>
      /\ prevDay' = Top(t).day
  BY DEF SwapDay, setupVars, outputs
<1> HIDE DEF date
<1>3. date \in BOOLEAN  BY DEF date
<1>4. Moved(t, to) /\ FramesOK'  BY <1>1, <1>2, <1>3, StampMoves DEF IInv
<1>5. to \in {"fileDate", "fileHead"} /\ (to = "fileDate" <=> date)  BY <1>3
<1> HIDE DEF to
<1>6. Shrinks(t) /\ frames'[t][Depth(t)].at = to  BY <1>1, <1>4, MovedShrinks DEF IInv
<1>7. Console'  BY <1>1, <1>2, <1>4, <1>5, <1>6, Quiet DEF IInv, Locked
<1>8. PICK top \in Days : top = Top(t).day
  BY <1>1, TopFrame DEF IInv, Frames
<1>9. TypeOK'
  BY <1>2, <1>4, <1>8 DEF IInv, TypeOK, FramesOK, Depth
<1>10. Below /\ Below' /\ Others(t)  BY <1>6, <1>7 DEF IInv, Console, Shrinks
<1>11. Grows  BY <1>2, LenProperties DEF Grows, IInv, TypeOK
<1>12. Known  BY <1>1, <1>4, <1>8, <1>10, <1>11, KnownStays DEF IInv, At
<1>13. Depth(t) \in 1..Depth(t) /\ frames[t][Depth(t)] = Top(t)
  BY <1>1, TopFrame DEF IInv, Top
<1>14. setup = "done"  BY <1>1, <1>13 DEF IInv, DaysOK, RecordsKnown
<1>15. Top(t)'.at = to /\ Top(t)'.day = top  BY <1>1, <1>4, <1>8, NewTop DEF IInv
<1>16. Announced(top)'
  <2>1. CASE to = "fileDate"
    <3>1. frames'[t] \in Seq(Frames) /\ Depth(t)' = Depth(t)
      BY <1>4 DEF FramesOK, Moved, Depth
    <3>2. Depth(t)' \in 1..Depth(t)' /\ frames'[t][Depth(t)'] = Top(t)'
      BY <1>13, <3>1 DEF Top
    <3> QED  BY <1>15, <2>1, <3>2 DEF Announced
  <2>2. CASE to = "fileHead"
    <3>1. prevDay = top  BY <1>5, <1>8, <2>2 DEF date
    <3>2. Announced(top)  BY <1>14, <3>1 DEF IInv, DaysOK, PrevKnown, HasHeader
    <3> QED  BY <1>12, <3>2 DEF Known
  <2> QED  BY <1>5, <2>1, <2>2
<1>17. PrevKnown'
  <2>1. prevDay' = top  BY <1>2, <1>8
  <2> QED  BY <1>16, <2>1 DEF PrevKnown, Announced
<1>18. Announced(Top(t).day)'  BY <1>15, <1>16 DEF Announced
<1>19. \A i \in 1..Len(file') : file'[i].part = "head" => i \in 1..Len(file) /\ file'[i] = file[i]
  BY <1>2
<1>20. DaysOK'
  BY <1>2, <1>4, <1>10, <1>12, <1>14, <1>17, <1>18, <1>19, DaysStep DEF IInv
<1>21. ASSUME NEW days
       PROVE  /\ Dates(days) \in Nat
              /\ Dates(days)' = Dates(days) + (IF date /\ top \in days THEN 1 ELSE 0)
  <2>1. ~At(t, "fileDate")  BY <1>1 DEF At
  <2>2. At(t, "fileDate")' <=> date
    <3>1. frames'[t] # <<>>
      <4>1. frames'[t] \in Seq(Frames) /\ Len(frames'[t]) = Depth(t)
        BY <1>4 DEF FramesOK, Moved
      <4> QED  BY <1>13, <4>1, EmptySeq
    <3> QED  BY <1>5, <1>15, <3>1 DEF At
  <2>3. file' \in Seq(Pieces) /\ WrittenIn(file', days) = WrittenIn(file, days)
    BY <1>2 DEF IInv, TypeOK
  <2>4. /\ Dates(days) \in Nat /\ Dates(days)' \in Nat
        /\ Cardinality(WrittenIn(file, days)) \in Nat
        /\ Dates(days)' + Cardinality(WrittenIn(file, days)) + 0
             = Dates(days) + Cardinality(WrittenIn(file', days))
               + (IF date /\ top \in days THEN 1 ELSE 0)
    BY <1>4, <1>10, <1>15, <2>1, <2>2, <2>3, DatesMove DEF IInv
  <2> QED  BY <2>3, <2>4
\* The day that gets a date was not prev_day, and is now.
<1>22. DatesOK'
  <2>1. HasHeader /\ HasHeader' /\ prevDay' = top /\ (date <=> prevDay # top)
    BY <1>2, <1>8, <1>14 DEF HasHeader, date
  <2>2. SUFFICES ASSUME NEW d \in Days
                 PROVE  Dates({d})' <= Dates(Days \ {d})' + (IF prevDay' = d THEN 1 ELSE 0)
    BY <2>1 DEF DatesOK
  <2>3. Dates({d}) <= Dates(Days \ {d}) + (IF prevDay = d THEN 1 ELSE 0)
    BY <2>1 DEF IInv, DatesOK
  <2>4. top \in {d} <=> top = d  OBVIOUS
  <2>5. top \in Days \ {d} <=> top # d  OBVIOUS
  <2>6. /\ Dates({d}) \in Nat /\ Dates(Days \ {d}) \in Nat
        /\ Dates({d})' = Dates({d}) + (IF date /\ top = d THEN 1 ELSE 0)
        /\ Dates(Days \ {d})' = Dates(Days \ {d}) + (IF date /\ top # d THEN 1 ELSE 0)
    BY <1>21, <2>4, <2>5
  <2> QED  BY <2>1, <2>3, <2>6
<1> QED  BY <1>7, <1>9, <1>20, <1>22 DEF IInv

LEMMA LockStep ==
  ASSUME IInv, NEW t \in Threads, LockConsole(t)
  PROVE  IInv'
<1>1. frames[t] # <<>> /\ Top(t).at \in {"lock", "fallback"}  BY DEF LockConsole, At
<1>2. PICK to \in {"fallbackPanic", "consolePanic", "consoleDate", "consoleHead"} : Goto(t, to)
  BY DEF LockConsole, StartConsole
<1>3. UNCHANGED <<setup, initDay, today, prevDay, file, console, calls>>
  BY DEF LockConsole, StartConsole, setupVars, outputs
<1>4. to \in Points /\ to \in Locked  BY DEF Points, Locked
<1>5. Moved(t, to) /\ FramesOK'  BY <1>1, <1>2, <1>4, GotoMoves DEF IInv
<1>6. Shrinks(t) /\ frames'[t][Depth(t)].at = to  BY <1>1, <1>5, MovedShrinks DEF IInv
<1>7. \A u \in Threads \ {t} : ~Holds(u)  BY DEF LockConsole
<1>8. Console'  BY <1>1, <1>3, <1>5, <1>6, <1>7, Quiet DEF IInv, Locked
<1>9. TypeOK'  BY <1>3, <1>5, TypeKept DEF IInv, TypeOK
<1>10. Top(t)'.at = to  BY <1>1, <1>5, NewTop DEF IInv
<1>11. Below /\ Below' /\ Others(t)  BY <1>6, <1>8 DEF IInv, Console, Shrinks
<1>12. DaysOK'  BY <1>1, <1>3, <1>5, <1>10, <1>11, DaysQuiet DEF IInv, At
<1>13. DatesOK'  BY <1>1, <1>3, <1>5, <1>10, <1>11, DatesQuiet DEF IInv, At
<1> QED  BY <1>8, <1>9, <1>12, <1>13 DEF IInv

\* The new top of a thread that has left some of its frames is where a program
\* runs.
LEMMA CutTop ==
  ASSUME TypeOK, FramesOK', Below, NEW t \in Threads, frames[t] # <<>>, Cut(t), frames'[t] # <<>>
  PROVE  Top(t)'.at \in Messages \union {"handler"}
<1>1. frames'[t] \in Seq(Frames)  BY DEF FramesOK
<1>2. Depth(t)' \in Nat \ {0}  BY <1>1, EmptySeq DEF Depth
<1>3. Depth(t) \in Nat \ {0}  BY TopFrame
<1>4. Depth(t)' \in 1..Depth(t) /\ Depth(t)' < Depth(t)  BY <1>2, <1>3 DEF Cut, Depth
<1>5. Top(t)' = frames[t][Depth(t)']  BY <1>2 DEF Cut, Top, Depth
<1> QED  BY <1>4, <1>5 DEF Below

\* A thread that has the lock writes to the console, and goes on or leaves.
LEMMA ConsoleStep ==
  ASSUME IInv, NEW t \in Threads, NEW from \in Locked,
         NEW part \in {"date", "head", "message", "panic", "trace", "fallback"},
         At(t, from), ToConsole(t, part),
         \/ \E to \in Locked \union {"handler"} : Goto(t, to)
         \/ Pop(t)
         \/ frames' = [frames EXCEPT ![t] = <<>>]
  PROVE  IInv'
<1>1. frames[t] # <<>> /\ Top(t).at = from  BY DEF At
<1>2. UNCHANGED <<setup, initDay, today, prevDay, file, calls>>
      /\ console' = Append(console, Piece(t, part))
  BY DEF ToConsole, setupVars
<1>3. Piece(t, part) \in Pieces /\ Piece(t, part).call = Top(t).call
  BY <1>1, PieceOK DEF IInv
<1>4. console' \in Seq(Pieces)  BY <1>2, <1>3, Appended DEF IInv, TypeOK
<1>5. /\ FramesOK' /\ Shrinks(t)
      /\ Stays(t) => frames'[t][Depth(t)].at \in Locked \union {"handler"}
      /\ frames'[t] # <<>> => Top(t)'.at \notin {"swap", "fileHead", "fileDate"}
  <2>1. ASSUME NEW to \in Locked \union {"handler"}, Goto(t, to)
        PROVE  <1>5!1 /\ <1>5!2 /\ <1>5!3
    <3>1. to \in Points  BY DEF Points
    <3>2. Moved(t, to) /\ FramesOK'  BY <1>1, <2>1, <3>1, GotoMoves DEF IInv
    <3>3. Shrinks(t) /\ frames'[t][Depth(t)].at = to  BY <1>1, <3>2, MovedShrinks DEF IInv
    <3>4. Top(t)'.at = to  BY <1>1, <3>2, NewTop DEF IInv
    <3> QED  BY <3>2, <3>3, <3>4 DEF Locked
  <2>2. ASSUME Cut(t) /\ FramesOK'
        PROVE  <1>5!1 /\ <1>5!2 /\ <1>5!3
    <3>1. Shrinks(t) /\ ~Stays(t)  BY <1>1, <2>2, CutShrinks DEF IInv
    <3>2. frames'[t] # <<>> => Top(t)'.at \in Messages \union {"handler"}
      BY <1>1, <2>2, CutTop DEF IInv, Console
    <3> QED  BY <2>2, <3>1, <3>2 DEF Messages
  <2>3. CASE Pop(t)  BY <1>1, <2>2, <2>3, PopCuts DEF IInv
  <2>4. CASE frames' = [frames EXCEPT ![t] = <<>>]  BY <1>1, <2>2, <2>4, ClearCuts DEF IInv
  <2> QED  BY <2>1, <2>3, <2>4
<1>6. Console'  BY <1>1, <1>2, <1>3, <1>5, Writes DEF IInv
<1>7. TypeOK'  BY <1>2, <1>4, <1>5, TypeKept DEF IInv, TypeOK
<1>8. Below /\ Below' /\ Others(t)  BY <1>5, <1>6 DEF IInv, Console, Shrinks
<1>9. ~At(t, "fileDate")  BY <1>1 DEF At, Locked
<1>10. DaysOK'  BY <1>2, <1>5, <1>8, <1>9, DaysQuiet DEF IInv
<1>11. DatesOK'
  <2>1. ~At(t, "fileDate")'  BY <1>5 DEF At
  <2> QED  BY <1>2, <1>5, <1>8, <1>9, <2>1, DatesQuiet DEF IInv
<1> QED  BY <1>6, <1>7, <1>10, <1>11 DEF IInv

LEMMA UnwindStep ==
  ASSUME IInv, NEW t \in Threads, Unwind(t)
  PROVE  IInv'
<1>1. frames[t] # <<>> /\ Top(t).at = "handler"  BY DEF Unwind, At
<1>2. UNCHANGED <<setup, initDay, today, prevDay, file, console, calls>>
      /\ frames' = [frames EXCEPT ![t] = <<>>]
  BY DEF Unwind, setupVars, outputs
<1>3. Cut(t) /\ FramesOK'  BY <1>1, <1>2, ClearCuts DEF IInv
<1>4. Shrinks(t) /\ ~Stays(t)  BY <1>1, <1>3, CutShrinks DEF IInv
<1>5. frames'[t] # <<>> => Top(t)'.at \in Messages \union {"handler"}
  BY <1>1, <1>3, CutTop DEF IInv, Console
<1>6. Console'  BY <1>1, <1>2, <1>3, <1>4, Quiet DEF IInv
<1>7. TypeOK'  BY <1>2, <1>3, TypeKept DEF IInv, TypeOK
<1>8. Below /\ Below' /\ Others(t)  BY <1>4, <1>6 DEF IInv, Console, Shrinks
<1>9. DaysOK'  BY <1>1, <1>2, <1>3, <1>5, <1>8, DaysQuiet DEF IInv, At, Messages
<1>10. DatesOK'  BY <1>1, <1>2, <1>3, <1>5, <1>8, DatesQuiet DEF IInv, At, Messages
<1> QED  BY <1>6, <1>7, <1>9, <1>10 DEF IInv

\* A record or a panic begins.
LEMMA EnterStep ==
  ASSUME IInv, NEW t \in Threads, NEW panic \in BOOLEAN,
         NEW point \in {"swap", "filePanic", "fallback"}, Enter(t, panic, point),
         point = "swap" => setup = "done"
  PROVE  IInv'
<1>1. point \in Points \ (Locked \union {"handler"})  BY DEF Points, Locked
<1>2. Entered(t, point) /\ FramesOK' /\ calls' \in 0..MaxCalls
  BY <1>1, EnterEnters DEF IInv
<1>3. Runs(t) /\ calls' = calls + 1
      /\ UNCHANGED <<setup, initDay, today, prevDay, file, console>>
  BY DEF Enter, setupVars, outputs
<1>4. Console'  BY <1>1, <1>2, <1>3, Begins DEF IInv
<1>5. TypeOK'  BY <1>2, <1>3 DEF IInv, TypeOK, FramesOK, Depth
<1>6. Below /\ Below' /\ Others(t)  BY <1>2, <1>4 DEF IInv, Console, Entered
<1>7. ~At(t, "fileDate")  BY <1>3 DEF Runs, At, Messages
<1>8. Top(t)'.at = point  BY <1>2 DEF Entered, Top, Depth
<1>9. DaysOK'  BY <1>2, <1>3, <1>6, <1>7, <1>8, DaysQuiet DEF IInv
<1>10. DatesOK'
  <2>1. ~At(t, "fileDate")'  BY <1>8 DEF At
  <2> QED  BY <1>2, <1>3, <1>6, <1>7, <2>1, DatesQuiet DEF IInv
<1> QED  BY <1>4, <1>5, <1>9, <1>10 DEF IInv

-----------------------------------------------------------------------------

LEMMA StepInv ==
  ASSUME IInv, NEW t \in Threads, Step(t)
  PROVE  IInv'
<1> USE DEF Free, Points, Locked, Messages
<1>1. CASE SwapDay(t)  BY <1>1, SwapStep
<1>2. CASE FileDate(t)
  <2>1. At(t, "fileDate") /\ ToFile(t, "date") /\ Goto(t, "fileHead")  BY <1>2 DEF FileDate
  <2> QED  BY <2>1, FileStep
<1>3. CASE FileHead(t)
  <2>1. At(t, "fileHead") /\ ToFile(t, "head") /\ Goto(t, "fileMessage")  BY <1>3 DEF FileHead
  <2> QED  BY <2>1, FileStep
<1>4. CASE FileMessage(t)
  <2>1. At(t, "fileMessage") /\ ToFile(t, "message") /\ Goto(t, "lock")  BY <1>4 DEF FileMessage
  <2> QED  BY <2>1, FileStep
<1>5. CASE FilePanic(t)
  <2>1. At(t, "filePanic") /\ ToFile(t, "panic") /\ Goto(t, "fileTrace")  BY <1>5 DEF FilePanic
  <2> QED  BY <2>1, FileStep
<1>6. CASE FileTrace(t)
  <2>1. At(t, "fileTrace") /\ ToFile(t, "trace") /\ Goto(t, "lock")  BY <1>6 DEF FileTrace
  <2> QED  BY <2>1, FileStep
<1>7. CASE LockConsole(t)  BY <1>7, LockStep
<1>8. CASE ConsoleDate(t)
  <2>1. At(t, "consoleDate") /\ ToConsole(t, "date") /\ Goto(t, "consoleHead")
    BY <1>8 DEF ConsoleDate
  <2> QED  BY <2>1, ConsoleStep
<1>9. CASE ConsoleHead(t)
  <2>1. At(t, "consoleHead") /\ ToConsole(t, "head") /\ Goto(t, "consoleMessage")
    BY <1>9 DEF ConsoleHead
  <2> QED  BY <2>1, ConsoleStep
<1>10. CASE ConsoleMessage(t)
  <2>1. At(t, "consoleMessage") /\ ToConsole(t, "message") /\ Pop(t)
    BY <1>10 DEF ConsoleMessage
  <2> QED  BY <2>1, ConsoleStep
<1>11. CASE ConsolePanic(t)
  <2>1. At(t, "consolePanic") /\ ToConsole(t, "panic") /\ Goto(t, "consoleTrace")
    BY <1>11 DEF ConsolePanic
  <2> QED  BY <2>1, ConsoleStep
<1>12. CASE ConsoleTrace(t)
  <2>1. At(t, "consoleTrace") /\ ToConsole(t, "trace") /\ Goto(t, "handler")
    BY <1>12 DEF ConsoleTrace
  <2> QED  BY <2>1, ConsoleStep
<1>13. CASE FallbackPanic(t)
  <2>1. At(t, "fallbackPanic") /\ ToConsole(t, "fallback") /\ Goto(t, "fallbackTrace")
    BY <1>13 DEF FallbackPanic
  <2> QED  BY <2>1, ConsoleStep
<1>14. CASE FallbackTrace(t)
  <2>1. /\ At(t, "fallbackTrace") /\ ToConsole(t, "fallback")
        /\ frames' = [frames EXCEPT ![t] = <<>>]
    BY <1>14 DEF FallbackTrace
  <2> QED  BY <2>1, ConsoleStep
<1>15. CASE Unwind(t)  BY <1>15, UnwindStep
<1> QED
  BY <1>1, <1>2, <1>3, <1>4, <1>5, <1>6, <1>7, <1>8, <1>9, <1>10, <1>11, <1>12, <1>13,
     <1>14, <1>15 DEF Step

\* A step of init, or midnight: no frame changes.
LEMMA OutsideDays ==
  ASSUME TypeOK, DaysOK, frames' = frames, Grows,
         \A i \in 1..Len(file') :
           file'[i].part = "head" => i \in 1..Len(file) /\ file'[i] = file[i]
  PROVE  Known /\ HeadsKnown' /\ ((setup = "done" => setup' = "done") => RecordsKnown')
<1>1. Known
  <2>1. Len(file) \in Nat  BY LenProperties DEF TypeOK
  <2> SUFFICES ASSUME NEW d \in Days, Announced(d)
               PROVE  Announced(d)'
    BY DEF Known
  <2>2. CASE \E j \in 1..Len(file) : file[j].part = "date" /\ file[j].day = d
    <3>1. PICK j \in 1..Len(file) : file[j].part = "date" /\ file[j].day = d  BY <2>2
    <3>2. j \in 1..Len(file') /\ file'[j].part = "date" /\ file'[j].day = d
      BY <2>1, <3>1 DEF Grows
    <3> QED  BY <3>2 DEF Announced
  <2>3. CASE \E u \in Threads : \E k \in 1..Depth(u) :
                frames[u][k].at = "fileDate" /\ frames[u][k].day = d
    BY <2>3 DEF Announced, Depth
  <2> QED  BY <2>2, <2>3 DEF Announced
<1>2. HeadsKnown'
  <2> SUFFICES ASSUME NEW i \in 1..Len(file'), file'[i].part = "head"
               PROVE  Announced(file[i].day)'
    BY DEF HeadsKnown, Announced
  <2>1. PICK day \in Days : day = file[i].day /\ Announced(day) /\ file'[i] = file[i]
    BY FilePieces DEF DaysOK, HeadsKnown
  <2>2. Announced(day)' /\ day = file'[i].day  BY <1>1, <2>1 DEF Known
  <2> QED  BY <2>2 DEF Announced
<1>3. ASSUME setup = "done" => setup' = "done"
      PROVE  RecordsKnown'
  <2> SUFFICES ASSUME NEW u \in Threads, NEW k \in 1..Depth(u)
               PROVE  /\ frames[u][k].at = "swap" => setup' = "done"
                      /\ frames'[u][k].at = "fileHead" => Announced(frames[u][k].day)'
    BY DEF RecordsKnown, Depth, Announced
  <2>1. frames[u][k].at = "swap" => setup' = "done"  BY <1>3 DEF DaysOK, RecordsKnown
  <2>2. ASSUME frames[u][k].at = "fileHead"
        PROVE  Announced(frames[u][k].day)'
    <3>1. frames[u][k].day \in Days  BY FrameCall DEF Frames
    <3>2. PICK day \in Days : day = frames[u][k].day /\ Announced(day)
      BY <2>2, <3>1 DEF DaysOK, RecordsKnown
    <3>3. Announced(day)' /\ day = frames'[u][k].day  BY <1>1, <3>2 DEF Known
    <3> QED  BY <3>3 DEF Announced
  <2> QED  BY <2>1, <2>2
<1> QED  BY <1>1, <1>2, <1>3

LEMMA SettingsInv ==
  ASSUME IInv, Settings \/ Midnight
  PROVE  IInv'
<1> DEFINE piece(part) == [call |-> <<>>, part |-> part, day |-> initDay]
<1>1. piece("date") \in Pieces /\ piece("fallback") \in Pieces
      /\ \A part : piece(part).call = <<>> /\ piece(part).part = part /\ piece(part).day = initDay
  BY DEF IInv, TypeOK, Pieces
<1>2. frames' = frames /\ calls' = calls
  BY DEF Settings, Midnight, SetHook, ReadDate, OpenFile, OpenFails, FileHeader, ConsoleHeader,
         SetLogger, SetMaxLevel
<1>3. /\ (setup' # setup => setup # "done")
      /\ setup' \in SetupPoints
      /\ InitShown => InitShown'
      /\ HasHeader => HasHeader'
  BY DEF Settings, Midnight, SetHook, ReadDate, OpenFile, OpenFails, FileHeader, ConsoleHeader,
         SetLogger, SetMaxLevel, Setup, setupVars, SetupPoints, InitShown, HasHeader, IInv, TypeOK
<1>4. initDay' \in Days /\ today' \in Days /\ prevDay' \in Days
  BY LoggerAssumption
  DEF Settings, Midnight, SetHook, ReadDate, OpenFile, OpenFails, FileHeader, ConsoleHeader,
      SetLogger, SetMaxLevel, setupVars, IInv, TypeOK, Days
<1> HIDE DEF piece
\* What is written.
<1>5. /\ \/ console' = console
         \/ /\ \E part \in {"date", "fallback"} : console' = Append(console, piece(part))
            /\ \A t \in Threads : ~Holds(t)
            /\ ~InitShown /\ InitShown'
      /\ \/ file' = file
         \/ file' = Append(file, piece("date")) /\ setup = "fileHeader" /\ prevDay' = prevDay
  BY DEF Settings, Midnight, SetHook, ReadDate, OpenFile, OpenFails, FileHeader, ConsoleHeader,
         SetLogger, SetMaxLevel, Setup, outputs, InitShown, Header, piece
<1>6. console' \in Seq(Pieces)  BY <1>1, <1>5, Appended DEF IInv, TypeOK
<1>7. Console'
  <2>1. CASE console' = console  BY <1>2, <1>3, <2>1, Waits DEF IInv
  <2>2. CASE /\ \E part \in {"date", "fallback"} : console' = Append(console, piece(part))
             /\ \A t \in Threads : ~Holds(t)
             /\ ~InitShown /\ InitShown'
    <3>1. PICK part \in {"date", "fallback"} : console' = Append(console, piece(part))  BY <2>2
    <3> QED  BY <1>1, <1>2, <2>2, <3>1, Shows DEF IInv
  <2> QED  BY <1>5, <2>1, <2>2
<1>8. ASSUME file' = Append(file, piece("date"))
      PROVE  /\ file' \in Seq(Pieces) /\ Len(file) \in Nat /\ Len(file') = Len(file) + 1
             /\ \A i \in 1..(Len(file) + 1) :
                  file'[i] = IF i = Len(file) + 1 THEN piece("date") ELSE file[i]
  BY <1>1, <1>8, Appended DEF IInv, TypeOK
<1>9. file' \in Seq(Pieces) /\ Grows
  <2>1. CASE file' = file  BY <2>1, LenProperties DEF IInv, TypeOK, Grows
  <2>2. CASE file' = Append(file, piece("date"))  BY <1>8, <2>2 DEF Grows
  <2> QED  BY <1>5, <2>1, <2>2
<1>10. \A i \in 1..Len(file') : file'[i].part = "head" => i \in 1..Len(file) /\ file'[i] = file[i]
  <2>1. CASE file' = file  BY <2>1
  <2>2. CASE file' = Append(file, piece("date"))  BY <1>1, <1>8, <2>2
  <2> QED  BY <1>5, <2>1, <2>2
<1>11. TypeOK'  BY <1>2, <1>3, <1>4, <1>6, <1>9 DEF IInv, TypeOK, Depth
<1>12. Known /\ HeadsKnown' /\ RecordsKnown'
  BY <1>2, <1>3, <1>9, <1>10, OutsideDays DEF IInv
<1>13. DayOfHeader'
  BY DEF Settings, Midnight, SetHook, ReadDate, OpenFile, OpenFails, FileHeader, ConsoleHeader,
         SetLogger, SetMaxLevel, Setup, setupVars, DayOfHeader, IInv, DaysOK
<1>14. PrevKnown'
  <2>1. CASE FileHeader
    <3>1. file' = Append(file, piece("date")) /\ setup = "fileHeader" /\ prevDay' = prevDay
      BY <2>1 DEF FileHeader, Setup, Header, piece
    <3>2. prevDay' = initDay  BY <3>1 DEF IInv, DaysOK, DayOfHeader
    <3>3. file'[Len(file) + 1].part = "date" /\ file'[Len(file) + 1].day = prevDay'
          /\ Len(file) + 1 \in 1..Len(file')
      BY <1>1, <1>8, <3>1, <3>2
    <3> QED  BY <3>3 DEF PrevKnown, Announced
  <2>2. CASE OpenFile  BY <2>2 DEF OpenFile, Setup, PrevKnown, HasHeader
  <2>3. CASE ~FileHeader /\ ~OpenFile
    <3>1. prevDay' = prevDay /\ (HasHeader' => HasHeader)
      BY <2>3
      DEF Settings, Midnight, SetHook, ReadDate, OpenFails, ConsoleHeader,
          SetLogger, SetMaxLevel, Setup, setupVars, HasHeader
    <3> QED  BY <1>12, <3>1, PrevStays DEF IInv
  <2> QED  BY <2>1, <2>2, <2>3
<1>15. ASSUME NEW days
       PROVE  /\ Dates(days) \in Nat
              /\ Dates(days)' = Dates(days) +
                   (IF file' = Append(file, piece("date")) /\ initDay \in days THEN 1 ELSE 0)
  <2> DEFINE p == Cardinality(PendingIn(frames, days))
             v == Cardinality(WrittenIn(file, days))
             w == Cardinality(WrittenIn(file', days))
  <2>1. p \in Nat /\ v \in Nat  BY PendingFinite, WrittenFinite DEF IInv, TypeOK
  <2>2. Dates(days) = v + p /\ Dates(days)' = w + p
    BY <1>2, Zenon DEF Dates, WrittenIn, PendingIn, Depth
  <2>3. CASE file' = Append(file, piece("date"))
    <3>1. w = v + (IF initDay \in days THEN 1 ELSE 0)
      BY <1>1, <2>3, WrittenMore DEF IInv, TypeOK
    <3> HIDE DEF p, v, w
    <3> QED  BY <2>1, <2>2, <2>3, <3>1
  <2>4. CASE file' # Append(file, piece("date"))
    <3>1. w = v  BY <1>5, <2>4
    <3> HIDE DEF p, v, w
    <3> QED  BY <2>1, <2>2, <2>4, <3>1
  <2> QED  BY <2>3, <2>4
<1>16. DatesOK'
  <2>1. CASE FileHeader
    <3>1. file' = Append(file, piece("date")) /\ setup = "fileHeader" /\ prevDay' = prevDay
          /\ setup' = "consoleHeader"
      BY <2>1 DEF FileHeader, Setup, Header, piece
    <3>2. ~HasHeader /\ HasHeader' /\ prevDay' = initDay
      BY <3>1 DEF HasHeader, IInv, DaysOK, DayOfHeader
    <3>3. SUFFICES ASSUME NEW d \in Days
                   PROVE  Dates({d})' <= Dates(Days \ {d})' + (IF initDay = d THEN 1 ELSE 0)
      BY <3>2 DEF DatesOK
    <3>4. Dates({d}) <= Dates(Days \ {d}) + 0  BY <3>2 DEF IInv, DatesOK
    <3>5. /\ initDay \in {d} <=> initDay = d
          /\ initDay \in Days \ {d} <=> initDay # d
      BY DEF IInv, TypeOK
    <3>6. /\ Dates({d}) \in Nat /\ Dates(Days \ {d}) \in Nat
          /\ Dates({d})' = Dates({d}) + (IF initDay = d THEN 1 ELSE 0)
          /\ Dates(Days \ {d})' = Dates(Days \ {d}) + (IF initDay # d THEN 1 ELSE 0)
      BY <1>15, <3>1, <3>5
    <3> QED  BY <3>4, <3>6
  <2>2. CASE ~FileHeader
    <3>1. /\ file' = file
          /\ (HasHeader' <=> HasHeader) \/ (~HasHeader')
          /\ HasHeader' => prevDay' = prevDay
      BY <2>2
      DEF Settings, Midnight, SetHook, ReadDate, OpenFile, OpenFails, ConsoleHeader,
          SetLogger, SetMaxLevel, Setup, setupVars, outputs, HasHeader
    <3>2. \A days : Dates(days)' = Dates(days)
      BY <1>2, <3>1 DEF Dates, Depth
    <3>3. HasHeader => HasHeader'  BY <1>3
    <3> QED  BY <3>1, <3>2, <3>3 DEF IInv, DatesOK
  <2> QED  BY <2>1, <2>2
<1> QED  BY <1>7, <1>11, <1>12, <1>13, <1>14, <1>16 DEF IInv, DaysOK

LEMMA InitInv ==
  ASSUME Init
  PROVE  IInv
<1>1. 0 \in Days /\ 0 \in 0..MaxCalls /\ MaxNesting \in Nat  BY LoggerAssumption DEF Days
<1>2. /\ <<>> \in Seq(Pieces) /\ <<>> \in Seq(Frames) /\ Len(<<>>) = 0  BY EmptySeq
<1>3. frames \in [Threads -> Seq(Frames)] /\ \A t \in Threads : Depth(t) = 0
  BY <1>2 DEF Init, Depth
<1>4. TypeOK  BY <1>1, <1>2, <1>3 DEF Init, TypeOK, SetupPoints
<1>5. Len(file) = 0 /\ Len(console) = 0  BY <1>2 DEF Init
<1>6. Console
  BY <1>3, <1>5 DEF Console, Below, Numbered, ShownOnce, OneHolder, Holds, Placed, Whole
<1>7. DaysOK
  BY <1>3, <1>5
  DEF Init, DaysOK, HeadsKnown, DayOfHeader, PrevKnown, HasHeader, RecordsKnown
<1>8. DatesOK
  <2>1. \A days : WrittenIn(file, days) = {} /\ PendingIn(frames, days) = {}
    BY <1>3, <1>5 DEF WrittenIn, PendingIn, Depth
  <2>2. \A days : Dates(days) = Cardinality(WrittenIn(file, days))
                                + Cardinality(PendingIn(frames, days))
    BY Zenon DEF Dates, WrittenIn, PendingIn, Depth
  <2>3. Cardinality({}) = 0  BY FS_EmptySet
  <2>4. \A days : Dates(days) = 0  BY <2>1, <2>2, <2>3
  <2> QED  BY <2>4 DEF DatesOK
<1> QED  BY <1>4, <1>6, <1>7, <1>8 DEF IInv

LEMMA NextInv ==
  ASSUME IInv, [Next]_vars
  PROVE  IInv'
<1>1. CASE Settings \/ Midnight  BY <1>1, SettingsInv
<1>2. ASSUME NEW t \in Threads, Log(t)
      PROVE  IInv'
  BY <1>2, EnterStep DEF Log
<1>3. ASSUME NEW t \in Threads, Panic(t)
      PROVE  IInv'
  <2>1. PICK point \in {"filePanic", "fallback"} : Enter(t, TRUE, point)  BY <1>3 DEF Panic
  <2> QED  BY <2>1, EnterStep
<1>4. ASSUME NEW t \in Threads, Step(t)
      PROVE  IInv'
  BY <1>4, StepInv
<1>5. CASE UNCHANGED vars
  <2>1. UNCHANGED <<setup, initDay, today, prevDay, file, console, calls, frames>>
    BY <1>5 DEF vars, setupVars, outputs
  <2>2. TypeOK'  BY <2>1 DEF IInv, TypeOK, Depth
  <2>3. Console'  BY <2>1, Waits DEF IInv, InitShown
  <2>4. DaysOK'
    BY <2>1
    DEF IInv, DaysOK, HeadsKnown, Announced, Depth, DayOfHeader, PrevKnown, HasHeader,
        RecordsKnown
  <2>5. \A days : Dates(days)' = Dates(days)  BY <2>1 DEF Dates, Depth
  <2>6. DatesOK'  BY <2>1, <2>5 DEF IInv, DatesOK, HasHeader
  <2> QED  BY <2>2, <2>3, <2>4, <2>6 DEF IInv
<1> QED  BY <1>1, <1>2, <1>3, <1>4, <1>5 DEF Next

\* What the console and the days need is kept by every step of every thread, of
\* init and of the clock.
THEOREM Invariance == Spec => []IInv
<1>1. Init => IInv  BY InitInv
<1>2. IInv /\ [Next]_vars => IInv'  BY NextInv
<1> QED  BY <1>1, <1>2, PTL DEF Spec

\* Clock, outputs and frames have their types, whatever logs and panics.
THEOREM TypeCorrect == Spec => []TypeOK
<1>1. IInv => TypeOK  BY DEF IInv
<1> QED  BY <1>1, Invariance, PTL

\* console_p_record and console_p_panic hold the lock from their first write to
\* their last: whoever else logs meanwhile, the console shows each record and
\* report in one piece, but for what its own thread has to say within it.
THEOREM ConsoleIsWhole == Spec => []ConsoleWhole
<1>1. IInv => ConsoleWhole  BY DEF IInv, Console, Whole, ConsoleWhole, Unmixed
<1> QED  BY <1>1, Invariance, PTL

\* replace() makes one thread announce the new day: when a record of a day is in
\* the file its date is, or is about to be.
THEOREM DaysAreKnown == Spec => []DayKnown
<1>1. IInv => DayKnown  BY DEF IInv, DaysOK, HeadsKnown, Announced, DayKnown
<1> QED  BY <1>1, Invariance, PTL

\* However many threads see the day change, and however late each of them looked
\* at the clock, one date is written for each change of prev_day.
THEOREM OneDatePerChange == Spec => []DatesChange
<1>1. ASSUME IInv, NEW d \in Days
      PROVE  Dates({d}) <= Dates(Days \ {d}) + 1
  <2>1. Dates({d}) <= Dates(Days \ {d}) + (IF HasHeader /\ prevDay = d THEN 1 ELSE 0)
    BY <1>1 DEF IInv, DatesOK
  <2>2. \A days : Dates(days) = Cardinality(WrittenIn(file, days))
                                + Cardinality(PendingIn(frames, days))
    BY Zenon DEF Dates, WrittenIn, PendingIn, Depth
  <2>3. \A days : Dates(days) \in Nat
    BY <1>1, <2>2, WrittenFinite, PendingFinite DEF IInv, TypeOK
  <2> QED  BY <2>1, <2>3
<1>2. IInv => DatesChange  BY <1>1 DEF DatesChange
<1> QED  BY <1>2, Invariance, PTL

=============================================================================
