------------------------------- MODULE Logger -------------------------------
(***************************************************************************)
(* multiline-logger with a file and a console: Settings::init sets up the  *)
(* panic hook, the outputs and the logger, and the threads of a program    *)
(* log records and panic.  The day is read from the clock, swapped with    *)
(* prev_day under its lock, and then the record is written to the file, in *)
(* several writes and without a lock, and to the console, whose lock       *)
(* (std's for stderr, one that its owner may take again) is held from the  *)
(* first to the last write.                                                *)
(*                                                                         *)
(* A message is formatted while it is being written: its Display impls are *)
(* code of the program, and may log or panic themselves.  So may the       *)
(* handler that a panic is passed to, except that a second panic aborts    *)
(* the program, which is not modelled.                                     *)
(***************************************************************************)
EXTENDS Naturals, Sequences, FiniteSets

CONSTANTS
  Threads,
  MaxDay,    \* bound: the days are 0 (the first), 1, ..., MaxDay
  MaxCalls,  \* bound: records and panics of all threads
  MaxNesting \* bound: calls of a thread that are running at once

ASSUME LoggerAssumption == {MaxDay, MaxCalls, MaxNesting} \subseteq Nat
ASSUME ThreadsAssumption == IsFiniteSet(Threads)

VARIABLES
  setup,         \* what Settings::init does next, or "done", or "failed"
  initDay,       \* its date
  today,         \* the system clock
  prevDay,       \* Logger::prev_day
  file, console, \* what is written, in pieces
  calls,         \* the calls of log() and panic_handler() so far
  frames         \* frames[t]: those that are running, the innermost last

outputs == <<file, console>>
setupVars == <<setup, initDay>>
vars == <<setupVars, today, prevDay, outputs, calls, frames>>

SetupPoints == {"hook", "date", "open", "fileHeader", "consoleHeader", "logger", "level",
                "done", "failed"}

Days == 0..MaxDay
Messages == {"fileMessage", "consoleMessage"}
\* Where a guard of the console's lock is alive.
Locked == {"consoleDate", "consoleHead", "consoleMessage", "consolePanic", "consoleTrace",
            "fallbackPanic", "fallbackTrace"}
Points == {"swap", "fileDate", "fileHead", "filePanic", "fileTrace", "lock", "fallback", "handler"}
          \union Messages \union Locked

\* A call is known by its thread and a number; date: it has a date to write.
Calls  == Threads \X (1..MaxCalls)
Frames == [call : Calls, panic : BOOLEAN, day : Days, date : BOOLEAN, at : Points]
Pieces == [call : Calls \union {<<>>}, part : {"date", "head", "message", "panic", "trace", "fallback"}, day : Days]

Depth(t) == Len(frames[t])
Top(t)   == frames[t][Depth(t)]
Holds(t) == \E i \in 1..Depth(t) : frames[t][i].at \in Locked

-----------------------------------------------------------------------------

At(t, point) == frames[t] # <<>> /\ Top(t).at = point

Goto(t, point) == frames' = [frames EXCEPT ![t][Depth(t)].at = point]

Piece(t, part) == [call |-> Top(t).call, part |-> part, day |-> Top(t).day]

\* A piece stands for one or more writes; those to the file are each a write of
\* their own, and other threads' come in between.
ToFile(t, part) ==
  /\ file' = Append(file, Piece(t, part))
  /\ UNCHANGED <<setupVars, today, prevDay, console, calls>>

ToConsole(t, part) ==
  /\ console' = Append(console, Piece(t, part))
  /\ UNCHANGED <<setupVars, today, prevDay, file, calls>>

Pop(t) ==
  frames' = [frames EXCEPT ![t] = SubSeq(@, 1, Depth(t) - 1)]

\* The program runs: outside the logger, in the Display of a message, or in the
\* panic handler.
Runs(t) == frames[t] # <<>> => Top(t).at \in Messages \union {"handler"}

Enter(t, panic, point) ==
  /\ Runs(t)
  /\ calls < MaxCalls /\ Depth(t) < MaxNesting
  /\ calls' = calls + 1
  /\ frames' = [frames EXCEPT ![t] = Append(@,
       [call |-> <<t, calls + 1>>, panic |-> panic, day |-> today, date |-> FALSE, at |-> point])]
  /\ UNCHANGED <<setupVars, today, prevDay, outputs>>

-----------------------------------------------------------------------------
(* Logger::log, for a record that is enabled.                              *)

\* log's macros drop a record while no level is set.  now() comes before the
\* lock of prev_day.
Log(t) == setup = "done" /\ Enter(t, FALSE, "swap")

\* The record has its date if the day is a new one.
Stamp(t, date) ==
  frames' = [frames EXCEPT ![t][Depth(t)].date = date,
                           ![t][Depth(t)].at = IF date THEN "fileDate" ELSE "fileHead"]

\* Mutant: the day is counted on, not taken over.
SwapDayCount(t) ==
  /\ At(t, "swap")
  /\ prevDay' = IF prevDay # Top(t).day THEN prevDay + 1 ELSE prevDay
  /\ Stamp(t, prevDay # Top(t).day)
  /\ UNCHANGED <<setupVars, today, outputs, calls>>

\* Mutant: the day is compared and not replaced.
SwapDayKeep(t) ==
  /\ At(t, "swap")
  /\ prevDay' = prevDay
  /\ Stamp(t, prevDay # Top(t).day)
  /\ UNCHANGED <<setupVars, today, outputs, calls>>

\* replace() under the lock of prev_day, which no panic can poison: nothing
\* but the replacement happens while it is held.
SwapDay(t) ==
  /\ At(t, "swap")
  /\ prevDay' = Top(t).day
  /\ Stamp(t, prevDay # Top(t).day)
  /\ UNCHANGED <<setupVars, today, outputs, calls>>

FileDate(t) == At(t, "fileDate") /\ ToFile(t, "date") /\ Goto(t, "fileHead")

FileHead(t) == At(t, "fileHead") /\ ToFile(t, "head") /\ Goto(t, "fileMessage")

FileMessage(t) == At(t, "fileMessage") /\ ToFile(t, "message") /\ Goto(t, "lock")

StartConsole(t) ==
  /\ Goto(t, IF At(t, "fallback") THEN "fallbackPanic"
             ELSE IF Top(t).panic THEN "consolePanic"
             ELSE IF Top(t).date THEN "consoleDate" ELSE "consoleHead")
  /\ UNCHANGED <<setupVars, today, prevDay, outputs, calls>>

\* Mutant: the console is written to without its lock.
LockConsoleNever(t) == (At(t, "lock") \/ At(t, "fallback")) /\ StartConsole(t)

\* Mutant: a thread that has the lock must wait for it all the same.
LockConsoleOnce(t) ==
  /\ At(t, "lock") \/ At(t, "fallback")
  /\ \A u \in Threads : ~Holds(u)
  /\ StartConsole(t)

LockConsole(t) ==
  /\ At(t, "lock") \/ At(t, "fallback")
  /\ \A u \in Threads \ {t} : ~Holds(u)
  /\ StartConsole(t)

ConsoleDate(t) == At(t, "consoleDate") /\ ToConsole(t, "date") /\ Goto(t, "consoleHead")

ConsoleHead(t) == At(t, "consoleHead") /\ ToConsole(t, "head") /\ Goto(t, "consoleMessage")

\* The lock goes with the frame, unless an outer one holds it too.
ConsoleMessage(t) == At(t, "consoleMessage") /\ ToConsole(t, "message") /\ Pop(t)

-----------------------------------------------------------------------------
(* panic_handler.                                                          *)

Panicking(t) == \E i \in 1..Depth(t) : frames[t][i].panic

\* The hook looks for the logger: before it is set, the panic is only shown.
Panic(t) ==
  /\ setup # "hook" /\ ~Panicking(t)
  /\ Enter(t, TRUE, IF setup \in {"level", "done"} THEN "filePanic" ELSE "fallback")

FilePanic(t) == At(t, "filePanic") /\ ToFile(t, "panic") /\ Goto(t, "fileTrace")

FileTrace(t) == At(t, "fileTrace") /\ ToFile(t, "trace") /\ Goto(t, "lock")

ConsolePanic(t) == At(t, "consolePanic") /\ ToConsole(t, "panic") /\ Goto(t, "consoleTrace")

ConsoleTrace(t) == At(t, "consoleTrace") /\ ToConsole(t, "trace") /\ Goto(t, "handler")

FallbackPanic(t) ==
  At(t, "fallbackPanic") /\ ToConsole(t, "fallback") /\ Goto(t, "fallbackTrace")

\* The handler of the program is not called.
FallbackTrace(t) ==
  /\ At(t, "fallbackTrace") /\ ToConsole(t, "fallback")
  /\ frames' = [frames EXCEPT ![t] = <<>>]

\* The handler returns and the stack unwinds, out of log() if the panic came
\* from a message: that record is never finished.
Unwind(t) ==
  /\ At(t, "handler")
  /\ frames' = [frames EXCEPT ![t] = <<>>]
  /\ UNCHANGED <<setupVars, today, prevDay, outputs, calls>>

-----------------------------------------------------------------------------

(* Settings::init, once; the program may have started threads before.      *)

Setup(point, next) == setup = point /\ setup' = next

SetHook ==
  /\ Setup("hook", "date")
  /\ UNCHANGED <<initDay, today, prevDay, outputs, calls, frames>>

ReadDate ==
  /\ Setup("date", "open")
  /\ initDay' = today
  /\ UNCHANGED <<today, prevDay, outputs, calls, frames>>

\* Mutant: the day is read from the clock again.
OpenFileLater ==
  /\ Setup("open", "fileHeader")
  /\ prevDay' = today
  /\ UNCHANGED <<initDay, today, outputs, calls, frames>>

\* The file is made, and prev_day with the logger.
OpenFile ==
  /\ Setup("open", "fileHeader")
  /\ prevDay' = initDay
  /\ UNCHANGED <<initDay, today, outputs, calls, frames>>

\* It cannot be made: init panics, which the hook shows on the console.
OpenFails ==
  /\ Setup("open", "failed")
  /\ \A t \in Threads : ~Holds(t)
  /\ console' = Append(console, [call |-> <<>>, part |-> "fallback", day |-> initDay])
  /\ UNCHANGED <<initDay, today, prevDay, file, calls, frames>>

Header == [call |-> <<>>, part |-> "date", day |-> initDay]

FileHeader ==
  /\ Setup("fileHeader", "consoleHeader")
  /\ file' = Append(file, Header)
  /\ UNCHANGED <<initDay, today, prevDay, console, calls, frames>>

ConsoleHeader ==
  /\ Setup("consoleHeader", "logger")
  /\ \A t \in Threads : ~Holds(t)
  /\ console' = Append(console, Header)
  /\ UNCHANGED <<initDay, today, prevDay, file, calls, frames>>

SetLogger ==
  /\ Setup("logger", "level")
  /\ UNCHANGED <<initDay, today, prevDay, outputs, calls, frames>>

SetMaxLevel ==
  /\ Setup("level", "done")
  /\ UNCHANGED <<initDay, today, prevDay, outputs, calls, frames>>

Settings == SetHook \/ ReadDate \/ OpenFile \/ OpenFails \/ FileHeader \/ ConsoleHeader
            \/ SetLogger \/ SetMaxLevel

-----------------------------------------------------------------------------

Midnight ==
  /\ today < MaxDay
  /\ today' = today + 1
  /\ UNCHANGED <<setupVars, prevDay, outputs, calls, frames>>

Init ==
  /\ setup = "hook" /\ initDay = 0
  /\ today = 0 /\ prevDay = 0
  /\ file = <<>> /\ console = <<>>
  /\ calls = 0
  /\ frames = [t \in Threads |-> <<>>]

Step(t) ==
  \/ SwapDay(t) \/ FileDate(t) \/ FileHead(t) \/ FileMessage(t)
  \/ LockConsole(t) \/ ConsoleDate(t) \/ ConsoleHead(t) \/ ConsoleMessage(t)
  \/ FilePanic(t) \/ FileTrace(t) \/ ConsolePanic(t) \/ ConsoleTrace(t)
  \/ FallbackPanic(t) \/ FallbackTrace(t) \/ Unwind(t)

Next == Settings \/ Midnight \/ \E t \in Threads : Log(t) \/ Panic(t) \/ Step(t)

Spec == Init /\ [][Next]_vars

\* A thread that is scheduled goes on; the console's lock is free again and
\* again, and with MaxCalls free for good when the others are done.
FairSpec == Spec /\ \A t \in Threads : WF_vars(Step(t))

-----------------------------------------------------------------------------

\* Clock, outputs and frames have their types.
TypeOK ==
  /\ setup \in SetupPoints /\ initDay \in Days
  /\ today \in Days /\ prevDay \in Days
  /\ file \in Seq(Pieces) /\ console \in Seq(Pieces)
  /\ calls \in 0..MaxCalls
  /\ frames \in [Threads -> Seq(Frames)]
  /\ \A t \in Threads : Depth(t) <= MaxNesting

\* Nothing comes between two pieces of one call, but for what its own thread
\* logs, or panics with, on the way.
Unmixed(output, i, k) ==
  \A j \in i..k : output[j].call[1] = output[i].call[1]

\* On the console, no thread writes into a record or a report of another.
ConsoleWhole ==
  \A i, k \in 1..Len(console) :
    i < k /\ console[i].call = console[k].call => Unmixed(console, i, k)

\* A record in the file is the lines that the doc comment of Record shows:
\* no thread writes between the head of another's record and its message.
FileWhole ==
  \A i, k \in 1..Len(file) :
    file[i].call = file[k].call /\ file[i].part = "head" /\ file[k].part = "message" =>
      Unmixed(file, i, k)

\* The file tells of every day that it has records of: its date is there, or a
\* thread is about to write it.
DayKnown ==
  \A i \in 1..Len(file) : file[i].part = "head" =>
    \/ \E j \in 1..Len(file) : file[j].part = "date" /\ file[j].day = file[i].day
    \/ \E t \in Threads : \E k \in 1..Depth(t) :
         frames[t][k].at = "fileDate" /\ frames[t][k].day = file[i].day

\* A date is written once for each change of the day, however many threads see
\* the change: a day has at most one header more than all other days together.
\* (Midnight may be seen to come and go and come again, as the clock is read
\* before prev_day is locked, and each of these is a change.)
Dates(days) ==
  Cardinality({i \in 1..Len(file) : file[i].part = "date" /\ file[i].day \in days})
  + Cardinality({t \in Threads : \E k \in 1..Depth(t) :
                   frames[t][k].at = "fileDate" /\ frames[t][k].day \in days})
DatesChange == \A d \in Days : Dates({d}) <= Dates(Days \ {d}) + 1

\* Every call of log() comes back, and every panic is reported: nothing that
\* the program does while it is being written can hold it up for ever.
Returns == \A t \in Threads : frames[t] # <<>> ~> frames[t] = <<>>

=============================================================================
