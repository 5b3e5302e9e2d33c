# TLA+ specifications of rsutil

`rsutil` is a collection of small Rust crates. This directory holds TLA+ models
of the parts that keep state over many calls, their TLC configurations, and
TLAPS proofs about them. Line numbers below refer to the files of the
repository; `PROJECT.json` maps every definition to its lines.

- [Inventory](#inventory)
- [Modules](#modules)
- [Runs](#runs)
- [Proofs](#proofs)
- [Disagreements between code and documentation](#disagreements-between-code-and-documentation)
- [Not modelled](#not-modelled)
- [What is left](#what-is-left)

## Inventory

### just-kdl: a parser for KDL documents

| Part | State | Operations | Talks to |
|---|---|---|---|
| lexer input, `lexer.rs` 165-244 | the text's position; `buffer`, `buffer_len` | `peek(n)`, `advance(n)` | a `std::io::Read` below, the lexer above |
| lexer, `lexer.rs` | `cursor`, `next_skip` | `next_token(skip)` | its `Input`; pulled by the reader |
| numbers, `dom/number.rs` | `NumberBuilder`: a text, `state`, `base`; then `Number` | `step(char)`, `finish()`, `coerce_to_f32/f64`, conversions | fed by the lexer one character at a time, or by `FromStr` |
| strings being built, `ssb2.rs` | a buffer and its size, or a `String` | `push`, `push_str`, `push_repeated`, `truncate_floor`, `swap_0` | used by the lexer for every text |
| reader, `reader.rs` | `state`, `brackets`, `peek_token` | `next()`, `skip_to_end()` | pulls tokens from the lexer, pulled for events by the program |
| validator, `validator.rs` | `nest`, `state` | `push(event)`, `done()` | is shown events by the program |
| document to events, `dom/iter.rs` 103-232 | a stack of node iterators, `top` | `next()` | walks a `Document` |
| events to document, `dom/iter.rs` 20-66 | a stack of unfinished nodes | `push(event)`, `from_iter` | is fed any iterator of events |
| writer, `writer.rs` | `indent`, `state` | `push(event)` | is fed events, writes text |
| documents, `dom.rs` | data | `normalize`, lookups by key, accessors | built by the builder |

Everything in just-kdl is sequential. What is hard is the *protocol*: the reader
is a hand-written state machine that is suspended at every event, may be asked
to skip at any moment, looks one token ahead under one mode and may be called
again under another, and keeps what it must know about enclosing blocks in a
stack of booleans. Builder, validator and writer each reconstruct the nesting
of the events from less than a stack. What makes the parts correct is that they
agree:

- the reader's events are structurally valid, as the validator defines it, or
  it returns an error; it never panics; skips end where they should; calls return;
- the validator accepts exactly the streams of the grammar that `dom.rs` and
  `validator.rs` describe;
- document to events to document, and events to text to events, are the identity;
- the lexer is shown every byte once, in order, however the reader delivers them;
- the lexer's tokens follow the rules that the reader takes for granted, each
  error and its recovery make progress, and a comment ends where it ends;
- a number that is accepted is one of KDL, and keeps its value; a string being
  built holds what was put into it;
- `normalize` leaves every lookup as it was.

### multiline-logger: a logger for the `log` crate

| Part | State | Operations |
|---|---|---|
| `Logger`, `lib.rs` | `prev_day` behind a mutex | `log(record)`, from any thread; `panic_handler`, from any panic |
| native outputs, `sys_native.rs` | a file; stderr with its lock | header, record and panic report on each |
| web output, `sys_web.rs` | the browser's console | the same, on one thread |

This is the concurrent part: threads meet between any two writes to the file, at
the lock of the console and at the mutex, messages run code of the program
while they are being written, and midnight passes. What makes it correct: the
outputs stay legible, each day is announced once, a crash is reported, and
nobody waits for ever.

### miny: a box that stores small values in its own pointer

| Part | State | Operations |
|---|---|---|
| `Miny<T>`, `lib.rs`, `impl.rs` | one word, `data`: the value or a pointer, and the metadata of `T` | `new`, `unsize`, `into_inner`, `downcast`, `into_box`, `From<Box>`, `DerefMut`, `Drop` |

Whether the word is a value or a pointer is nowhere stored: each operation
computes it again from the layout of the type it sees. What makes the crate correct:
every value has one owner and is dropped once, and every block of memory is given
back exactly once, with the layout it was allocated with.

### The other crates

`punch-card` (a type-level parser of `..=` chains) and `iter-debug` (a cell that is
emptied when it is printed) keep no state over calls.

### Hazards

`PROJECT.json` lists, at their lines, what can go wrong in this code that tests
would hardly reach, with the properties that watch it. The worst of them: the
boolean pushed at `reader.rs:269`, which is popped many tokens later and decides
whether a skip has ended; the counter of `skip_bracketed` (`reader.rs:341`),
which sees only one kind of bracket; `peek_token`, lexed under one skip mode and
used under another; the validator's and the writer's counters, which go down on
events whose meaning depends on what came before; `next_skip`, which one call of
the lexer leaves for the next to finish, and the counts of nested comments that go
with it (`lexer.rs:1111`); the bytes of an inline string behind its size
(`ssb2.rs:119`); the layouts that `miny` computes anew at each conversion; and
the order of "swap the day" and "write the date" in the logger.

## Modules

| Module | Models | Extends / instantiates |
|---|---|---|
| `EventStream` | the grammar of event streams: abstract, with a stack | |
| `Validator` | `validator.rs` | INSTANCE `EventStream` as its abstraction |
| `Reader` | `reader.rs` | |
| `KdlStream` | a program that reads a document and validates its events | EXTENDS `Reader`, INSTANCE `Validator` |
| `Dom` | `dom/iter.rs`, both directions, with a validator in between | INSTANCE `Validator` |
| `MCDom` | small documents for `Dom` | EXTENDS `Normalize` |
| `WriteRead` | `writer.rs` piped into the reader | EXTENDS `Reader`, `Validator` |
| `Input` | what the trait `lexer::Input` promises: abstract | |
| `ReadInput` | `lexer::ReadInput` | INSTANCE `Input` as its abstraction |
| `Multiline` | multi-line strings in `lexer.rs`, read and skipped | |
| `MCMultiline` | characters for `Multiline` | EXTENDS `Multiline` |
| `Normalize` | `Document::normalize` and the lookups, on what `Dom` has built | EXTENDS `Dom` |
| `Lexer` | `lexer.rs` but for the two above | |
| `Number` | `dom/number.rs` and the loop of the lexer that feeds it | |
| `Ssb2` | `ssb2.rs` | |
| `Logger` | `multiline-logger`, with `Settings::init` | |
| `Owner` | what a box promises of its values: abstract | |
| `Miny` | `miny` and the allocator below it | INSTANCE `Owner` as its abstraction |
| `MCMiny` | layouts for `Miny` | EXTENDS `Miny` |
| `EventProofs` | theorems on `Validator` and on `WriteRead` | EXTENDS `WriteRead` |
| `TextProofs` | theorems on `Multiline`, `Number` and `Ssb2` | EXTENDS these three |
| `KdlStreamProofs`, `DomProofs`, `ReadInputProofs`, `MinyProofs`, `LoggerProofs`, `LexerProofs` | theorems | EXTENDS the module of that name |

**Reader.** The function `next_inner_event` with its nested helpers
(`skip_spaces`, `maybe_slash_dash`, `maybe_type`, `value`, ...) is cut at every
place where it may ask the lexer for a token; the variable `at` says at which of
those it stands, and `sd`, `spaces` and `text` are its locals. `state` and
`brackets` are the fields, the payload of `State` written into the names. The
three callers of `next_inner_event` (`next_event`, `skip_bracketed` called from
it, and `skip_to_end`) are `call`, `skipping` and `counter`. One action is one
stretch of code between two tokens. The lexer is nondeterministic: `Peek` gives
any token it could give there (`Lexable`: no two `Spaces` in a row, the end of
the input stays the end, and so on) or fails (`LexError`). Text is abstracted to
whether it is there or was skipped. Every document, valid or not, is so a
behaviour of the model, up to the depth of open brackets.

**KdlStream.** The program calls `next()` and `skip_to_end()` in any order. A
`Validator` sees the events while they can be explained to it: after an error,
or after a skip outside any node, it is dropped. Two constants name the inputs
and programs for which the properties fail, so that the theorems can exclude
exactly those: `SlashDashAfterChildren` (the document has a slashdashed block
behind a node's block) and `ResumeAfterError` (the program goes on after
`skip_to_end()` returned an error).

**Dom.** One action per way in which `GenericIter::next` returns; the same
action makes the builder and the validator take the event, since `from_iter`
pulls one event at a time. An `unwrap` on `None` is the outcome "Panic". The
history variable `path` holds the nodes of the original document that are open.

**WriteRead.** What `Writer::push` writes is given as the tokens it lexes to; a
line break with its indentation is one token. `IdentDisplay` is modelled by what
it does to a text: it comes out as a string token, or, when the text spells a
keyword or has a NUL in it, as something the lexer refuses. So does a number that was
made of a NaN. Which texts and numbers are written is what the constants `Texts` and
`Numbers` say. The writer produces the next event's
text when the reader has used up all there is, so that `due` measures how
far the reader lags behind. Only events that the `Validator` accepts are written
(its `state` is called `vstate`, to leave the name to the reader's).

**ReadInput.** A byte is known by its offset in the text; the integer that the
buffer is shifted as is a function from slots to offsets. `read()` may deliver any
part of what fits, be interrupted (which changes nothing), fail, or end.

**Multiline.** `multiline_string_regular` keeps a whole string and checks the
indentation of its lines when it meets the closing quotes;
`multiline_string_skip` keeps one indentation and shortens it as it goes. The
model gives the same text to both, one item at a time: an action is an item,
and conjoins what each function does with it. The locals that only matter within
one item are left out; `at` says in which of its loops the skipping function
stands. A character is the sequence of its UTF-8 bytes. The skipping function compares
indentations byte by byte, and what it leaves when it stops inside a character is not
UTF-8 (`BreaksInside`); the reading one cuts lines at a number of bytes, and panics when
that is within a character (`CutsThrough`). The constants say which texts there are, those on
which the two disagree included: `BlankStart`, `Unclosed`, and the characters (`Spaces`,
`Breaks`, `Visible`), of which `DistinctLeads` says that the first byte tells a space from
everything else, as in any text that is indented by blanks and tabs.

**Normalize.** Adds one action to `Dom`: when the document has been built, it is
normalized. `None` as an entry's name stands for a value; the code's marker, an
empty string known by its address, is a name of its own. `Height` is no state of the code: it
says that trees are finite.

**Lexer.** One call of `next_token` is cut at each turn of each of its loops. `at`
names the loop, `outer` the loop that a continuation or comment was met in, and the
locals keep their names. The text is unbounded and arbitrary: a step extends
`ahead`, what `peek` has shown, by any characters it depends on (`View`), and drops
what it passes. Characters are classes, and a run of identifier characters is one
"word". Whether a run is a good number, and whether a multi-line
string is indented well, are outcomes; `Number` and `Multiline` compute
them. A call may be asked to skip text or not, and the program goes on after
errors, so that every recovery is exercised. A multi-line string that is skipped goes
through the point `"indent"` in addition, the loop that matches the indentation of a line; it
turns for ever at the end of the text, which the constant `Unclosed` excludes. How much
of the white space it takes, and whether it stops inside a character, is any outcome. `nest` and `half` follow the text's
block comments independently of the code, for `CommentsMatch`.

**Number.** The builder's transitions are a function from its state and a
character to what it pushes and where it goes. `Meanings` defines the numbers of
KDL the other way, by taking a whole text apart, with its value. A float that
comes from the program is kept as Rust prints it; how digits become a float and
back is the standard library's and is not modelled.

**Ssb2.** Bytes are pairs of a character and a position in its encoding. `string`
is the string as asked for, in characters.

**Miny.** A handle is a `Miny` or a `Box` of the program, `heap` the allocator's
blocks with their layouts. An operation that is one call is one action, what it does
to memory spelt out: `Freed` gives a block back under the layout that the code
computes there. `Owner` knows none of this, only who has which value.

**Logger.** `setup` walks through `Settings::init`, which may fail to make its file,
while other threads already run and may panic. Every thread has a stack of running calls, since a message that is
being formatted may log or panic, and a panic's handler may log. A call goes through points: read the
clock, swap the day, write the pieces to the file, take the console's lock,
write the pieces there. The lock is not a variable: it is held by the frames
that stand between its first and its last write, as Rust's guards are, and it can
be taken again by the thread that has it. A panic inside a message leaves all
frames of its thread behind once it is reported.

## Runs

| Run | Question | Bounds | Distinct states |
|---|---|---|---|
| `stream` | reader and validator agree on all documents | `MaxDepth` 3 | 336,740 |
| `validator` | `Validator` implements `EventStream` | `MaxNest` 20 | 103 |
| `dom` | documents survive being taken apart and rebuilt, and lookups being normalized | blocks of up to 2 nodes, 3 deep below the top | 50,279 |
| `write_read` | events survive being written and read | `MaxNest` 4 | 6,533 |
| `read_input` | `ReadInput` implements `Input` | 7 bytes, buffer of 4 | 409 |
| `lexer` | tokens keep their promises and errors make progress, on all texts | `MaxNest` 2, `MaxHashes` 3 | 33,881 |
| `number` | the numbers of KDL are accepted and keep their values | texts of up to 5 characters, `MaxInt` 15 | 373,047 |
| `ssb2` | strings hold what was put into them | 5 bytes inline, 8 in all, characters of 1 to 3 bytes | 18,660 |
| `logger` | `init`, two threads, a midnight, panics | 3 calls in all, nested up to 3 deep | 493,727 |
| `miny` | values have one owner, memory is given back as it was taken | 2 handles, 7 values, 2 addresses, a word of 2 | 39,552 |
| `multiline` | skipping a multi-line string accepts what reading it does | indentations of up to 2, of two kinds of space, of one byte and of two | 5,656 |
| `late_slashdash_panic` | a violation, see below | as `stream` | |

What the properties say is written above each of them. In short:

- `stream`: `ValidStream` (no event is refused, and the stream of a document that
  parses is closed), `NoPanic`, `DepthAgrees` (between calls the reader is as
  deep as its events say: skips are exact), `LookaheadFits` (no token that was
  skipped is given out, and no name or value that is commented out keeps its
  text), `CallReturns` (liveness).
- `validator`: `IsStreamGrammar`, a refinement. The mapping rebuilds the stack
  from the counter: only the innermost open node can still take entries.
- `dom`: `ValidEvents` (the validator refuses nothing, no unwrap fails),
  `RoundTrip`, `Conserved` (in every open block: nodes built, node open and
  nodes to come are the original block), `LookupsKept` (in the normalized document every
  key and every position finds what it found before, and no property is
  overridden), `Finishes` (liveness).
- `write_read`: `RoundTrip`, `IndentIsDepth`, `Prompt` (the reader lags at most
  four events behind the writer), `Delivered` (liveness).
- `read_input`: `IsInput`, a refinement; `TypeOK` holds the code's assertions.
- `multiline`: `SkipAgrees` (the same result, at the same item, unless reading panics;
  that it may is shown by `NoPanic`, see below).
- `lexer`: `Promised` (the order of tokens that `Reader!Lexable` assumes),
  `Progresses` (of two calls one passes text or ends), `CommentsMatch` (the code is in
  a comment, or about to recover from one, exactly when the text is),
  `WholeNewlines` (CR LF is one newline), `EofComes` (liveness).
- `number`: `AcceptsNumbers` (the language, and no text is given up before it is
  hopeless), `KeepsValue`, `CoercesToValue` (an integer in any base; where it does not fit
  the integers it goes through, the infinity of its sign, which the comment at `number.rs:86`
  means by "saturating overflows").
- `ssb2`: `Faithful`.
- `logger`: `ConsoleWhole`, `DayKnown`, `DatesChange`, `Returns` (liveness).
- `miny`: `HeapExact` (every block has one handle, which will free it with its
  own layout), `Owns`, a refinement.

**Why the bounds suffice.** Three brackets let the reader be in a plain block in
a slashdashed block in a plain one, the shortest chain in which every
interaction of `skip_bracketed` with `brackets` occurs (skips count one kind of
bracket, and a pushed boolean matters when it differs from its neighbours); the
theorems then cover every depth. Seven bytes against a buffer of four let the
buffer be filled, emptied, refilled and run out. `MaxNest` of `Validator` only
bounds a counter. Three calls let two threads race for a day while one of them is nested, or
a panic meet both a half-written record of its own thread and the lock of the
other; two threads are enough for `prev_day` to go back and forth. Documents are small because the
proofs are for all of them.

A string may have any number of lines and of items; with two kinds of space and
indentations of two, each new line can equal, shorten, lengthen or contradict the
indentation kept so far (the proof covers the rest). The two differ in width, so that
lines can be cut between characters and within one.

Comments in comments are counted: two levels have every transition, to a level and back, next
to the outermost one. Three hashes are one more than the number that the closing of a string
is compared with at each length. Five characters are the shortest text with a base
prefix, a sign and two digits, or a fraction and an exponent (six characters, run once,
give 2,373,717 states and no error); `MaxInt` stands for the integers that `f32` and
`f64` are converted through, so that two hexadecimal digits overflow it. Five bytes
hold one character of three bytes and one of two, so that the move to the heap and a
truncation each fall before, in and behind characters of every width. Seven values have all
layouts that the code distinguishes: of no size or some, small or large, aligned to a byte, a
word or more; two handles of one layout let a block be freed twice or be used by both.

**Fairness.** In `stream` it is on `ReadStep` only: a call that was made is
executed. The program may stop calling, and the input is not assumed to end:
`CallReturns` starts from its end. In `write_read` the consumer is a loop that
reads, so its actions are fair; the producer's are not. In `dom`, `from_iter` is
a loop. In `logger` every thread that is in a call is scheduled; calling is not
fair. In `lexer` the caller goes on until the end, past errors, as the loop of the
tests does, and `EofComes` starts when the text has ended; a step that only goes round a
loop again without a change is no progress, so that a call which does so for ever fails it
(`Unclosed = TRUE`). The lock of the console is assumed to be given to a waiting thread when it
stays free.

**Deadlock** is not checked where the modelled program may stop, after the end of
its input, an error or its last call. It is checked in `lexer`, which can always be
called again, and in `ssb2`, which always takes a call.

**Mutants.** Operators that come with the comment "Mutant" are what a plausible
bug would make of the definition that follows; every property of every passing run is
violated when one of them takes its place (`mutants` in `PROJECT.json`). No
specification uses them.

## Proofs

All are checked by TLAPS with Z3, Zenon and LS4. Constants are as in the
`ASSUME`s of the modules: any depth, any documents, any length of text.

**`EventProofs`, the validator.** `TypeCorrect`: in particular, a node that takes entries is
counted, so that the subtraction at `End` is safe. `ImplementsStream`: every
`push` and `done` is a step of `EventStream` under the mapping. `TypeOK` is
inductive and all that is needed.

**`EventProofs`, writer and reader.** `EventsComeBack` (`RoundTrip`), `ReadsPromptly`
(`Prompt`) and `WriteReadTypes` for streams of any length and depth, provided no name,
key, type hint or string spells a keyword or has a NUL in it, and no number is a NaN
(`TextsLex`; without it the text is refused, see below); `IndentsByDepth` without this condition. None is inductive, as none says what
stands in the text. `IInv` has four parts:

- `Calm`: such a text is read by `next()` alone, without a skip, a slashdash or an error;
- `Writer`: `wstate` and the validator's `vstate` say the same of the writer, and
  `IndentIsDepth`; this part alone is inductive;
- `Pipe`: the text consists of tokens that can be lexed;
- `Place`: for each control point of the reader, what the peeked token and the text
  behind it may be, and that the writer stands behind that text: which state it is in,
  which events are due, how many nodes are open (`Stands`). The events are those that the
  program holds (`Held`) and those that the reader will tell from this very text. Between
  the entries of a node, for instance (`AtEntries`, `NodeText`), the text is empty and the
  writer still in the node, or has ended it without a trace; or it is a space and an entry
  or a brace; or a line break and what may follow one, and then an `End` is due too.

`RoundTrip` and `Prompt` follow, since what is due begins with what is held and is at
most three events longer (`Front`). Each kind of step has its lemma. The reader gets a
token: it moves from the text to `peek_token`, and the places do not notice
(`PlaceRead`). The writer goes on: what it writes for the event (`NodePiece`,
`EntryPiece`, `BracePieces`) is what may follow where it stood (`PieceStands`, `PlaceProduce`).
The program takes an event: one due event less at every place (`Taken`). The
reader takes a token: `Peeked` says which it can be and `Advanced` where it leads, so that each
action of `Parse` has but one or two cases, and `SlashDash`, `BadEntry` and every `Fail` none.

**`KdlStreamProofs`.** `StreamIsValid`, `NeverPanics`, `SkipsAreExact`,
`TypeCorrect`, for every `MaxDepth`, provided neither of the two excluded
situations occurs. None of these is inductive: inside a skip, the reader runs
ahead of the events it gives out. The invariant `IInv` is `TypeOK` and `Control`
(where the control stands and what it knows there), `Stopped`, and `Linked`,
which says how far ahead it is:

- outside a skip, `nest = Depth`, and no bracket is slashdashed;
- while `next()` skips a node, `Depth = nest + 1 + counter`;
- while `skip_to_end()` skips, `Depth = nest + counter`;
- while a slashdashed block is skipped, the outermost slashdashed bracket is
  number `nest`, and there are `counter + 1` slashdashed brackets in all,
  which is why counting only `ChildrenSd` against `EndSd` is right.

The proof sorts the steps of the reader by the inner event they emit (`Emits`),
then treats each of the four skip modes in a lemma. It shows where the code's
correctness hinges on `brackets`: with a slashdashed block behind a node's block
(`SlashDashAfterChildren`) the last item fails.

`LookaheadIsRight` states `LookaheadFits` under the same conditions. It needs one
more invariant, `Peeked`: a skipped token in `peek_token` means that a skip runs, or
that the node or entry at hand is commented out, unless the reader stops or has
failed. The token behind a string is the case to watch (`StringArgument`): it is
peeked under the skip mode of the caller alone, since it may begin the next entry.

**`DomProofs`.** `RoundTripCorrect`, `EventsAreValid`, `NothingLost`,
`TypeCorrect` for any set of documents. `IInv` adds to these `Linked` (each node
being built is a part of the original node on `path`: its name, the entries so
far) and `Counted` (the validator's `nest` is the number of open nodes).

**`DomProofs`, normalizing.** `NormalizingKeepsLookups` (`LookupsKept`), for documents of any depth
and nodes with any entries, provided only that trees are finite (each node has a `Height` and its
children a smaller one, which is also why the code's recursion ends) and that no entry has the marker for
a name. `MarkedIs` says what the walk from the back marks: the properties whose key comes again
(`Kept`); `RetainedPicks` that what is left is as before, in its order. So `was`, the place where each
entry stood, is increasing and meets every kept entry (`Normalizes`). The last property of a
key is kept, and it alone (`LastOfKey`, `KeptOnce`); all values are, so that each has as many values before it
as it had (`ValuesCounted`). `NormalNode` and `Alike` are recursive functions over trees; that they
satisfy their equations (`NormalNodeIs`, `AlikeIs`) and that a node becomes one that is like it
(`NormalIsAlike`) is proved by induction over the height.

**`ReadInputProofs`.** `ImplementsInput` and `TypeCorrect`, for any text and any
buffer size. The invariant `Window` says that the buffer holds the bytes from the
cursor to the reader's offset, during a call as well.

**`TextProofs`, multi-line strings.** `SkippingIsReading` and `TypeCorrect`, for spaces of any
number and width and indentations of any length, provided the first line is not blank,
the input does not end within an indentation, and the first byte of a space tells it from all
other characters (`DistinctLeads`; then a match of bytes never breaks inside a character,
`NeverInside`). Where reading panics there is nothing to agree with, and `SkippingIsReading` says
nothing. The invariant says that after
each line `indent` is the longest common beginning of the indentations of all
non-blank lines so far (`Common`), and within a line, that `truncate` is how much
of it this line shares (`Match`) and `leading` whether the line goes on differently.
Hence the closing quotes' indentation begins every line's if and only if
`leading` is FALSE, which is what the code tests.

**`TextProofs`, the string builder.** `BuilderIsFaithful`, for an inline buffer of any size and strings of
any length, in a debug build in which no string is extended after it was truncated (with either
hypothesis dropped it is false, see below). `Faithful` is not inductive. `BuilderInv`
adds what the buffer has behind the string: its next byte continues no
character, and it is all zeros unless the string was truncated. The first is what makes it right that
`truncate_floor` searches the whole buffer for a boundary, the second what keeps it true when
the string grows. What is bounded in a run, the encoding of a string, is here of any
length: `Encoding` is a `FlattenSeq`, which is defined with a recursive
function. That there is one such function and only one, and the laws that follow (`FlattenAppend`,
`EncodingConcat`, `Floor`, ...), are proved by induction (`NatInductionSet`, `SeqInductionSet`).

**`TextProofs`, numbers.** `NumbersAreAccepted`, for texts of any length, provided no slash directly
follows a number that is lexed. The invariant is that what was read has the `Shape` of the builder's
state. A step takes one shape to the next (`ShapeGrows`); a text that is of a shape
came there by a step from the text without its last character (`ShapeShrinks`); no text is of two shapes
(`ShapeTells`): the builder is a deterministic automaton for the shapes. Those
of the final states are what `Meanings` takes apart as a number (`FormFinal`, `MeaningsForm`), and from each
of the others one more digit leads to them or can never do so, which makes
`Hopeful` exact.

**`TextProofs`, what a number is kept as.** `NumbersKeepValue`, for texts of any length and floats that
are finite and printed without an exponent (for others it is false, see below), and `NumbersCoerce`,
for texts of any length and integers of any width, without a condition. `KeptInv` says for each state of the
builder how the text follows from what was read (`Kept`): a whole part without
underscores and perhaps without its first zero (`Lead`), the fraction without underscores, the
power with a big E and a sign that is always there. `KeptGrows` has a case for every arm of `step()`. A finished
number is then written, and its text is taken apart by the grammar: `PartsMeaning` and `BasedMeaning` say
that a text that is put together of the parts of a number means that number and nothing else, and
`LeadAgain`, `FractionAgain` and `PowerAgain` that what is kept of a part is again one, with the same meaning.
The value of an integer is a recursive function of its digits; that zeros in front add nothing to it
(`NoZerosValue`) is proved by induction.

**`MinyProofs`.** `NothingLeaks`, `ImplementsOwner` and `OneOwner`, for any number
of handles, values, addresses, any layouts and any word, provided `into_box` is given no
value of no size that is aligned to more than a byte. `IInv` is the type
invariant and `HeapExact`. Every operation changes memory in one of four ways, each
a lemma: not at all (`Kept`), a free block is taken (`Allocated`), one is given back
(`Released`), or its contents are exchanged (`Overwritten`). The lemmas say what
that does to `HeapExact` and to the values the other handles have; what the
operations themselves compute is then a case distinction over layouts. `OneOwner` is an
invariant of `Owner`, carried over to `Miny`.

**`LoggerProofs`.** `ConsoleIsWhole`, `DaysAreKnown`, `OneDatePerChange` and
`TypeCorrect`, for any finite set of threads, any number of calls, days and nested
messages. None is inductive. `IInv` is made of three parts:

- `Console`: below its top a thread waits for a message or for the panic handler
  (`Below`); calls are told apart by their numbers (`Numbered`); one thread
  holds the lock (`OneHolder`); and a call has nothing on the console before it has the
  lock, and from its first piece on nobody else has written while it has it
  (`Placed`), which is what `ConsoleWhole` rests on;
- `DaysOK`: `prev_day` is announced as soon as `init` has written its header, and a
  record's head is only written for a day that is announced;
- `DatesOK`: a day has at most as many dates as all others together, or one more while
  it is `prev_day`. `DatesChange` alone is not inductive, as it forgets which of the
  days that is. Threads have to be finite for the dates to be counted
  (`ThreadsAssumption`).

Steps are sorted by what they do to the frames of the one thread that moves: its top
goes on (`Moved`), frames are left (`Cut`), or one is added (`Entered`). One lemma for
each of `Quiet`, `Writes`, `Begins` and `Shows` says what this does to the console.

**`LexerProofs`.** `ProgressMade` and `PromiseKept` for every text, `NewlinesAreWhole`
where no CR LF follows a line continuation, `TypeCorrect` and `CommentsAreMatched` where no
refused comment holds an overlapping pair; all for any nesting and any number of hashes.
The invariant speaks of the text that was seen and not yet passed, of which the
next step sees at least as much:

- `Core` holds of every text. Besides types it is `Places` (what `next_skip` is at each
  point: what is left to do should the call fail there), `Followed` (what the last token says of the
  text behind it: `Spaces` are in front of something that is no space, unless a failed call
  left the rest of them to `next_skip`), `Moving`, `Fresh` and `Stalled` (a call that passed nothing
  has left something to the next one that will pass some text: `BlankLeft`, or nothing but the end);
- `Nested`: the depth of comments by the text's own rule is that of the code plus one, or
  one off this while the recovery has passed half of a pair that it has counted;
- `Newline`: a CR that was passed without its LF is only in front of text that is no LF, or within
  a skip or recovery that passes either.

`Seeing` says what `peek()` shows and `advance()` leaves, once for all actions; then there is
one lemma per action (`SpacesKeeps`, ...) for all the parts it can disturb.

**Only model-checked.** The liveness properties `CallReturns`, `Finishes`,
`Delivered`, `Returns`, `EofComes`: TLAPS has no rules for fairness or ENABLED here.
Every invariant and action property that a passing run checks is also proved, under the hypotheses
named above.
No module that is proved about has a RECURSIVE operator.
The library's induction theorems cannot be instantiated either, as they take an
operator; where a proof needs induction, it is over the members of a set.

## Disagreements between code and documentation

Each is recorded in `PROJECT.json` with the sentence of the repository that it
contradicts. The runs leave these cases out with a constant, so that everything else
is checked; with the constant changed as said here, TLC shows the disagreement.

just-kdl:

- **A slashdashed block behind a node's block** (`reader.rs:269`): `brackets`
  gets `sd && real_body`, which is FALSE there. The end of such a block is taken
  for a plain one. If the node is in a slashdashed block, its skip ends there, too early, and
  the end of the enclosing block is met outside of any skip: `next()` panics (run
  `late_slashdash_panic`). With other documents the stream that comes out is invalid. KDL
  allows such blocks.
- **Going on after `skip_to_end()` failed** (`reader.rs:395`): `next()` stops the
  reader at an error, `skip_to_end()` does not; a `next()` after it can panic.
  (`stream.cfg`, `ResumeAfterError = TRUE`, `NoPanic` its only invariant.)
- **Strings that spell keywords** (`lib.rs:182`): `IdentDisplay` writes `true`,
  `null`, `inf` and the like bare, and the lexer refuses them. (`write_read.cfg`,
  `"Keyword"` in `Texts`.)
- **Strings with a NUL** (`lib.rs:202`) are written with `\0`, which is no escape to the lexer
  (`lexer.rs:592`), though `\u{0}` is. (`write_read.cfg`,
  `"Nul"` in `Texts`.)
- **Skipping a multi-line string at the end of the input** (`lexer.rs:1007`): the
  loop that matches an indentation neither matches nor finds a difference, and
  never ends; reading the same text gives `UnexpectedEof`. (`lexer.cfg` with
  `Unclosed = TRUE`, `EofComes` its only property; also `multiline.cfg` with `Unclosed = TRUE`.)
- **Skipping a multi-line string with spaces alike in bytes** (`lexer.rs:1008`): where one line is
  behind U+2000 and the next behind U+2001, two of three bytes match, and the third alone is
  `InvalidUtf8`; reading the same string never gives this, and accepts it when the closing quotes are
  behind no space. (`multiline.cfg`, `Spaces <- AlikeSpaces`.)
- **Reading a multi-line string with spaces of different widths** (`lexer.rs:903`): a line behind U+00A0,
  closing quotes behind one blank, is to be `BadIndent`, but the line is cut at one byte, inside
  the character, and slicing a string there panics. (`multiline.cfg` with the
  invariant `NoPanic`.)
- **Skipping a multi-line string with a blank first line** (`lexer.rs:918`): its
  indentation is taken for that of all lines, so that a valid string is refused
  when it is commented out, with `BadIndent`. (`multiline.cfg`, `BlankStart = TRUE`.)
- **CR LF behind a line continuation** (`lexer.rs:496`): one character is passed, and
  the LF left over ends the node that was to be continued. (`lexer.cfg`,
  `SplitNewline = TRUE`.)
- **A number followed by a slash** (`lexer.rs:646`): the range of characters that are given to
  the builder has the slash in it, so that `1//comment` is `InvalidNumber`. (`number.cfg`,
  `SlashBehind = TRUE`.)
- **NaN** (`number.rs:160`) becomes `#NaN`, which no reader of a `Number` knows, and the lexer
  refuses when it is written (`write_read.cfg`, `"NaN"` in `Numbers`),
  and **floats with an exponent** (`number.rs:161`) are kept as Rust prints them,
  `1e20`, not as the doc comment describes. (`number.cfg`, `OddFloats = TRUE`.)
- **Characters in a release build** (`ssb2.rs:70`) are encoded inside a
  `debug_assert_eq!`, and so not at all. (`ssb2.cfg`, `Release = TRUE`.)
- **`truncate_floor` that cuts nothing off** (`ssb2.rs:119`) may cut a character, when an earlier,
  longer string left its bytes behind. No caller pushes to a string that it has
  truncated, so this is latent. (`ssb2.cfg`, `PushAfterTruncate = TRUE`.)

multiline-logger:

- **Records in the log file** (`sys_native.rs:62`) are written piece by piece
  without a lock, so those of two threads mix; the doc comment shows them as
  consecutive lines. (`logger.cfg` with the invariant `FileWhole`.)
- **A panic without a logger** (`lib.rs:326`), before or during `init` or after it failed, is shown, but
  the handler given to `Settings` is not called. (`FallbackTrace` in `Logger`.)
- **The date in the log file** (`sys_native.rs:64`) has no line of its own; layout, which is not modelled.

miny:

- **A value of no size** (`lib.rs:182`) that is aligned to more than a byte gets a `Box` at
  address 1. (`miny.cfg`, `MisalignedBox = TRUE`.)

One more constant excludes a case that the repository says nothing of: when a
block comment is refused and recovered from, `/*/` and `*/*` are counted by
the recovery as an opener and a closer each, by the text's own rule as one of them
(`lexer.cfg`, `Overlap = TRUE`, fails `CommentsMatch`).

## Not modelled

- The web output of the logger: one thread, one call to the browser's console per record.
- In the logger: which records the filters let through, `flush`, a second `init` (it
  panics, after it has truncated the log file), a second panic (the program aborts).
- `punch-card` computes at compile time; `iter-debug` has a single step.
- The digits of floats and integers of a width of their own (`TryFrom`): they are
  handed to the standard library as text.
- Setters, constructors and the `Display` and `Debug` impls that only lay out text; trait
  impls of `miny` that pass a reference on.

## What is left

`Lexer` and `Reader` are joined by the
order of tokens (`Promised`), not composed: the product of both is out of
TLC's reach with the depths above.
