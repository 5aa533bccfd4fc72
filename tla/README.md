# A TLA+ model of jsav

jsav is the front end of a compiler, written in C++23: one process reads one
source file and turns it into tokens. This directory holds TLA+ modules that
model it, TLC configurations that check them on small instances, and proofs
that TLAPS checks for all values of the constants.

Every definition that models code is listed in `PROJECT.json` ("map") with the
lines it stands for.

## 1. The system

| part | state it keeps | operations | what makes it correct |
|---|---|---|---|
| **UTF-8 decoder** `lexer/unicode/Utf8.hpp` | none | `decode_utf8`, `is_valid_utf8_at` | accepts exactly the well-formed sequences; the length it reports never leaves the buffer, is never 0 and never covers the start of the next character |
| **Lexer** `lexer/Lexer.{hpp,cpp}` | `m_source`, `m_pos`, `m_line`, `m_column`; locals of each scanner | `tokenize`, `next_token` | every byte of program text is in exactly one token; tokens are in order; maximal munch; positions are consistent with each other; every call returns |
| **Unicode tables** `lexer/unicode/UnicodeData.hpp`, generated by `scripts/generate_unicode_tables.py` | constant sorted ranges | `is_letter`, `is_id_start`, `is_id_continue`, `is_unicode_whitespace` (binary search) | the search agrees with membership; each class is its table; letters, starts and continuations nest, and none is white space |
| **Token, SourceLocation, SourceSpan** `lexer/*.hpp` | values; a span views the lexer's file name | comparison, `merge`, `merged` | order of locations is the order of the text; merging the spans of two tokens gives the text from one to the other; no view outlives what it views |
| **File reader** `jsavCore/FileReader.hpp` | one mutex; the file on disk (shared with every other process) | `readFromFile` | what is returned is what the file held; no partial result |
| **File and folder operations** `jsav/fs/*.hpp` | the file system | create and delete files and folders | success means the thing is there (or gone), also when two clients race |
| **Timer, Times** `jsavCore/timer/*.hpp` | `start_`, `cycles`; a duration | `time_it`, `to_string`, `operator/`, conversion to units, `~AutoTimer` | the components add up to the time; `start_` is restored; an average is over all the calls |
| **Program** `src/jsav/main.cpp` | the locals of `main` | log, read, tokenize, print, handle exceptions | a failure is said; every token and the total time are logged; a view never outlives its object |
| **Logging** `jsavCore/Log.hpp` | spdlog's default logger | `INIT_LOG`, `LINFO`, `LERROR` | a line that cannot be written ends nothing |
| **Casts** `jsavCore/cast/*.hpp` | none | `C_...`, `NC_...`, `BC_...` | a byte is the same value on either side of a cast, whether or not `char` is signed |
| Core helpers, build system, CI | - | - | - |

They interact by plain calls within one thread: `main` asks the file reader for
the text, builds a `Lexer` on a *view* of it, calls `tokenize()` once and prints
the tokens, whose texts and file names are views into the buffer and into the
lexer. The only thing shared with other processes is the file system, and the
only lock is the mutex in `readFromFile`, which protects nothing but the order of
its calls.

What is hard here, and hard to reach with a test:

* the lexer moves an unchecked cursor through arbitrary bytes, in about twenty
  small loops, some of which look ahead and go back; line, column and offset are
  updated by six different pieces of code;
* the length of a *malformed* sequence decides where the lexer looks next, and
  so what it can miss;
* calls in an order nobody wrote a test for (`next_token` after `Eof`,
  `tokenize` twice);
* the file system changes between two calls of the reader or of the folder
  operations;
* an exception at any statement of `main`, with locals that view each other and
  a destructor that logs while they go; an exit status that says nothing;
* a clock that is set back while `time_it` borrows a timer's `start_`;
* rounding at the boundaries of units.

`PROJECT.json` ("hazards") lists these at their lines, with the property that
would catch each going wrong, or why none does.

## 2. The modules

```
Utf8 ─┬─ Utf8Reference ── Utf8Stream ── UnicodeProperties ── CastProperties ─┬─ MCUtf8Stream
      │   (Table 3-7)                                                        └─ Utf8StreamProofs
      ├─ Utf8Theorems, used by Utf8StreamProofs and LexerProofs
      └─ Lexer ── LexerProperties ─┬─ LexerProofs ── TokenProofs
                   ├ SourceSpans   └─ MCLexer
                   └ INSTANCE TokenStream
UnicodeSearch ── UnicodeTables, used by UnicodeProperties and MCLexer
Casts, used by CastProperties

FileReader ── FileReaderProperties ─┬─ MCFileReader
                                    └─ FileReaderProofs

FolderOps ── FolderOpsProperties ─┬─ MCFolderOps
                                  └─ FolderOpsProofs

Log, Times ── Timer ── Program ── ProgramProperties ─┬─ MCProgram
Times ── TimesProperties ─────────┘                  ├─ ProgramProofs
                  └─ TimesProofs ────────────────────┘
```

**Utf8** is `decode_utf8` with its sub-decoders, as operators. `Followers`
stands for the nested tests for continuation bytes in `decode_3byte`,
`decode_4byte` and `decode_4byte_truncated`; `Malformed` and `Decoded` are the
two ways they fill in a `Utf8DecodeResult`. Offsets count from 0 as in the code.

**Utf8Reference** says what UTF-8 is without looking at the decoder: the
encoding form of a scalar value and the rows of well-formed byte ranges.

**Utf8Stream** is the loop that steps through a buffer with the decoder and
collects what it returns (`advance_with_utf8_check` on its own).

**Lexer** is `Lexer.cpp`. `pc` names the loop or function the lexer is in and a
step is one iteration, or the straight-line code between two loops; a run of
digits, whose loop body is one `advance_byte`, is a single step. The actions
carry the names of the functions:

| code | actions |
|---|---|
| `tokenize`, `next_token` (entry) | `tokenize`, `next_token`, `tokenize_again` |
| `skip_whitespace_and_comments`, `skip_unicode_whitespace`, `skip_block_comment` | `skip_whitespace`, `skip_unicode_whitespace`, `open_comment`, `skip_line_comment`, `skip_block_comment` |
| `next_token` (choice of a scanner, end of input) | `dispatch`, `end_of_input` |
| `scan_identifier_or_keyword`, `classify_word` | `scan_word`, `finish_word` |
| `scan_numeric_literal`, `try_scan_exponent`, `try_scan_type_suffix`, `try_scan_width` | `scan_integer_part`, `try_scan_exponent`, `scan_exponent_digits`, `try_scan_type_suffix` |
| `scan_hash_numeric`, `scan_based_literal` | `scan_hash_tag`, `scan_based_literal` |
| `scan_string_literal`, `scan_char_literal`, `skip_escape`, `advance_with_utf8_check` | `open_literal`, `scan_string_body`, `finish_string`, `scan_char_body`, `finish_char`, `skip_escape` |
| `scan_operator_or_punctuation` | `scan_operator` |

Abstracted: all operators are one token kind and all keywords another (the span
says which); the text of a token is its span; a token's file name is left out;
the Unicode classes are constants with the inclusions that the generated tables
keep (`ClassesAssumption`), and the runs give them the values of `UnicodeTables`;
the keyword table is a constant.

**TokenStream** is the abstract specification: what a caller is promised of the
tokens of any text. **LexerProperties** states the properties of `Lexer` and the
refinement mapping to `TokenStream`. The definitions of trivia, of numeric
literals and of the end of a string are declarative, sets of possible ends, so
that they do not repeat the scanners.

**FileReader** is `readFromFile`: one action per system call it makes
(`status`, `file_size`, `openFile`, `read_block`), the two ways a read fails
(`read_short`, `read_fails`), `return`, and `scoped_lock` in front of them.
`Leave` is every way out of the function: a result or an exception, and the
destructor of the lock. `Environment` is every other process: between any two
system calls it may delete, replace, grow, shrink or overwrite the file, or put a
directory in its place (not modelled from this repository: it is what an
operating system lets others do). A block stands for any unit the stream reads
and the environment writes. Which files may be opened does not change. Left out:
the `AutoTimer` of INDEPT builds, messages, running out of memory for the buffer,
errors of `fs::status` other than absence, and links and devices (every path is
absent, a directory or a regular file).

**FileReaderProperties** states what is checked of it. Instead of a second state
machine, the abstract specification is the operator `Look`, what one look at the
path answers; `disturbed` is a history variable, the threads in whose call
something changed.

**FolderOps** is the four operations on files and folders, called by any number of
clients on one tree of paths. A step is one system call, so that the clients'
calls interleave as those of processes do:

| code | actions |
|---|---|
| `createFolder`, `createFolderNextToFile` | `exists`, then `create_directories`: `status`, `walk`, `mkdir` |
| `createFile`, `createFileFromPath` | `open_out`, `write`, `check_out` |
| `deleteFile` | `exists_file`, `is_file`, `remove_file` |
| `deleteFolder` | `exists_folder`, `is_folder`, `open_folder`, `next_entry`, `is_symlink`, `remove_link`, `is_directory`, `remove_folder` |

`begin` starts any of them. `deleteFolder` calls itself and `deleteFile`; `stack`
holds the running calls, each with the entries its iterator has still to return,
and `cur` the argument of the innermost one. A failure of an inner call ends all of them
(`Fail`), because every caller passes it on, and so does an exception: `deleteFolder`,
`deleteFile`, `createFile` and `createFolderNextToFile` catch all of them.
`createFolder` has no handler, and its `fs::exists` is the overload that throws: an
error of that question leaves it as an exception (`Throw`, the result `thrown`),
and is a failure of `createFolderNextToFile`. A success of `createFolder` has two
names, `success` where it made the folder and `there` where its first question found
something; the code answers `true` to both.

A path is absent, a folder, a regular file with or without content, a link to `Target`,
a loop (a link to itself, so that a question that follows it is an error), or
special (a pipe, a socket or a device), which `deleteFile` refuses and so a
`deleteFolder` around it too. Links and loops are leaves of the tree:
no path leads through one (`LinksAssumption`), so that a link above the path, which
`create_directories` would follow, is outside the model. `create_directories` is
libstdc++'s, with its `mkdir` and the look at what is in the way as one step.
`protected` paths cannot be made or removed, which stands for every reason a system
call may refuse. Left out: the path in the result, calls with an empty name (which
fail at once), listings too long for one read of the directory, and links and special
files made while the clients run.

**FolderOpsProperties** states what is checked of it: `SuccessWasTrue` relates the
result to the history of the path during the call (`seen`: what lay there and what a
question that follows links found, in each state of the call), the `Quiet...`
properties say what a call does that nobody disturbs, and `DeletesStayBelow` is about
every single step. Of a `createFolder` that answers at its first question
`SuccessWasTrue` asks only that something was there: that it need not be a folder is
finding 6.

**UnicodeSearch** is `in_ranges`: a table of ranges, `std::upper_bound` on their
first code points and the test of the range in front of it. **UnicodeTables**
holds the four tables of `UnicodeData.hpp`, range by range, and the classes over
them with their shortcuts for ASCII. **UnicodeProperties** states what is checked.

**SourceSpans** is the order of `SourceLocation`, `merge`, `merged` and the order of
`SourceSpan`. Its subjects are the spans of the tokens the lexer returned
(`getSpan`), so that the algebra is asked of the locations the lexer makes and
not of arbitrary numbers.

**Casts** is the cast macros on a platform, a record of the widths of `long` and of
pointers and of the sign of `char`: `static_cast` to a type of the host,
`narrow_cast` to one of another width and `bit_cast` between types of one
width. **CastProperties** sends every byte through the casts the program makes of it.

**Log** is `Log.hpp` over spdlog, which is external: a call of the logger never
throws, but a sink may fail to write a line (at most `MaxLost` times), and then
the error handler writes to the other stream.

**Times** is the choice of a unit and the three decompositions, in ticks,
`TICK` of them to the nanosecond, with `duration_cast` and `std::chrono::round`
modelled by what they do. **Timer** is `Timer.hpp`: timers over one clock that may
be set back, and `time_it`, which borrows a timer's `start_`; a step of its loop is
one call of `f`, which may throw.

**Program** is `main` statement by statement, over `Log` and `Timer`:

| code | actions |
|---|---|
| `INIT_LOG`, option parsing | `init_log`, `parse` |
| the declarations of `compilationTime`, `timer`, `tokenizationTimer` | `Declare` |
| `readFromFile`, `Lexer`, `tokenize` | `readFromFile`, `construct_lexer`, `tokenize` |
| the lines of the log | `processing_time`, `log_size`, `tokenization_time`, `log_count`, `log_token`, `end_of_try` |
| the way out of the block, the handlers, the return | `destroy`, `return` |
| a caller of `time_it`, `operator/` and `to_string` | `begin_time_it`, `call_f`, `end_time_it`, `time_it_throws`, `print`, `print_time` |

`scope` is the stack of `main`'s locals: an exception (`Throw`) or the end of the
block leads to `unwind`, where one local after another is destroyed, and
`~AutoTimer` logs. `Timer::to_string` and `ValueLabel::toString` are `noexcept`, so an
exception inside either is the end of the process (`Terminate`): in a line with a time, in
the destructor, and when `time_it` formats its average. A declaration may throw as well: a
timer holds strings and a function. The file reader and the lexer are what their own
modules show them to be: a text of some size or an exception, and at most
as many tokens before the last as the text has bytes. Option parsing (CLI11) is a
choice among its outcomes. `main` does not call `time_it`; `Benchmark` stands for
the callers it is written for.

**TimesProperties** says what is asked of a time that is shown, **ProgramProperties**
what is checked of the program.

**MCUtf8Stream**, **MCLexer**, **MCFileReader**, **MCFolderOps** and **MCProgram** give
the constants values.

Operators whose comment begins with "Mutant" are not part of the model. Each is
a plausible mistake in one definition, and the property it is paired with in
`PROJECT.json` fails when it takes that definition's place: evidence that the
property says something about the code.

## 3. What the runs check

| run | bounds | shows |
|---|---|---|
| `utf8` | every buffer of at most 4 of 14 bytes: ASCII, the ends of the continuation range, 8F/90 and 9F/A0, and a lead of every class (C1, C2, E0, ED, F0, F4, F5) | `DecodesExactlyTheWellFormed`, `SwallowsOnlyContinuations` (after an error the decoder resynchronises at the next character), `FlagIsValidity`, `ReachesTheEnd`; for every character at an edge of a Unicode table, `ClassesAreTheirTables` and `ClassesNest`; for every byte on every platform, `BytesSurviveTheCasts` |
| `lexer` | every text of at most 4 of 13 pieces: LF, CR, `/`, `*`, both quotes, backslash, `u`, `a`, é, NEL, a broken lead, the byte order mark; of 9 pieces of numbers: `1`, `8`, `.`, `.1`, `e`, `e-`, `f`, `u`, `I16`; and of 8 of based ones: `#`, `b`, `x`, `1`, `.`, `e`, `u`, `_`; `tokenize()` once and one more call | `GapsAreTrivia`, `LocationsAgree` (also through the rollback of an exponent), `ColumnsCountFromLineBreaks`, `StringEndsAtFirstStop`, `LiteralErrorIsMalformed`, `NumericIsLongest` (maximal munch, no trace of a failed exponent or width), `SpansFollowTokens`; the lexer implements `TokenStream`; `CallsReturn` |
| `lexer_escape` | 3 pieces | fails: an escape in front of a character above 7F (finding 1) |
| `lexer_lines` | 3 pieces | fails: line feeds taken by `advance_byte` are not counted (finding 2) |
| `lexer_reuse` | 2 pieces, 2 further calls | fails: the byte order mark is skipped again (finding 3) |
| `file_reader` | 2 threads with one call each, 2 files of at most 2 blocks of 2 kinds, 2 changes by the environment, every initial file system | `QuietCallsAreExact` (a call in which nothing changes is atomic and right, and throws nothing but `FileReadError`), `NeverHalfFilled`, `CallsEnd` (also those that wait for a call that throws) |
| `file_reader_truncated` | the same | fails: a truncated file is reported as an error (finding 4) |
| `folder_ops` | 2 clients with one call each, any operation on `d` or `d/e/l`; a tree `d/e/l`, where `l` may be a link to a folder `o` outside with an entry, a loop or a special file; every initial tree, at most one path protected | `SuccessWasTrue`, `QuietDeleteIsExact`, `QuietCreateIsExact`, `DeletesStayBelow`, `CallsEnd` |
| `folder_exists` | the same, only `createFolder` | fails: a race between two calls for the same folder (finding 5) |
| `folder_file` | the same | fails: a file where the folder should be is a success (finding 6) |
| `program` | 8 sizes up to 33 with units of 2, at most 2 tokens and the last one, one line lost, units of time 4 to the next and 6 ticks to the nanosecond, a clock that moves by -1, 0, 3, 7 or 95 ns, `time_it` called twice with at most 3 calls of `f` | `ShownTimesAddUp`, `SizeIsShownInItsUnit`; `StartSurvivesTimeIt`, `AverageIsOverAllCalls`; `ViewsStayAlive`; `FailureIsSaid`, `TotalIsSaidLast`, `EveryTokenIsLogged`; `ProgramEnds` |
| `times_composite` | the documentation's example, 1.234567 ms, in units of 1000 | fails: a component is negative (finding 7) |

Why these bounds are enough. A decode looks at four bytes at most, and the bytes
of `utf8` are those at which one of its comparisons changes its answer. The
scanners of the lexer look ahead at most three bytes (a width and the digit
behind it) and remember one thing across iterations (`has_malformed`,
`seen_unicode`, the saved position), so four pieces, some of several bytes, reach
every pair of neighbouring constructs: a comment in a literal, a literal broken
by a line end, a failed exponent in front of a suffix or of a word. What holds
for texts of any length is the subject of the proofs.

A call of `readFromFile` looks at the path three times; two changes fit between
any of them, two files tell the file that was measured from the one that was
opened, and two blocks tell a file cut to nothing from one cut in the middle. A
second thread meets the first only at the mutex, so one call each shows the wait
and the release on every way out. The proof has none of these bounds.

The tree of `folder_ops` has a folder in a folder, so that `deleteFolder` calls
itself and `createFolder` makes up to three folders, and at its end something of
every kind: a link to a folder with something to lose, a loop, a special file. Each
call takes up to a dozen steps and meets every step of the other one. Two calls of
one client in a row are two calls of two clients of which one ends before the other
begins.

The characters of `utf8` are, of each of the four tables, the two ends of every
range and their neighbours: between two of them no answer of the search changes, and the
proofs say so for every code point.

In `program` the numbers are small so that all cases meet: with units of 4 a clock
that moves by five distances makes times in every unit whose remainders round up,
round down and carry into the unit above, and averages that are no whole number
of nanoseconds; with units of 2 the eight sizes reach each entry of the table and
pass its last one. `main` is straight-line code with one loop, so two tokens
behind each other and one lost line give every order; an exception may come at
each statement that can throw. The proofs have none of these bounds.

Deadlock is not checked in these runs: a lexer that nobody calls again, a
reader at the end of its buffer, threads and clients that have made their calls,
a program that has exited, stop.

Fairness is `WF_vars(Scan)` for the lexer and `WF_vars(Next)` for the reader: a
call that has begun runs on, because it is a loop in one thread that waits for
nothing. No fairness is assumed of the client, who may never call. For
`readFromFile` it is `WF_vars(Step(t))` for each thread: the operating system runs
every thread, and system calls return. Nothing is assumed of the environment.
`std::mutex` promises no fairness; weak fairness is enough for `CallsEnd` because
`MaxCalls` bounds how often a thread can lose the mutex to another. In
`FolderOps` it is `WF_vars(Run(c))`: each client runs on once it has begun. For
`Program` it is `WF_vars(Next)`, since there is one thread, and what it calls
returns (`CallsReturn` and `CallsEnd` are checked of the parts that loop). `time_it`
ends by its count even when the clock never moves or runs backwards.

### Findings

1. `Lexer.cpp:390` - `skip_escape` consumes one *byte* after a backslash and does
   not validate it. `"\é"` is well formed and becomes an `Error` token, because
   the second byte of `é` is then read as an orphaned continuation; `"\<E9>"` is
   malformed and becomes a `StringLiteral`. (`Lexer.hpp:80`, `Lexer.cpp:418`.)
2. `Lexer.cpp:77` - a line feed behind a backslash, in a char literal or behind
   `#` is consumed by `advance_byte`, which does not count lines; all later
   positions are off. (`SourceLocation.hpp:32`.)
3. `Lexer.cpp:19` - `tokenize()` skips the byte order mark whenever the *source*
   begins with one, not when the *cursor* is there; called a second time, or
   after `next_token()`, it loses three bytes. (`Lexer.cpp:18`, `Lexer.hpp:48`.)
4. `FileReader.hpp:83` - the comments at lines 52 and 85 promise that a file that
   was truncated after it was measured is returned as far as it was read.
   `openFile` makes `failbit` an exception (line 28), so the read throws, and
   the caller gets a `FileReadError`; the `resize` is dead code.
5. `FolderCreationResult.hpp:36` - `create_directories` answers whether it made the
   folder; when another client makes it behind the `exists` of line 27, the
   caller gets a failure "for an unknown error", where line 31 wants success for a
   folder that exists.
6. `FolderCreationResult.hpp:27` - `createFolder` asks `fs::exists` and not
   `is_directory`: for a path where a file lies it returns success, "since the folder
   already exists" (line 31; line 29 logs the same), and there is no folder before or after.
7. `Times.hpp:259` - the remainders are rounded to the next unit where they would
   have to be truncated: 1.234567 ms is shown as `1ms,235us,-433ns`, where line 250
   promises `1ms,234us,567ns`. The sum is right (`ShownTimesAddUp`), the
   digits are not.

A file that is *replaced* between `file_size` and `openFile` by a longer one is
returned in part, with no error; the documentation promises nothing here, so this
is listed as a hazard and not as a finding. The same goes for a `createFile` whose
write fails (`FileCreationResult.hpp:38`) and still succeeds, and to a callable that throws
out of `time_it` (`Timer.hpp:285`): the timer stays restarted, and `StartSurvivesTimeIt`
speaks only of timers no throw has left so (`cut`).

Disagreements of a document or a comment with the code that need no run to be seen:

* FR-011b of `specs/003-numeric-literal-lexer/spec.md` (line 173) wants all digits behind `u`
  or `i` in the numeric token, "even if the digits do not constitute a valid width"; so do
  its scenarios (72 to 75, 126 to 131), SC-006, `data-model.md:84` and `research.md:160`.
  `try_scan_width` (`Lexer.cpp:275`) takes 8, 16 and 32 and leaves every other width alone,
  so that `1u64` is the number `1` and the keyword `u64`, and `test/tests.cpp:3951` wants
  that. `NumericIsLongest` is stated with the rule of the code and the tests.
* `Timer.hpp:494` and 496 say that `~AutoTimer` catches all exceptions. `to_string`, which it
  calls, is `noexcept` (line 393): an exception of the formatting or of the print function
  never reaches its `catch`, and the program is terminated, also when it was unwinding for
  another exception and a handler was waiting. `FailureIsSaid` and `TotalIsSaidLast` speak of
  runs that end with an exit status, and so not of this one.
* `Times.hpp:308` says that `toString` may throw; it is `noexcept` as well (line 312).
* `UnicodeData.hpp:679` says that an identifier starts with "\p{Letter} or '_'";
  the table it searches also holds letter numbers (Nl).
* `UnicodeData.hpp:704` says that white space is Zs, Zl or Zp; the range 7F to A0 in
  the table also makes the control characters U+0080 to U+009F white space.
* `Timer.hpp:250` says that `time_it` runs until both its number of calls and its
  target time are reached; it stops at the first, and it compares
  nanoseconds with a number of seconds, so that one call is mostly enough.

## 4. What is proved

All theorems hold for every value of the constants that satisfies the named
assumptions; `tlapm` checks them from nothing.

| module | theorem | says |
|---|---|---|
| `Utf8Theorems` | `DecodeUtf8Fits` | in a buffer of any length, at every offset in it, the result has a length of 1 to 4 that fits the buffer, and what follows its first byte is continuation bytes |
| `Utf8Theorems` | `DecodeUtf8Exact` | the status is `Ok` exactly at a sequence of Table 3-7, and the result is then the scalar value whose encoding form is the bytes stepped over |
| `Utf8StreamProofs` | `TypeCorrect`, `Resynchronises` | the reader of `Utf8Stream` never leaves its buffer and never swallows the start of a character |
| `Utf8StreamProofs` | `DecodeIsExact`, `FlagIsExact` | each step decodes exactly the well-formed sequences, and at the end of the buffer the flag says whether all of it is well-formed (`DecodesExactlyTheWellFormed`, `FlagIsValidity`) |
| `Utf8StreamProofs` | `LookupIsExact` | `in_ranges` finds a code point exactly when a range holds it, in every table whose ranges are in order and apart |
| `Utf8StreamProofs` | `ClassesAreExact`, `ClassesAreNested` | for every code point the classes are their tables, and are nested and apart as the lexer needs them (`ClassesAreTheirTables`, `ClassesNest`) |
| `Utf8StreamProofs` | `BytesSurvive` | every byte comes out of the casts as it went in, on every platform, and the three families of macros agree (`BytesSurviveTheCasts`) |
| `LexerProofs` | `TypeCorrect` | the lexer's cursor never passes the end of the source, though `advance_byte` does not test it |
| `LexerProofs` | `LocationsConsistent` | the locations of all tokens, and the lexer's own, agree (`LocationsAgree`) |
| `LexerProofs` | `ImplementsTokenStream` | the lexer implements `TokenStream`: tokens in order, disjoint, each of at least one byte, never changed, and the empty one only at the end |
| `LexerProofs` | `ColumnsConsistent` | every location's column counts from a line break the lexer has seen (`ColumnsCountFromLineBreaks`) |
| `LexerProofs` | `SpansFollow` | the spans of any two tokens merge, by either function and in either order, to the text from the first to the second, and are ordered as the tokens are (`SpansFollowTokens`) |
| `TokenProofs` | `StringsEndAtFirstStop` | a string literal ends at its first unescaped quote or line break, or at the end of the source (`StringEndsAtFirstStop`) |
| `TokenProofs` | `NumericsAreLongest` | maximal munch: a numeric token is the longest slice the grammar accepts, and there is one wherever it accepts any (`NumericIsLongest`) |
| `TokenProofs` | `LiteralErrorsAreMalformed` | a literal is an `Error` exactly when its bytes are not well-formed, unless a backslash stands in front of a byte above 7F (`LiteralErrorIsMalformed`) |
| `TokenProofs` | `NothingIsLost` | only white space and whole comments lie between two tokens, and no token begins where trivia could (`GapsAreTrivia`) |
| `FileReaderProofs` | `TypeCorrect` | the state of every call keeps its type |
| `FileReaderProofs` | `HalfFilledNever` | no buffer is returned of which a part was not read (`NeverHalfFilled`) |
| `FileReaderProofs` | `QuietCallsExact` | a call in which nothing changes is one atomic look at the path (`QuietCallsAreExact`) |
| `FolderOpsProofs` | `TypeCorrect` | the state of every call keeps its type, the file system stays a tree, and the loops of `createFolder` and `deleteFolder` never find their stack empty |
| `FolderOpsProofs` | `SuccessTrue` | whatever other clients do, a success was true at some moment of its call: the folder made and the file opened were there, what was deleted was not; of a `createFolder` that found something there, only that something was (`SuccessWasTrue`) |
| `FolderOpsProofs` | `DeletionsStayBelow` | nothing vanishes but at or below the path of a running deletion (`DeletesStayBelow`) |
| `FolderOpsProofs` | `QuietDeletesExact` | a `deleteFolder` nobody disturbs removes the folder with all below it and nothing else, and succeeds exactly when nothing there is protected or special (`QuietDeleteIsExact`) |
| `FolderOpsProofs` | `QuietCreatesExact` | a `createFolder` nobody disturbs makes what was missing on its way and nothing else: where nothing was it succeeds exactly when it may make all of that, where a folder was it says so, where its question fails it throws (`QuietCreateIsExact`) |
| `TimesProofs` | `ShownAddsUp` | the components in which any duration is shown add up to it, to half a nanosecond |
| `ProgramProofs` | `TypesHold` | every variable keeps its type, and `time_it` never divides by zero calls |
| `ProgramProofs` | `TimesAddUp`, `SizesAreShown` | every time that is ever logged adds up so, and every size is in the largest unit of which there is one (`ShownTimesAddUp`, `SizeIsShownInItsUnit`) |
| `ProgramProofs` | `StartSurvives`, `AveragesAreRight` | `time_it` puts the start back unless `f` throws, and its average is over all calls (`StartSurvivesTimeIt`, `AverageIsOverAllCalls`) |
| `ProgramProofs` | `ViewsAreSafe` | whichever statement throws, the text outlives the lexer and both outlive the tokens (`ViewsStayAlive`) |
| `ProgramProofs` | `FailuresAreSaid`, `TotalsComeLast`, `TokensAreLogged` | what the log of a run that ends with `EXIT_SUCCESS` holds (`FailureIsSaid`, `TotalIsSaidLast`, `EveryTokenIsLogged`) |

**Assumptions.** `SourcesAssumption` (a source is a sequence of bytes),
`ClassesAssumption` (an identifier's first characters are among its further
ones, and U+FFFD, which stands for a malformed sequence, is neither; true of the
generated tables), `MaxCallsAssumption`, `BuffersAssumption`, `NamesAssumption` (the names of files
and threads differ from the marks for none), `BoundsAssumption`, and for the folder
operations `TreeAssumption` (`Above` is what lies above a path by `Parent`),
`DepthAssumption` (a path has finitely many components: what holds of a path whenever it
holds of the one above holds of all), `LinksAssumption` (no path leads through a link: what
`createFolder` does below one is not claimed) and `CallsAssumption`. Neither the tree nor the
set of clients need be finite.
`TimesAssumption` (a positive `TICK` and a positive `FACTOR`), `TimerAssumption`,
`MaxLostAssumption` and `ProgramAssumption` say that readings of the clock are
integers, numbers of cycles positive and bounds natural.
`TablesAreSeparated` (the `static_assert`s of `UnicodeData.hpp`), `TablesAreOrdered`,
`TablesBelowAscii` and `TablesNest` are not about constants of an instance but
about the generated tables themselves, range by range and for the 128 code points below 0x80;
they have no variables, so that TLC, which evaluates them in the `utf8` run, decides them.
`TablesAreOrdered` (no range ends before it begins) is what the search needs and the
`static_assert`s leave out.

**The decoder.** `FollowersBound` says that the continuation bytes `Followers`
counts exist; `MalformedFits` and `DecodedFits` turn this into the bound for the
two ways of filling in a result, `Join2Range` to `Join4Range` bound the code
point, and one lemma per sub-decoder splits on the count. `Join4Range` needs the
test `b0 = F4, b1 >= 90` that `decode_4byte` makes. `DecodeUtf8Exact` goes both ways: each
way of filling in an `Ok` result has bytes of one row of Table 3-7, and for each row
the sub-decoder that its lead chooses succeeds; that the code point encodes to the bytes
again is arithmetic on its digits to the base 64. `FlagSoFar` carries this over a buffer: the whole is
well-formed when no flag is up and what is left is.

**Definitions by recursion.** `WellFormedFrom` and `IsTrivia` are recursive functions, and the
prover knows nothing of a recursive function before it is shown that one exists. Both
say from which offsets steps lead to an end, and `ReachesHasSolution` builds such a
function from the least set of offsets closed under that; the equation then holds of the function
that `CHOOSE` picks (`WellFormedFromStep`, `IsTriviaStep`). Where an induction over
offsets is needed, it is one over *sets* of them: a set of natural numbers has a
least element (`LeastExists`, from the library's well-founded orders), so a set that holds 0 and is closed
under successor holds all of them (`SetInduction`). This covers recursion along
offsets; it needs no theorem with an operator as its parameter.

**The search and the classes.** `upper_bound` is recursive in the number of places still in
doubt, and its result is a place. `SearchExists` takes for each place the question whether
the halving ends there, which is of the form above, and puts the answers together. `Parts` is
what the loop of `std::upper_bound` keeps: the ranges in front of the result begin at the
code point or before, those behind it later; `SearchParts` proves it for the smallest number of places for
which it could fail, with `FarApart` (the `static_assert` compares neighbours only). The
classes then follow from the data: `MembersNest` turns inclusions of ranges into
inclusions of their members, so that nothing is enumerated but the ranges.

**The casts.** The lists of macros are equal, or one begins the other (`SameTypes`);
a value whose size is the type's is neither cut nor filled up (`SameSizeStays`), and a byte
in an unsigned type is not negative (`ByteSurvives`).

**The lexer.** `TypeOK` is not inductive. That `advance_byte` in
`scan_operator_or_punctuation` stays in the source is true because `next_token`
found a byte there and nothing was consumed since; that
`scan_identifier_or_keyword` emits at least one byte is true because the byte
that chose it continues a word. The invariant `IInv` adds:

* `ScannerEntry`: a scanner that has consumed nothing stands at the token's start,
  in front of the byte that chose it; every other one is at least a byte behind;
* `RollbackSafe`: the position `try_scan_exponent` may go back to is behind the
  token's start, on the token's line;
* `TokenChain`: the locations in all tokens are ordered by `Behind`, which ties
  line, column and offset together, and the last of them is not behind the
  place where the next token begins (`Floor`).

Each action is shown to be a step of one of five kinds: it moves on between
tokens (`Skips`), chooses a scanner (`dispatch`), moves on inside a token
(`Scans`), ends a token (`Emits`), or reports the end (`end_of_input`). One lemma
per kind shows that `IInv` is kept, and one per kind that it is a step of
`TokenStream` or leaves it unchanged; `StepKinds` puts them together. That a
lookahead succeeded bounds the advance that follows it (`PeekedIsThere`):
`peek_byte` answers 0 behind the end, and no scanner asks for 0.

`IInv` was checked with TLC on the constants of `lexer`
before it was proved.

**The file reader.** The properties speak of calls that have ended; the
invariant says what a running call knows. `StillTrue`, for a call that nothing
has disturbed: behind `status` the path names a file, behind `file_size` the
length is that file's, and while reading the handle is that file and what was
read is its beginning (`Prefix`). `Filled`, for every call: the buffer never holds more
than was measured. `return` then has the whole length, and by `Prefix` the whole
file; the failures of `file_size` and of a short read contradict `StillTrue`. Each
action either leaves (`LeaveKeeps`, `FailKeeps`) or goes on (`ContinueFrame`), and
`OnlyTheActor` disposes of the other threads.

**The folder operations.** `IInv` adds to `TypeOK` what each client knows of its
call (`Local`): which operation its label belongs to; that what lies at its path
is in `seen`; and for deletions `Chain`: the running `deleteFolder` calls begin with
the client's path, every folder and every listed entry lies where the call may
remove something (`Allowed`), and a link is looked through only at the path the
client called with. The last is what `is_symlink` is there for, and it stays true
because no operation makes a link (`SharedOK`), though the entry may be removed
and made again between the question and the listing. `AllowedClosed` says that the
entries of an allowed folder are allowed. A success at the end of a chain is one
for the client's own path, since the bottom frame is its folder. `RunKeeps` reduces
a step to the client that makes it; `Returns`, `GoesOn` and `GoesDown` are the
three ways it can move, and each action is shown to be one of them. `HandlesOpen`
(a handle is of a file at its path) is needed for `write`, which would otherwise
put a file where a folder was.

The `Quiet...` properties need more: what a call that nobody has disturbed has *done* so far.
`QuietInv` says it, and was checked with TLC on the constants of `folder_ops` before it was
proved.

* `CreateSoFar`: the stack of `createFolder` is a ladder of missing paths, each directly
  above the one before (`Ladder`); every folder missing on the way is on the stack still or was made
  and is not protected, and nothing else has changed since the call (`Makes`).
* `DeleteSoFar`: the frames of `deleteFolder` are a ladder of folders downward (`Chained`);
  every entry still present in a frame's folder is in its `left`, is the next frame's
  folder, or is the one being removed (`Listed`); and what lies at that entry is what the
  label has been told (`Entry`, `KindsAt`). So when `left` is empty the folder is empty, and
  `remove` fails only for a protected path. Nothing but what was at or below the path has
  gone, and nothing else has changed (`Removes`).

What lies above what in a tree without a bound (`AbovePaths`, `AboveAbove`,
`NotAboveItself`, `FoldersAbove`) is proved with sets of paths from `DepthAssumption`, the
way the lexer's lemmas use sets of offsets. A step of another client either disturbs the call or
leaves alone what it can see (`RunStays`, `OthersQuiet`), so only its own steps remain
(`CreateQuiet`, `DeleteQuiet`).

**Columns and spans.** `ColumnInv` says of the cursor, of the token's start, of every token
and of the position a rollback would go to what the property says of one
location; `CursorStep` has the three ways the cursor moves. `TokenChain` orders locations but
does not say which token comes first; `InOrder` does, and is kept because a new token begins at
`Floor`, behind all that was returned. `BehindIsNotLess` turns this order into the
lexicographic one of `SourceLocation`, and `MergeInOrder` follows.

**Tokens.** The properties of `TokenProofs` speak of tokens that were emitted, often many steps after
the scanner took the decision. `Opening` is what all four share: the first byte alone
tells which scanner runs, and it is not the beginning of trivia. Then each has an invariant of what a
running scan remembers, so that the property follows when the token is emitted:

* `StringInv`: every stop that was passed was escaped, and between two steps the label says
  whether the next byte is (`EscapedOdd`: a byte is escaped when the run of backslashes
  in front of it is odd);
* `NumberInv`: the end chosen for the mantissa, then for the exponent, is the longest, and every
  shorter one goes on with a byte no suffix begins with - so that a shorter mantissa cannot have a
  longer literal (`NumericLongest`), and a rollback of `try_scan_exponent` returns to such an end;
* `LiteralInv`: wherever the literal may end, what was read so far is well-formed exactly when
  `has_malformed` is not set (`Tells`), over ASCII (`SoundOverAscii`), over a sequence and over an escape;
* `GapInv`: whatever trivia reaches from the cursor, it reaches from the end of the last token (`Covers`);
  inside a comment the scanner has seen its first two bytes and no end of it.

**Times.** `RoundedIsNear` bounds what a rounding leaves by half a unit, and
`TruncatedIsInt` says that a truncation is a whole number. What a component
shows is what the remainder loses, so the products cancel in pairs, and what is left
at the end is the error of the last rounding, to the nanosecond
(`MicroAddsUp`, `MilliAddsUp`, `SecondsAddUp`).

**The program.** The properties of the log speak of a program that has ended; `IInv`
says what the log holds before each statement. `Types` adds to `TypeOK` that every line is
one the program can say (`Said`: its time was shown of some duration) and what the
loops count. `ScopeOK` fixes the stack by the statement (`Depth`), `CountOK` says
that the tokens so far follow their number, `TotalOK` that the total has not been said while
`compilationTime` is alive and is the last line when it is gone, and `ErrorsOK` that
no error comes before the end. `Tells` is the one place that says which statement logs
what (`Speech`); the lemmas about the log split on whether a line was written or
lost (`Logged`, `LogSteps`) and never look at the statements again.

**Only model-checked.** Liveness (`ReachesTheEnd`, `CallsReturn`, `CallsEnd`, `ProgramEnds`)
is outside the prover's reach. Every safety invariant and action property of the passing
runs is stated by a theorem.

## 5. What is left

* A width for sizes: `FileReader` counts blocks, so that `C_ST` of a file of 4 GiB and
  more on a 32-bit host (`FileReader.hpp:65`) is only seen in `Casts`.

## 6. What is not modelled

* **The generator of the Unicode tables** (`generate_unicode_tables.py`): a script that
  is run by hand and downloads its input; what it generated is modelled.
* **Core helpers** (`headersCore.hpp`, `move.hpp`, `format.hpp`, `disableWarn.hpp`):
  constants, aliases, compile-time checks of template arguments and warning switches;
  they have no state and take no decision at run time.
* **Build system, CI, packaging**: nothing at run time.
* Of **Token and SourceSpan**: formatting, `truncate_path` and hashes, which nothing
  but the log reads. Of the **file operations**: the value class `OSOperationResult`
  and `GetBuildFolder`, which only rewrites a path. Of the **casts**: those to `bool`,
  floating point, strings and pointers. Of the **timers**: the layout of what they
  print. Of the **log**: layout, timestamps and the levels `main` does not use.
* External code, modelled by how it is used: spdlog, CLI11, `std::chrono`,
  `std::filesystem`, the host's integer types.
