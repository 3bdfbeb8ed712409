# gdbwire, modelled and proved

gdbwire is a C library that reads the machine interface of GDB (GDB/MI). A
front end pushes the bytes GDB writes, in whatever pieces they arrive, and is
called back once for each line; or it has the output of a single command and
asks for the typed command it stands for. This directory holds TLA+ models of
that library, the TLC runs that check them, and TLAPS proofs. Line numbers refer
to `src/src/`.

```
        client                                   front end
          | push_data(bytes)                        | interpreter_exec(text)
          v                                         v
   gdbwire_mi_parser ---- callback(output) ---> gdbwire ---> gdbwire_mi_command
     |  buffer: gdbwire_string                             (parse tree -> command)
     |  get_next_line, parse_line
     v
   lexer (flex) --token--> push parser (bison) --output--> parse_line
```

Everything runs in the caller's thread. What is hard here is not parallelism but
order: chunk boundaries against line boundaries, what an error leaves behind for
the next line, callbacks that push again in the middle of a push, allocations
that fail halfway, and who owns what when they do.

## 1. The parts

| part | state | operations | what makes it correct |
|---|---|---|---|
| `gdbwire_string.c` | `data`, `size`, `capacity` | create, append_char/_cstr/_data, find_first_of, erase, clear, destroy | memory stays within the capacity; it is the sequence of bytes the header describes |
| `gdbwire_mi_parser.c` | `buffer`, lexer, push parser, callback | create, push, push_data, destroy; get_next_line, parse_line inside | one output for every line, in order, however the bytes were cut; no line lost by a failed push |
| `gdbwire_mi_lexer.l` | what is unread of a line, the columns | lex | tokens tile the line; the newline is a token of its own whatever is on the line |
| `gdbwire_mi_grammar.y` | bison's stack, `yyerrstatus`, lookahead, the values on the stack | push_parse, its semantic actions, error recovery, unescape_cstring | an error is bound to its line; recovery ends; every pointer has one owner |
| `gdbwire_mi_pt*.c` | the heap of structures | allocation, append, recursive free | the tree says what the line says, and is freed once |
| `gdbwire_mi_command.c` | none (a function of the parse tree and the heap) | get_mi_command and its four command functions, command_free | success exactly with a command; every error frees what was made; back pointers |
| `gdbwire.c` | the parser; the context of one interpreter_exec | create, push_data, destroy, the dispatch to callbacks, interpreter_exec and its five callbacks | OK exactly with a command; nothing but result records makes one; nothing outlives the call |
| `amalgamation/mkgdbwire.py` | `available_hdr`, the files that are open | copy_file, write_gdbwire_header, write_gdbwire_source | a compiler sees of one file what it sees of many |
| `gdbwire_sys.c`, `gdbwire_assert.h`, `gdbwire_logger.c` | none | strdup, assertions, logging | allocations, guards and early returns of the other parts |

How they interact: the parser owns a string, a lexer and a push parser. A line
cut from the string is given to the lexer as a C string; each token goes to the
push parser, which writes the line's output through a pointer; parse_line gives
it to the callback of `gdbwire.c`, which picks the client's callback for its
record and frees the output afterwards. `gdbwire_interpreter_exec` is
such a client inside the library, and calls the command functions from its
callback.

### The hazards

`PROJECT.json` lists them with their lines and the properties that cover them.
In short:

- *order and cuts*: `\r\n` cut between two pushes (`parser.c:245`); a scan for
  newlines of the new data only (`:303`); NUL bytes, at which the C string of a
  line ends although the line does not (`:156`); a last line without a newline
  (`gdbwire.c:209`); texts read from the lexer when an action runs
  (`grammar.y:358`);
- *errors that last*: the newline that ends recovery is kept as lookahead, and
  `yyerrok` decides whether the next error is reported (`grammar.y:274`); an
  unclosed string may not take its line's newline (`lexer.l:72`);
- *reentrancy*: a callback that pushes (`parser.c:196`);
- *ownership*: values move from symbol to symbol with every reduction
  (`grammar.y:312`), lists keep a pointer into their last element (`:74`), and
  locations point back to their breakpoint (`command.c:261`);
- *limits*: the depth of the push parser's stack (`parser.c:190`), the capacity of
  the string (`string.c:119`, `:102`), the byte after a backslash (`grammar.y:126`);
- *partial failure*: the append to the buffer (`parser.c:310`), the copy of a line
  (`:255`, `:194`), realloc in an append (`string.c:80`), the parts of a parser
  (`parser.c:73`), the unchecked allocations of the semantic actions
  (`grammar.y:83`), any allocation of a command (`command.c:695`), an error in the
  middle of a table of breakpoints (`:384`) or of a list of locations (`:211`,
  `:213`), a push that fails after a command was made (`gdbwire.c:210`);
- *values that are not there*: `mi_status` without a token (`parser.c:190`),
  `cur_bkpt` before the first breakpoint (`command.c:391`), the variable of a
  result that has none (`command.c:321`);
- *what was seen before*: a header is inlined once across all sources
  (`mkgdbwire.py:110`), and the public header is made without marking what it
  copies (`:172`).

## 2. The modules

| module | models | builds on |
|---|---|---|
| `MiLexer` | `gdbwire_mi_lexer.l` byte by byte, and `gdbwire_mi_unescape_cstring` | |
| `MiStrings` | the way of a string from GDB to the client: GDB's escapes, the line, and what unescaping gives back | `MiLexer` |
| `MiLexerProofs` | the theorems about both | `MiStrings` |
| `MiGrammar` | the productions, the automaton's states, the `%destructor` table | |
| `MiPushParser` | bison's push parser on those tables, and the semantic actions with an effect outside the parse tree | `MiGrammar` |
| `MiPushParserProofs` | its theorems | `MiPushParser` |
| `MiLanguage` | the language of the productions, by derivation: the reference for the parser | `MiGrammar` |
| `MiTree` | the structures of `gdbwire_mi_pt.h` on a heap, their allocation, append and free | |
| `MiParseTree` | the push parser with the values on its stack, the semantic actions, and the way of an output to the client | `MiPushParser`, `MiTree` |
| `MiTreeText` | what a parse tree says: the tree printed back as the lexemes of its line | `MiParseTree` |
| `MiParseTreeProofs` | the theorems about the parse tree | `MiParseTree`, `MiPushParserProofs` |
| `MiParser` | `gdbwire_mi_parser.c` with lexer and push parser | `MiPushParser` |
| `MiLineProtocol` | abstract: one output for each line, decided by that line alone | |
| `MiParserProtocol` | the parser as its client sees it: that protocol on the text of the stream, and what it says of a push and of a line | `MiParser`; instance of `MiLineProtocol` |
| `MiLineOutcome` | what becomes of a line that begins on a clean stack, as a function of the line alone | `MiParser` |
| `MiParserProofs` | the theorems about these three, and the refinement | `MiParserProtocol`, `MiLineOutcome`, `MiPushParserProofs` |
| `MiCommand` | `gdbwire_mi_command.c`, as operators on parse trees and a heap | |
| `MiCommandCalls` | a caller that asks for a command and frees it, and what it is promised | `MiCommand` |
| `Gdbwire` | abstract over the parser: `gdbwire_interpreter_exec`, its context and callbacks | (its instance uses `MiCommand`) |
| `GdbwireProofs` | its theorems, and what the commands promise | `Gdbwire`, `MiCommandCalls` |
| `InterpreterExec` | one call of `gdbwire_interpreter_exec` with the parser it makes | `MiParser` |
| `InterpreterExecProtocol` | what that call returns for the lines of its text, and the mapping to `Gdbwire` | `InterpreterExec`, `MiParserProtocol`; instance of `Gdbwire` |
| `InterpreterExecProofs` | its theorems, and the refinement | `InterpreterExecProtocol`, `MiParserProofs` |
| `ByteString` | abstract: the sequence of bytes of `gdbwire_string.h` | |
| `GdbwireString` | `gdbwire_string.c`, byte by byte | instance of `ByteString` |
| `GdbwireStringProofs` | its theorems, and the refinement | `GdbwireString` |
| `MkGdbwire` | `mkgdbwire.py` | |
| `MkGdbwireProofs` | its theorem | `MkGdbwire` |
| `MC...` | instances, input alphabets, reference definitions for TLC | |

### MiLexer

One line of text is scanned from `at`; `Lex` is one call of `gdbwire_mi_lex`.
`Patterns` are the rules in their order, as predicates of the string they match,
and `Match` is how flex chooses among them: the longest match, then the first
rule. `UserAction` is `YY_USER_ACTION`, which gives each token its columns.
`Unescape` is `gdbwire_mi_unescape_cstring` with its index that steps over what
follows a backslash. `MiParser` starts from the tokens: there a lexeme is one
element of the stream, with a width. `MiStrings` adds lines that GDB wrote: two
strings, escaped as `gdbwire_mi_grammar.txt:147-159` says and written between quotes,
so that what the client gets can be compared with what GDB meant.

### MiGrammar and MiPushParser

The stack is the sequence of the grammar symbols on bison's stack, so its length
is the number of states. In this grammar the two topmost symbols determine what
the top state can shift or go to; `Above` says so. That this makes the parser
bison builds is checked in `MiParseTree`: exactly the lines of the grammar are
delivered, each to the callback its productions name, and an error is seen at
its first wrong token. What the skeleton of bison does with
the tables is not in the repository; the actions follow its documented
algorithm (marked external in the map):

| action | code |
|---|---|
| `BeginLine`, `GiveToken` | `parse_line`: `output = 0`, then one `push_parse` for each token |
| `Shift`, `Reduce`, `NeedToken` | the loop of `push_parse`; default reductions as bison makes them, so a reduction can come before an error is noticed |
| `RejectPrompt` | the mid-rule action of the prompt: only `(gdb)` is one |
| `SyntaxError` | `yyerror` if `yyerrstatus` is 0, pop to the state that shifts `error`, run the destructors; a lookahead that did not help is dropped |
| `Exhausted` | `yyexhaustedlab`, at `YYMAXDEPTH` |

`output` and `leaked` follow what `gdbwire_mi_error` and the actions assign: a
symbol popped without a `%destructor`, or an output overwritten by another, adds
to `leaked`.

### MiTree and MiParseTree

A pointer is an address, and the heap a function from addresses to structures.
`Malloc` fails at the allocation the heap was made with; a structure that is used
without a look at it then is a crash (`Struct`), a text is a NULL in the tree. A
free of what is not allocated makes the heap `undefined`. `Frees` has, for the free
function of each type, the calls it makes for what its object owns, and `FreeAll`
makes all the calls there are, and those they make, until none is left. Which of two
is made first makes no difference to what is freed, so the calls still to be made are
a set, and no definition that the proofs need is recursive.

`MiParseTree` has an action for each of `MiPushParser`, and does with `values`,
the semantic values on the stack, what the grammar's actions do: `Action` has a
case for each of them, `Recovered` runs the destructors of what error recovery
pops, `Report` is `gdbwire_mi_error`. `Deliver` is the end of `parse_line` with
`gdbwire_mi_output_callback`: the copy of the line, the switch for the callback
(`Dispatch`), and the free when the client has set none. `CallbackReturns` frees
the output. `pending` holds the outputs whose callbacks run, and the client may
push the next line from there. `fed` is history: the lexemes of the line, which `MiTreeText`
compares with the tree.

### MiParser

The input is a sequence of lexemes, blanks, CR, LF and NUL. `pc` is where the
innermost call of `push_data` is, and `calls` how many there are on the C stack:
the callback may push again, and the outer call goes on when it returns.
`PushData`/`Push` append and scan the new data; `GetNextLine`, `LineNotCopied`
and `NoMoreLines` are the outcomes of `get_next_line`; `LexToken`, `SkipBlank`,
`ParseToken` and `EndOfLine` the loop of `parse_line`; `Deliver` and `FailLine`
the assertions after it. `PushNotStored` is the append that fails: the string is
left without data and with a size, so any later use of it dereferences NULL
(`Crash`), and all that is left to do is `Destroy`. `failed`, `consumed`, `pushed`
and `delivered` are history. The C string of a line ends at its first NUL
(`CString`). An undefined `mi_status` (a line without a token) makes no
difference: there is no output then, and the second assertion fails where the
first did not.

`MiParserProtocol` maps it to `MiLineProtocol`: the input there is what was pushed
up to the first CR or NUL (`Text`), the outputs are the kinds of what was
delivered for it. `Verdict`, the kind of the output that a line has by itself, is a
constant; `MCMiParser` fills it with the language of the grammar. `MiLineOutcome`
follows one line from a clean stack through lexer and push parser: `After` is the
next step, as a function of what of the state matters (`Begin` lists it), and
`EndsIn` where its run ends. No run of the client, no other line and no buffer comes
into it, so what it says of a line is said of the line alone.

### MiCommand

The command functions have no state, so they are operators from a parse tree and
a heap to a result, an object and a heap. The heap counts the allocations, those
until one fails and those that are live. `CommandFree` is
`gdbwire_mi_command_free`; the recursion of the free functions is there a level at a
time (`Inside`). `break_info_for_breakpoint` calls itself for the locations in its
fields, so `BreakpointAt` is a function of how deep these nest, up to `MaxNesting`, a
bound that the code does not have. A breakpoint has the
number of its allocation (`at`), so a back pointer can be told right from wrong.
`UNDEFINED` is the result of a `strcmp` with a NULL variable and of `cur_bkpt`
before it has a value. `MiCommandCalls` has the state: what was asked (`Ask`),
answered, and whether the answer was freed (`FreeAnswer`); one call is like the next.

### Gdbwire and InterpreterExec

`Gdbwire` takes what `MiLineProtocol` says of the parser, one output for each
line in order and a push that may fail between any two, and what
`gdbwire_get_mi_command` can do as the constant `Makes`, of which it assumes what
`OutIffOK` says of `MiCommand`: a command exactly with OK (`MakesWhatWasPromised`
proves that it is so). `MCGdbwire` fills the constant with the operators of `MiCommand`.

`InterpreterExec` is one call with everything in it: `Create` and `CreateFails`
are the five allocations of `gdbwire_create` and `gdbwire_mi_parser_create`, each
with the cleanup of its own return; `PushText` is the one push; `ParserRuns` is a
step of `MiParser`; `OnOutput` the callback, which dispatches the output and, for
a result record, calls `gdbwire_get_mi_command`; `PushFailed`, `PushSucceeded` and
`DestroyWire` the returns. `InterpreterExecProtocol` maps it to `Gdbwire`: the text
there is what the callbacks are to be told of its lines (`ToldBy`), each line cut
out of the text by `MiLineProtocol`'s `Ends` and `Line` and told by its verdict; what the
parser has not delivered is `unread`. `ReturnsForLines` says what is returned in terms
of the lines.

### GdbwireString

`data` is a function on `0..capacity-1`, with `Junk` where nothing was written
since the memory was allocated. `append_data` is a step for each byte and a step
for each enlargement; `append_cstr` appends its NUL and then does not count it.
`ByteString` has no memory: an append begins, and later has its effect or runs
out of memory. The refinement maps `contents` to the bytes that were there when
the running append began. A string whose `realloc` failed keeps a size and has
no data; the calls that look at the data crash, and the others, which change
nothing, are left out.

### MkGdbwire

A line of a file is `text`, a `#line`, or the name in an `#include ""`. `open` is
the recursion of `copy_file`, `available` its `available_hdr`. `NextFile` is the
loop of `write_gdbwire_header` or `write_gdbwire_source`; `Inline`, `CommentOut`,
`CopyLine`, `SkipLine` and `EndOfFile` are the branches of `copy_file`. `defined`
and `live` are history: the include guards as a compiler will see them in what is
written, so that `SameAsTheFiles` can compare what it compiles with
what it would compile of the files.

## 3. The runs

| run | question | bounds | states |
|---|---|---|---|
| `push_parser` | does the push parser recover, report, free and return, for any tokens in any order, lines cut off anywhere? | stack of 12; every token; two words | 6,676 |
| `tree` | does each line's tree say what the line says, does it reach the right callback, who owns what, and is all of it freed, also when an allocation fails? | lines of 9 lexemes, 6 with a failing allocation (any of the first 8); nested lines of 3; errors looked for in lines of 7 | 677,037 |
| `lexer` | do tokens tile every text, does each line end in its newline, does unescaping give back what GDB wrote? | texts of 5 out of 9 characters; lines with two strings of up to 3 and 2 out of 5 | 405,625 |
| `parser` | does the whole parser implement the line protocol, lose no byte, return, and what can NULs and a failing allocation do? | 5 elements, chunks of 2, 2 calls, 1 fault | 722,314 |
| `exec` | does interpreter_exec with its parser implement `Gdbwire`, and free all it made? | texts of 3 lines of 6 sorts and a cut one, both newlines, 1 fault | 217,248 |
| `interpreter_exec` | who owns the commands, call after call? | texts of 3 lines, 4 commands | 47,248 |
| `command` | do all commands succeed exactly with an object, free all, agree on both encodings? | every shape the code tells apart; any one of 20 allocations fails; locations one level deep | 218,816 |
| `string` | does the string implement the sequence of bytes? | capacities 1, 2, 4, 6; 3 bytes | 74,614 |
| `amalgamation` | does a compiler see the same text in one file as in many? | 3 headers including each other in any way, 2 sources | 216,523 |
| `parser_crlf`, `parser_cut`, `command_bkpt` | the disagreements of section 6 | the smallest that show them | |

Why the bounds are enough:

- `push_parser`: a stack of 12 has room for a record with a token and a list in a
  tuple (bottom, output_list, opt_token, CARROT, result_class, COMMA,
  opt_variable, OPEN_BRACE, ...), and is exhausted by the next level. What a
  state does depends on its two topmost symbols, so deeper nesting repeats. The
  proofs of section 5 are for every depth.
- `tree`: 9 lexemes reach every production, nest once, and hold lists of two.
  Operators and words that the grammar treats alike come where they can make a
  difference, and any token can be wrong among the first four of a line. A line of
  6 lexemes has at most 8 allocations. A callback of a callback would see what the
  first one sees.
- `lexer`: the 9 characters have one of each rule and all that a c-string tells
  apart; a string that ends in a backslash before the closing quote needs 4.
- `parser`: the shortest stream with a complete well-formed stream record has three
  elements, so 5 hold two lines, one of them well-formed, with every cut, newline
  and NUL. Two calls on the stack are one push from within a callback; a third
  one would see the same as the second.
- `exec`: the lines are of every kind the callback tells apart, well-formed, wrong
  and too deep for the stack (8 there), and two records are one more than a call
  expects.
- `command`: the functions look at one result at a time; two or three of them
  reach every order that matters (a field twice, a location before and after a
  breakpoint, a bad location first or last). 20 allocations are more than any of
  these records needs.
- `string`: first capacity 1 and step 2 go through "first, doubled, doubled,
  plus step" as 128 and 4096 do, with appends that need none, one and several
  enlargements.
- `amalgamation`: three headers are the fewest that can include each other in a
  circle with one more that is reached through it.

Deadlock is checked but for runs that stop by their bounds or a crash (`tree`,
`command`, `interpreter_exec`). Each property has a mutant, a definition in the
module it breaks, marked "Mutant" and placed before the one it replaces: it
shows that the property depends on that piece of the code.

### What they show

- A syntax error never outlives its line when the line reaches its newline
  (`Resync`), every line gets exactly one output (`LineHasOutput`), error recovery
  terminates (`Returns`), and the `%destructor` list is complete (`NoLeak`), as the
  comment above it claims.
- Each complete line goes to the callback the productions name for it and to no
  other, and an unfinished line is an error only if no line begins like it
  (`EachToItsCallback`: so the parser accepts the grammar's language, no more and no
  less); an error is reported at the first token with which no line begins, neither
  later nor earlier (`ErrorsAreInTime`). The tree, printed back, is the line (`TreeIsTheLine`), also while
  a callback pushes other lines. Everything on the heap has exactly one owner
  between any two steps (`OneOwner`), and between two lines, with no callback at work,
  nothing is on it (`AllIsFreed`). A failing allocation crashes the program or costs one
  text (`TreeIsTheLine`); the copy of the line can be that text, and the callback then
  has a NULL line, which `gdbwire_mi_pt.h` says it never has.
- Tokens tile their text (`ColumnsTile`); a line's newline is one token, the last,
  whatever quotes are open (`NewlineEndsLine`); unescaping stops at the
  closing quote of every c-string, and on a line of two of them it undoes what GDB
  does, backslashes before the closing quote included, but for octal escapes, which
  stay as they are (`GivesBackTheStrings`). The two are the third and the seventh
  token of the line: they are never taken for one.
- For text with LF newlines the parser implements `MiLineProtocol`: chunks,
  reentrant pushes and a failing allocation make no difference to the sequence of
  outputs, only to when they come (`ImplementsProtocol`, `DeliversText`: as long as
  no line was too deep, whose output is lost). A push that fails leaves the lines
  behind the wrong one in the buffer. They wait until a push with a newline in its
  data returns `GDBWIRE_OK`, which leaves none (`NothingLeftBehind`); a push without
  a newline does not look for them, and returns `GDBWIRE_OK` in the meantime. The
  model keeps the two replies apart (`reply` is `"OK"` or `"KEPT"`), and both
  properties say from when to when lines can wait.
- With NUL bytes, no byte is lost (`Conservation`); only a line that a NUL cuts
  before its newline, or one too deep for the stack, is refused (`FailsOnlyOnNul`),
  and only the former leaves something behind (`OnlyCutLinesLinger`). A line that
  starts clean, and is not too deep, is judged by its own words
  (`CleanLinesStandAlone`), and an error points at its token, in the line it is
  delivered with (`ErrorsPointAtTheirToken`). Every push returns, unless the append of
  a push from within its callback failed: the program crashes then (`PushReturns`).
- Commands: OK exactly with an object (`OutIffOK`); everything is freed, but for
  the locations or the breakpoint that `break_info_for_breakpoint` forgets when a
  record has locations and fails (`FreesAll`); both encodings of locations give the
  same command (`BothEncodings`), with back pointers to the right breakpoint
  (`BackPointers`). The calls that use `cur_bkpt` before it has a value, or give `strcmp` a
  name that is missing, are those for a table that starts with a location and for
  records without a name where one is compared; what fails on the way through
  any other table leads to neither (`UndefinedOnlyThen`).
- interpreter_exec: `CommandIffOK`, `OnlyResultRecords`, `NothingDangles`, and the
  only two ways in which a command is lost (`LosesOnlyThen`): a push that fails
  after it was made, and a second result record in the text. With its parser it
  implements that (`ImplementsExec`), leaves nothing of its own allocated
  (`NothingOutlives`), and returns (`ExecReturns`). In terms of the text: OK only if
  there is a complete line and all of them are result records the command can be made
  of; and then what is returned is what `gdbwire_get_mi_command` said of one of them,
  with memory for the parser and no line too deep (`OkIffOnlyRecords`). A last line
  without a newline is not heard at all.
- The string: `StringInv`, `AppendedIsTerminated`, and `ImplementsByteString`.
- The amalgamation: the recursion is bounded (`NeverInsideItself`), and a compiler
  sees the text of the files in the same order (`SameAsTheFiles`). For the header
  that needs the headers to include each other in no circle, as those of the
  repository do: `write_gdbwire_header` copies headers it has inlined before, and
  only guards keep the second copy out.

## 4. Fairness

All the code is sequential. `FairPushSpec` has WF on `PushStep`: a call of
`push_parse` runs until it returns. `MiParser!FairSpec` has WF on `Library`, for the
same reason, on `CallbackReturns`: a callback that never returns is the client's
business, and the number of pushes from within callbacks is bounded by
`MaxPushed`; and on `Crash` while a push runs, which is what it does next when its
buffer has no data. Nothing is assumed of the client's own calls.
`FairExecSpec` has WF on `ExecStep`: it is one call of a sequential program, whose
callbacks are the library's own. The other specifications state no fairness and
have no liveness property.

## 5. What is proved

By TLAPS, for every value of the constants under the named assumptions:

**Lexer** (`MiLexerProofs`; `TextsAssumption`: a text is a sequence of characters;
for the strings `PairsAssumption`: so are they, and what GDB writes around and in
them is characters too). For every set of texts: `LexerTypes`, `ColumnsAlwaysTile`
and `EveryLineEndsInNewline`. That `Match` always
exists needs that every first character has a rule and that a set of lengths has
a greatest element; `EveryLineEndsInNewline` then shows that the only rule that
could match a newline with something before it is CSTRING, which ends in a
quote, and that nothing else on a line is taken for a newline. The invariant `LInv`
adds to the types where the last token ends.

`StringsAlwaysBack`: `GivesBackTheStrings` for strings of any length and of any
characters. `IsCstring` and `Unescape` walk over a text with recursive functions;
each is shown to satisfy its equation at every index, and facts about all indices
follow by induction, as the absence of a least counterexample. Walking over an
escaped string, an index that is at the start of what GDB wrote for one character is
next at the start of the next one, so a c-string ends at the quote GDB closed it with
and unescaping has read one character of the string for each. A text has at most one
c-string that begins at a place, because the walk decides where it ends; that it is
also the longest match of any rule is then flex's choice. The invariant, `StringsInv`,
says what `LInv` says, that every CSTRING token is a c-string of the text
(`CstringTokens`), and which tokens of GDB's line have been read and where the next one
begins (`LineTokens`).

**Push parser** (`MiPushParserProofs`; `WordsAssumption`, `PositionsAssumption`,
`MaxDepthAssumption`: at least 6). `Invariance` proves `PushInv`, from which
`TypeCorrectness`, `Resynchronises`, `EveryLineHasOutput` and `NothingLeaks` follow.
None of them is inductive alone. `PushInv` adds the shape of the stack (every
symbol stands on a state that leads to it), that `yyerrstatus` is a function of
the stack (3 on `error`, 2 when its newline is shifted, otherwise 0: it never counts
down to 1), where the lookahead can be a newline, and when a line has its
output. The one rule that needs `yyerrok`, the one state that shifts `error`, and
the list of destructors are where the argument would break.

`AtMostOneHandle`: on every such stack at most one rule can be reduced. Most rules
are told apart by the symbol they end in (`SoleRule`); the few that share one
(`SharedEnding`), by what lies below on a stack of that shape. So the tables, which
`MiGrammar` states as sets, leave the parser no choice.

**Parse tree** (`MiParseTreeProofs`; the assumptions of the push parser, and nothing of
`Callbacks`, `Faults` or `MaxCalls`). `TreeInvariance` proves `TreeInv`, for lines of any
length and nesting, whatever callbacks are set, however deep they nest, and whichever
allocation fails, until the program dereferences NULL. The model's own invariant,
`OneOwner`, says who points to what and is not inductive: a free function follows
pointers, so what it frees has to be known as a whole. `TreeInv` says that the objects
are a `Forest` (each is well-formed, and is a root or owned by exactly one other, which
has a pointer of its type), that nothing is owned in a circle (`Rooted`), and that
the tail of a list under construction is its last element and no other list's
(`Lists`); that the roots are what the values on the parser's stack, the outputs of
the callbacks at work, the output of the line and the lost ones hold, each of them a
root of its own (`Tree`), and of the type that its `%destructor` or free function takes
(`Values`, `Fits`); and `PushInv`.

What a semantic action does is shown for each production (`TreeReduced`): it takes the
roots of the values it pops and leaves the one of its value, or the program has
crashed. What the free functions do is shown once, for any set of roots (`FreeAll`'s
lemmas): as many calls as there are objects free just what is under these roots,
nothing twice, and leave a forest of the other roots. That is an induction on the calls,
and `Rooted` is what ends it: a call that is left when the objects are gone would be one
for an object that no root leads to. `PushInv` supplies which symbols are popped without
a `%destructor` and that no output is overwritten by another.

- `EverythingIsOwnedOnce` (`OneOwner`) follows: no leak, no double free, no use after
  free, and no object that two places point to.
- `NothingIsKept` (`AllIsFreed`): when the parser is between two lines, its stack has no
  value that owns anything, so the forest has no root, and by `Rooted` no object.
- `CallbacksKeepTheirOutputs` (`TreesAreLeftAlone`): a callback may push more lines into
  the parser that called it, while it holds its output. No step that follows frees or
  changes an object of that tree until the callback returns, whatever becomes of the
  pushed lines. This is about the steps of a forest, not only its shape: each step
  leaves alone (`Stays`) what is reached from the roots that it neither pops, destroys,
  frees nor delivers. What a step writes to is a root, or the end of the list that is
  one, and no other root leads there. There is no run of its own for this property.
- `OutputsAreWhatWasParsed` (`OutputsAgree`): what is proved of the push parser and of the
  parser is about `output`, a record; the client is given a tree. They agree: there is a
  tree exactly when there is such a record, of its kind, and a parse error has its
  position and token. `AgreeInv` adds that the value of an `output_variant` on the stack
  has the kind that was reduced. That the text of an error's token is reached from its
  output alone is why what recovery destroys after `yyerror` is not part of it
  (`SaysStays`). There is no run of its own for this property.

**Parser** (`MiParserProofs`; the assumptions of `MiParser` and, where it is said, that
every column is a position, `EveryColumn`, which an instance with finitely many
`Positions` does not have). `AnyStep` is a step of the parser with any chunk and no
bound on what is pushed, so that other clients of the parser can use its lemmas;
`ParserInv` is the conjunction of the invariants below and `ParserInvStep` proves that
such a step keeps it.

- `BufferInv` gives `NothingIsLost` (`Conservation`) and `NoLineIsLeft`
  (`NothingLeftBehind`): a push that does not scan the old data misses nothing
  because what waits there has no newline unless a push has failed, and a push with
  a newline ends with `GDBWIRE_OK` only when `get_next_line` finds none.
- `ParserDrivesPushParser` proves `Spec => PushSpec`: every step of the parser is one
  of `MiPushParser` or leaves its variables alone, so all that is proved of the push
  parser holds inside the parser. With it `ParserTypes` (the calls on the C stack are
  counted in `CallsInv`) and `CompleteLinesLeaveNothing` follow, the latter through
  `LingerInv`: while a line with a newline is read, the newline is still ahead or has
  been parsed.
- `OnlyNulFails` (`FailsOnlyOnNul`), through `NulFreeInv`: without a NUL every line has
  its newline as a token, so it ends with an output, and the only one that
  `FailLine` can drop is that of a line too deep (`RefusedIsTooDeep`).
- `ErrorsAreWhereTheySay` (`ErrorsPointAtTheirToken`), through `ColumnInv`: the columns
  count the elements of the line that were lexed, and an error takes its position
  from the last token, its text included, a `\r\n` at the end of the line included.
- `ShortLinesSucceed`: a line too deep is a long one. A shift adds one state, a
  reduction at most one, and only for a symbol that stands for nothing and never for
  two in a row (`ReducedDepth`); so a line of n tokens needs at most 4 + 2n states
  (`DepthInv`), and as long as `4 + 2 * Len(line) < MaxDepth` (`ShortLine`) and there is
  no NUL, no push fails that has memory. With bison's 10,000 that is every line of
  fewer than about 5,000 tokens.

**The outcome of a line** (the same module; `EveryColumn`). `OutcomeInv`: a line
that begins on a clean stack is at each moment on the run that `MiLineOutcome` has
for it (`OnItsRun`). What of the state decides is `Here`; each step moves it to
`After(Here)` or leaves it (one lemma for each action of the push parser,
`ReduceMoves` on `AtMostOneHandle`). `CleanLinesAreAlone` (`CleanLinesStandAlone`) follows
from it: what came before, wrong lines, lines cut off, pushes from within callbacks,
makes no difference. It assumes `VerdictIsOutcome`: that the constant `Verdict` gives a
line with a newline the kind it ends in, if it is not too deep. `EndIsUnique` proves
that there is at most one such end, so the assumption asks for one verdict for each
line and nothing else.

**The line protocol** (the same module). `StreamInv` relates the stream to the outputs: what
was cut into lines is a beginning of what was pushed, and the lines of text in it
have had their outputs, but for the one in hand (`KeepsUp`), unless an output was
dropped. `EveryLineIsDelivered` (`DeliversText`) follows without `VerdictIsOutcome`: a push that
failed can leave lines without their output, until one with a newline in its data
returns `GDBWIRE_OK`.
`ParserImplementsProtocol` proves the refinement, a step of the parser being the next
verdict, a chunk received, or a stutter, under `VerdictIsOutcome` and as long as no
line of text is too deep (`[]NoneTooDeep`): the output of such a line is dropped, and
then the sequence has a gap. `ShortLinesImplementProtocol` needs only that lines are
short (`[]ShortLine`), by the same argument as `ShortLinesSucceed`.

**interpreter_exec over the parser** (`InterpreterExecProofs`; `EveryColumn`). Each step of
the call is one of the parser's `AnyStep`, or the failed allocation of something else
(`FaultElsewhere`), so `ParserInv` and `OutcomeInv` hold here too (`ExecInv`). With
`TextInv` (a C string has no NUL), `ObjectsInv` (what `gdbwire_create` has made is a
prefix of its parts, so each cleanup frees what is there) and `CommandInv`:

- `EverythingFreed` (`NothingOutlives`): whichever allocation fails;
- `CommandExists`: OK exactly with a command, and never one that was freed.

Under `VerdictIsOutcome`, with `LinesInv` (the lines delivered are the first ones of the
text, each with its verdict; `EndsBy` counts them, whichever newlines they have) and
`MadeInv` (the context's result and command say whether the lines heard so far were
all good):

- `CommandOfRecordsOnly` (`OkIffOnlyRecords`);
- `ExecImplementsGdbwire` (`ImplementsExec`): the refinement of `Gdbwire`, step by step. It
  needs no hypothesis about deep lines: a push that fails is one the abstract call
  has too.

**interpreter_exec** (`GdbwireProofs`; `RecordsAssumption`, `TextsAssumption`,
`MakesAssumption`, `MaxCommandsAssumption`). `ExecInvariance` proves `ExecInv`: in
the push the context owns a command exactly when something was heard and all of
it was good, and everything else alive is the front end's or was lost before, or
a second record came. `OkMeansACommand`, `NothingElseBecomesACommand`,
`HeldCommandsLive` and `LostCommandsExplained` follow.

**The commands** (`GdbwireProofs`; `QuestionsAssumption`: a command is asked for by one of
the four kinds). `CommandExactlyWithOK` (`OutIffOK`): every return of the four functions
is an error without a command, or OK with one (`Promised`). Nothing is needed of the
loops over the records, so it holds for records of any shape: what decides is that the
cleanup of `break_info` and of `file_list_exec_source_files` looks at the result of the
loop, and at the last allocation. `MakesWhatWasPromised` puts it to use: the second part
of `MakesAssumption`, from which the theorems above follow, is true of these commands.
The first part, that the result is one of the four codes, is not true of a record whose
result has no name where `strcmp` reads it (`UNDEFINED`); the theorems are about others.

**The string** (`GdbwireStringProofs`; any first capacity and step above 0).
`StringInvariance` proves `StringInv`: the size is within the capacity, the bytes
of the string were written, the last `index` of them are the first ones of the
chunk, and without data there is room (so no later call enlarges NULL).
`AppendTerminates` follows. `Refinement` proves `Spec => ImplementsByteString`:
`Larger` really enlarges, the loop stutters, and its end is the abstract append.

**The amalgamation** (`MkGdbwireProofs`; any lists and contents). `RecursionEnds`:
`CopyInv` says that the headers an `#include` has opened are not available any
more, so none is opened through an `#include` in its own text again.

Only model-checked: liveness (`Returns`, `PushReturns`, `ExecReturns`), which is out
of reach of the prover; what the loops of the commands make of a whole record
(`FreesAll`, `BackPointers`, `BothEncodings`, `UndefinedOnlyThen`), an induction over the
record in which the loop calls itself; what a tree says and
which lines the grammar has, because a tree is printed and a language derived by
recursion (`TreeIsTheLine`, `EachToItsCallback`, `ErrorsAreInTime`); that the outcome of a line
is the verdict of the grammar's language, which is defined by recursion (`MCMiParser` and `MCInterpreterExec`
fill `Verdict` with it, and their runs check what the proofs assume of it); that the
amalgamation is the same text (`SameAsTheFiles`).

## 6. Where the code and its documentation disagree

| run | what |
|---|---|
| `parser_crlf` | `\r\n` cut between two pushes is two newlines, and the second is reported as a parse error of a line nobody sent (`parser.c:245`) |
| `parser_cut` | a line that a NUL cuts before its newline stays in the push parser, and the next one is parsed as its continuation: a line that the productions take for a record is delivered as something else (`parser.c:156`; the run shows it with 6 elements, a cut line and a well-formed one) |
| `command_bkpt` | `break_info_for_breakpoint` can return an error together with a breakpoint, which its caller then loses (`command.c:213`) |

The quotations are in `PROJECT.json`. Smaller ones have no run of their own:

- `parser.c:192` says that each line should produce an output. A line nested deeper
  than `YYMAXDEPTH` fails the push at line 190 and drops the parse error it made
  (`FailLine`; `exec` has such lines).
- `parser.c:295-301` says that the data of each push is searched for a newline once,
  "rather than checking all the data every time", as if the two came to the same.
  They do not after a push that failed: complete lines wait in the buffer, and a push
  without a newline returns `GDBWIRE_OK` without looking at them (`PushData`).
- `command.c:296-297` promises failure and no command, or success; the first
  breakpoint of a table being a location, `cur_bkpt` is used before it has a value
  (line 391; `UndefinedOnlyThen` says what leads there).
- `gdbwire_mi_pt.h:89` says that the line of an output is never NULL; `parser.c:194`
  does not look at its copy (`TreeIsTheLine` counts it as the one text that is lost).
- `grammar.y:98` says that unescaping provides "the original characters"; octal
  escapes are kept (`GivesBackTheStrings` pins that).
- `gdbwire_string.h:16` and the comment in `gdbwire_string_erase` say that a string
  can always be read as a C string; an erase before its end does not move the NUL
  (`string.c:211`, `Erase`).
- `mkgdbwire.py:87` says that an include of another project is left alone; line
  118 comments out every `#include ""` it has no header for (`CommentOut`).

## 7. What is not modelled

- Use after free when the client destroys the parser from its callback, which
  nothing in the repository does; the bytes of a string behind the counted ones.
- `strtoul` and `atoi` (which numerals there are and their values are parameters of
  `MiCommand`; that a sign or blanks are taken too is not), and flex's own buffers,
  whose failing allocation ends the program.
- `append_gdbwire_mi_output` and `append_gdbwire_mi_result`, which nothing calls.
- Logging, and its own unchecked `malloc`: it changes nothing the models have.
- A fault model with more than one failing allocation: each cleanup is met by one.
- In `MkGdbwire`: copying the sources, the copyright and the git revision, lines with
  comments inside an `#include`.
- The example programs are two clients without state. The test suite
  (about 4,000 lines) and its framework `catch.hpp` (10,509 lines) are not part of
  what the library does. They are most of the lines of the repository, so the share
  of all lines that the models stand for is small, while that of the library's own
  files is above two thirds of all but the public headers, which are comments.

## 8. The plan

Done: all modules of section 2. What would come next, most useful first:

1. `FreesAll` for records of any length, by induction on the folds of `MiCommand`: that
   no allocation is freed twice, and none lost where no breakpoint has locations. With
   lists of locations in locations, which GDB does not write, a location that is lost
   can come with a command, so it does not hold there as it stands.
2. `SameAsTheFiles` for lists of any length, by induction on the files.
3. `strtoul` and `atoi` as functions on characters, in `MiLexer`'s alphabet.
