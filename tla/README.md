# kapuc: a TLA+ verification project

`kapuc` is the front end of a compiler for the language Kapu: a lexer that turns
a file into an array of tokens, a recursive descent parser that turns the tokens
into a tree, and a driver that runs the two, prints and frees the tree and tries
out LLVM. With it come the libraries it is linked with: dynamic strings (`sds`),
dynamic arrays and hash maps (`stb_ds`), a logger, and container templates
(`ctl`). This directory holds models of them, the instances TLC checks, and the
theorems TLAPS has proved. `src/` below is the root of the repository.

## 1. Inventory

| Part | Source | State it keeps | Operations |
|---|---|---|---|
| token vocabulary | `src/kapuc/lex.h` | none | `enum TOK_TYPE`, `struct TOK` |
| lexer | `src/kapuc/lex.c` | the offset of the `FILE*`, the byte in hand, the sds being filled, the token array | `lex()` |
| parser | `src/kapuc/parse.c:1-462` | `struct parser` (tokens, pos), the C stack, the malloc'ed nodes | `build_block()` and nine functions under it |
| tree walk | `src/kapuc/parse.c:464-597` | the tree | `print_entire_expression`, `free_parse_tree` |
| driver | `src/kapuc/main.c:136-217` | tokens, tree, stream | `main()` |
| LLVM trials | `src/kapuc/main.c:22-134` | LLVM objects | `test_llvm_wasm`, `test_llvm_native` |
| strings | `lib/sds.c`, `lib/sds.h` | one block per string: header type, length, capacity, bytes | making, growing, appending, cutting, splitting, joining, quoting |
| arrays, hash maps | `lib/stb_ds.h` | the entries, an index of buckets, tombstones, keys made by strdup or in an arena | put, get, delete, default, free |
| logging | `lib/log.c` | level, quiet flag, lock, 32 callbacks, localtime's static structure | `log_log`, `log_add_callback`, setters |
| ordered set | `lib/ctl/set.h` | a red-black tree with parent pointers | insert, erase, bounds, set algebra, `remove_if` |
| deque | `lib/ctl/deq.h` | pages of values, an array of page pointers, two marks | push, pop, insert, erase, resize, sort, `remove_if` |
| command line | `lib/env_args.cpp` | LLVM option objects | `parse_commandline_options`, getters |
| other containers | `lib/ctl/{vec,lst,pqu,que,stk,str,ust}.h` | templates | not called by kapuc |

**How the parts interact.** In kapuc everything is a call in one thread. `main`
opens the file, calls `lex`, refuses the file if the *last* token is `T_ERR`, and
hands the array to the parser, which only reads it. A tree node does not copy the
text of a token, it points at the same sds; so the strings belong to the tokens,
the nodes to the tree, `free_parse_tree` frees nodes only, and `main` frees the
strings one token at a time at the end (`main.c:212`). The libraries are called
and call nothing back, but for the logger's callbacks; the logger is the one that
is made for several threads.

**What is hard here.**

* the lexer looks one byte ahead and gives it back with `fseek(-1)`, in six
  places, each with its own idea of what happens at the end of the file;
* strings change owner (loop, token, freed keyword), and every early exit is a
  place to lose one;
* the parser moves nodes by `memmove` into a new node and then overwrites the
  original, so that for a moment two nodes own the same children, across a call
  that recurses;
* `build_atom` reports success when it has built nothing, so callers go on with
  nodes whose contents nobody wrote, and two walks read the result;
* an sds changes the width of its header while it grows, and its allocations fail;
* a hash map deletes by moving its last entry, counts tombstones apart from used
  slots, and rebuilds itself at three thresholds, while its keys have owners;
* the logger's event holds a pointer to a static structure all threads share;
* the red-black tree recolors and rotates through eleven cases; the deque has a
  boundary at every page and a shift at every growth.

**What makes each part correct.** *Lexer*: the file is cut into longest lexemes,
each becomes its token, no byte is read into two tokens, each string has one
owner, the call returns. *Parser*: it stays inside the token array, returns,
recurses in proportion to the tokens consumed; every node and every text has one
owner at every moment; the tree spells the source in order and nests by
precedence; a sentence of the grammar is accepted to its end. *Walks and driver*:
every node and string freed once and none left over, no field read that was not
written, no unknown byte among what is printed, the program ends. *Strings*: the
header tells the truth about the block, and the calls do to the content what
their comments say. *Hash map*, *set*, *deque*: a map, a set, a sequence, whatever
moves underneath; one owner of every key, node and page; probes end; the tree is
balanced. *Logger*: every sink gets what it is due, in one order, with one time.

## 2. Modules

| Module | Models | Notes |
|---|---|---|
| `Tokens` | `lex.h` | the token types; `NULL` |
| `Lexemes` | byte classes and tables of `lex.c` | pure operators |
| `Tokenizer` | what `lex()` promises | abstract specification: one step cuts one lexeme |
| `Lexer` | `lex()` | one action per branch and per exit of a loop; implements `Tokenizer` |
| `Parser` | `build_block()` and everything under it | explicit C stack and heap |
| `ParseTrees` | what a finished tree must be | properties over the tree, recursive functions |
| `Compiler` | `main()`, the two walks | composes `Lexer`, `Parser` and `ParseTrees` |
| `SdsText` | the algorithms of `sds.c` on texts | pure: trim, range, repr, split, arguments, numbers |
| `Strings` | what a string promises | abstract specification |
| `Sds` | one sds: header, block, growth | one action per call, one per round of a loop; implements `Strings` |
| `SdsLists` | `Sds` with the calls on many strings | split, join, split arguments, from a number |
| `KeyMap` | what a map promises | abstract specification |
| `StringArena` | `stbds_stralloc` | pure, with the layout of blocks |
| `HashMap` | `stb_ds.h`: entries, index, keys | runs beside `KeyMap` |
| `Log` | `log.c` | threads, lock, clock |
| `TreeSet` | the red-black tree of `set.h` | pure: an operator per C function |
| `OrderedSet` | the set's calls | one action per call, beside the set they should make |
| `Pages` | the pages of `deq.h` | pure: an operator per C function |
| `Deque` | the deque's calls | one action per call, beside the sequence they should make |
| `MC...` | instances for TLC | small sets of inputs |
| `LexerProofs`, `ParserProofs`, `ParserNodeProofs`, `ParserOrderProofs`, `LogProofs`, `SdsProofs`, `CompilerProofs`, `HashMapProofs` | theorems | |

### Lexer

State: `off` is `ftell(stream)`; `pc` is the loop the code is in (`scan` is the
head of the outer `while`; `word`, `num`, `comment`, `string`, `coffee` the inner
ones; `pair` is the middle of `TOK_MULTICHAR_SYMBOL`); `org` is the offset at which
the lexeme began; `live` the sds strings allocated and not freed; `toks` is `pToks`.
Every `fgetc` is a step. Where the code gives a byte back, the step that reads it
ends at the offset `fseek` leaves: a byte that ends a word is not consumed, and
the `fseek` after an EOF (`ShortSymbol`) goes back over the symbol, as in C, where
the failed `fgetc` has moved nothing.

A byte is a one-character string. A string is named by the offset where its lexeme
begins, which tells two strings apart and fixes its text; `sdscatlen` therefore
changes nothing but `off`. `log_error` is left out.

### Parser

A step is what one C function does between two calls: `stack` is the C stack, with an
entry for each call of a `build_` function that has not returned, also where the caller
only passes the result on (`PassOn`, `ExpressionEnd`); the helpers that call nothing
back (`advance`, `get_cur_tok`, ...) are part of a step. A frame says where its function
goes on (`at`), the node it fills (`tree`), the nodes only its locals point to (`own`),
its `op`, and a number. `heap` is the sequence of
nodes in the order of their mallocs, so that a pointer is an index. A node that
malloc returned has the type `GARBAGE`, and a pointer field nobody wrote is `Wild`.
`*tree = new_tree` and the `memmove`s are modelled as they are, so the moments when
two nodes have the same contents are states of the model. The `static inline`
`build_assignment_expression` is a call like the others (`assign`, `let_name`). The end of
`let`, `return`, `x = e` and of an expression statement is the same code four times
(test the semicolon, advance, return) and is one label, `stmt_end`.

Left out: the value of `atol`, log output, and a failing malloc (the code tests none).
Tokens the functions do not name (`FUNC`, `STRING`, ...) fall into their `default`.

### Compiler

`phase` is where `main` is; in `lex` and `parse` the actions are those of `Lexer` and
`Parser`, on the same variables, so `main` runs the real ones. The two walks are
recursion over the tree and are modelled by a stack of nodes to visit, one step per
node, with `PrintKids` and `FreeKids` giving the nodes a visit calls the function
for, in order, and `freed` what `free` was called on. Undefined behaviour ends the model
in one of three phases, by its cause: `undefined` for a read or a free of what has been
freed, and for the element before the array of no tokens; `unwritten` for a pointer or a
type as `malloc` left it; `unset` for an `isConst` as `malloc` left it, which a step of
`PrintNode` may also take for either word and go on. `Ends` counts the three as ends.
The command line is the choice of `noParse`.

### Strings

A block is the header type it was laid out for, the bytes from the pointer to its
end, and the bytes written so far, so that a read of a byte nobody wrote would be
outside the domain of `text`. The limits of the header types (2^5, 2^8, ...) are a
constant, and a field is written modulo its limit. A growth that fails returns NULL
with the string untouched, which is a step that changes nothing; in the calls that
append in a loop the next round dereferences the NULL (`Crash`), and `sdscatfmt` does so
after its first growth too (`CatFmt`). A split one of whose mallocs fails has freed its
pieces and returns NULL (`unsplit`). `call` remembers the
last call, so that `Strings` can say what it should have made of the content.

### Hash map

`table` is `stbds_hash_index` with its hashes and indexes by slot; `items` the array
behind the default entry, `cap` its capacity, `live` the blocks strdup made. `B` is
`STBDS_BUCKET_LENGTH` (8, or 4 with `STBDS_INTERNAL_SMALL_BUCKET`); `Hash` is a
constant, which stands for every seed and hash function. `table.temp` is `temp_key`.
The index's thresholds, the two loops over a bucket, the quadratic probing, the
reuse of tombstones and the rebuilding are the code's.

### Log

Configuring comes before logging, as in `main`. A thread in `log_log` takes the lock
if there is one, goes through the slots (0 is stderr) and gives the lock back;
`init_event` and the writing are two steps, so that another thread can come between.
An event's time is a pointer to localtime's static structure `tm`. `callbacks` has the
slots in use, which are the first ones: `log_log` ends its loop at the length of
`callbacks`, that is, at an empty slot or at the end of the table. That the table is not
overrun is therefore a statement about `log_add_callback` alone.

### Set and deque

`TreeSet` and `Pages` translate each C function to an operator on the tree or on the
pages; `OrderedSet` and `Deque` have an action per call and carry, beside the
structure, the set or sequence the calls should have made. Freed nodes and pages
are no longer in `alloc`, or not counted in `heap`; `live` counts the copies of each value. The order of
equal elements after `deq.h`'s quicksort is left open, as is an element read from
memory that was not written (`Wild`).

## 3. What is checked

Each passing run checks its properties together; for each property a mutation of
a definition (the operator `<definition>_<fault>` above it) shows what breaks it.

| Run | Instance | Checks |
|---|---|---|
| `lexer_closed` | files over 11 byte classes up to 3 bytes and over `i f o r _ 1` up to 4, each with and without a final newline, not ending in a look-ahead symbol | `TypeOK`, `TextStringsOwned`, `SpansOrdered`, `NoRescan`, `CutsLexemes` (implements `Tokenizer`), `Terminates` |
| `parser_arrays` | every token array over 16 types up to 4, and over 8 types of expressions up to 5 | `TypeOK`, `OwnedOnce`, `HeldOnce`, `ExpressionsSucceed`, `DepthBounded`, `FieldsWritten`, `SourceOrder`, `Terminates` |
| `parser_sentences` | about 11000 sentences: expressions and blocks of the grammar, declarations, assignments, `if` and `for` as the parser alone has them; chains of up to 4 operators that `StaysUp`, and of comparisons | `SentenceAccepted` (with all of the tree linked), `Climbs` |
| `compiler` | every file over 9 bytes up to 3 and a newline, and programs of up to two statements of every kind, also broken ones and ones with an unknown byte among or behind them | `NothingUndefined`, `NothingLost`, `PrintedInOrder`, `CleanPrefix`, `Ends` |
| `sds` | all call sequences on a string of up to 4 bytes (`sdscatrepr`, `sdsjoin` and `sdscatfmt` longer), headers for up to 1, 3, 7, 15 and more; every line of up to 5 bytes over `a`, blank and `'`, of up to 4 over `a`, blank and `\v`; every 8-bit number | `HeaderFits`, `Terminated`, `JoinRestores`, `ArgsRead`, `NumberRead`, `IsString` (implements `Strings`) |
| `hash_map` | 5 colliding keys, buckets of 4, three modes of keys, up to 4 entries with the caller's keys, up to 3 strings in an arena with blocks of 4 and 8 | `IndexMatchesEntries`, `ProbesEnd`, `KeysOwnedOnce`, `IsMap` |
| `log` | 2 threads, 2 events, 2 levels, up to 2 callbacks, one tick of the clock | `SameOrder`, `SameTime`, `Delivered`, `CallsReturn` |
| `ordered_set` | sets over 11 keys, `remove_if` and set algebra with fixed arguments | `RedBlack`, `InOrder`, `NodesOwned` |
| `deque` | pages of 2, up to 6 elements over 3 values, page arrays up to 8 | `IsSequence`, `PagesInUse` |

**Bounds.** *Lexer, parser.* The bounds are the constants of the MC modules
(`MCMaxBytes`, `MCMaxLetters`, `MCMaxTokens`, `MCMaxExpr`, `MCMaxChain` and the
finite shapes of the sentences); no guard holds one. Three bytes are enough for an
opener, a body byte and a byte that ends or fails to end the lexeme, at the end of
the file or before another lexeme; four letters spell `if` and `for`, words that
begin like them and words that end in a digit. The parser looks at most two tokens
ahead and restarts at every statement, so arrays of four and five tokens reach
every branch and early return with one or two tokens on either side. *Sds.* `MaxLen`
bounds the calls that do not loop, `SizeMax` every text; the scaled limits put every
change of header type within reach, and a long long has 8 bits, so that the
smallest one is among the numbers. *Hash map.* Five keys overflow a bucket of four,
so probing crosses buckets, the index doubles, shrinks, and is rebuilt for its
tombstones; `MaxStrings` bounds what an arena holds, since an arena never gives
back, `MaxBorrowed` the entries of a map that keeps the caller's keys, which differs from
one that has strdup copy them in nothing but the copies; `MCDefaults` sets entry -1 in
every mode but strdup's, where it would only double the states. *Log.* `MaxEvents`, `MaxTime`; two threads with one event each are all an
interleaving of two calls needs, or one thread with two. *Set.* Eleven keys make
insertion and deletion climb two levels. *Deque.* `MaxSize` is three pages, with the
marks on and off a boundary; `MaxCapacity` bounds the page array, which the code
lets grow for ever under a queue that never empties.

**Fairness.** `Lexer`, `Parser` and `Compiler` have weak fairness of `Next`, nothing
more: one thread that never waits takes its next step. `Log` has weak fairness of
each thread's step inside `log_log` and strong fairness of its taking the lock, which
is what a mutex that starves nobody gives; `CallsReturn` needs both when threads log
again and again. The other specifications state safety only: a call of theirs is one
step.

**Deadlock** is not checked where the system stops: a lexer, parser or compiler that
has returned, an sds loop that has crashed, threads that have logged all. It is checked
for the hash map, the set and the deque.

### Where the code and its documents disagree

Three are runs that TLC finds violated.

| Run | Statement | What the code does |
|---|---|---|
| `lexer_pair_at_end` | `lex.c:47`, "lex tokens from file stream" | a file that ends in `: + - * / = < > ! .` is lexed for ever: `fseek` gives back the symbol itself |
| `parser_falling_chains` | `grammar.ebnf:17`, sums of products | `a - b * c - d` is `a - ((b * c) - d)` |
| `hash_map_update` | `stb_ds.h:281` and `:266`, keys allocated and freed, entries updated | `shputs` of a key found in the second loop over its bucket writes the stale `temp_key` into the entry |

Seen while modelling, and not given runs of their own:

* `lex.c:175`: an `@`-word at the end of the file is in no token and not freed;
* `lex.c:82`, `:41`: a number's span starts a byte late, that of `for` a byte early;
* `lex.c:191`: `!=` (`grammar.ebnf:16`) is two tokens, `!!` is `COMP_NEQ`;
* `parse.c:195`: `a + b == c` is `a + (b == c)` against `grammar.ebnf:16`, where the operands
  of a comparison are sums; no property states either nesting;
* `parse.c:455`: an inner block's brace is not consumed and ends the outer one;
* `parse.c:176`: `return ;` is accepted with a value nobody wrote, `let t a ;` too;
* `parse.c:394`: the `isConst` of `x = e;` is never written, and printed (`parse.c:510`);
* `main.c:163`: of `a;?a;` the first statement is printed and the rest dropped unread, with
  an unknown byte in it: `main` looks for `T_ERR` at the end only, and without a brace
  `build_block` reads one statement;
* `parse.c:442`: a `{` that is the last token is accepted, as a block whose two fields
  nobody wrote, and `{ a ;` without a closing brace as a whole one;
* `parse.c:89`: `( a + b ;` is accepted;
* `spec.md:25` declares `let a: type = value`, the parser wants type and name without
  a colon; `parse.h:17` numbers `<=` 6 and `>=` 7, which `generate_type_from_op` gives
  to `<` and `>`;
* `sds.c:341`: `sdsIncrLen(s, 0)` fails its assertion for a type 5 header;
* `pqu.h`: the way down tests only that there is a right child, and passes a node by that has
  a left one alone; `ust.h:175`: `equal` compares two counts of the common elements and no sizes.

The passing runs stay clear of the first group on purpose and say so in their
instances or properties: `MCClosedFiles`, `TextFile`, `StaysUp` in `MCChains`, `Alike` in
`Climbs` (nothing is said of a comparison next to another operator, by the run or by the
theorem, and the chains do not mix them), the "for" in `SpansOrdered`, one level of braces
in `MCSentences`, the three pointers that `FieldsWritten` names, the `isConst` that
`SentenceAccepted` names, the three cases that `NothingUndefined` names, the tokens behind
`pos` in `CleanPrefix`, the nodes below a block, an `if` or a `for` in `NothingLost`,
`StalePuts`. Each of these says exactly how far the fault goes: a
change of the code that makes it larger or smaller is seen.

## 4. What is proved

| Theorem | Module | Says, for every value of the constants |
|---|---|---|
| `LexerTypeOK` | `LexerProofs` | the offset stays in the file, every token is well typed |
| `ClosedFilesNeverRescanned` | `LexerProofs` | if no file ends in a look-ahead symbol, no step goes back over a consumed byte |
| `TextFileStringsOwned` | `LexerProofs` | on an empty file or one that ends in a newline every string has exactly one owner |
| `ClosedFilesSpansOrdered` | `LexerProofs` | if no file ends in a look-ahead symbol, the spans of the tokens follow each other |
| `ClosedFilesCutLexemes` | `LexerProofs` | under the same condition each step of `lex()` is a step of `Tokenizer`, or none |
| `ParserTypeOK` | `ParserProofs` | the parser stays within its tokens and follows no pointer to a node that does not exist |
| `ExpressionsAlwaysSucceed` | `ParserProofs` | no function of an expression returns false to the one that awaits it |
| `RecursionIsBounded` | `ParserProofs` | five calls of C before a token is consumed, and at most 3 more per token |
| `NodesOwnedOnce` | `ParserNodeProofs` | every node but the root is pointed to exactly once, at every moment |
| `TextsHeldOnce` | `ParserNodeProofs` | every identifier and number gone past is held by exactly one node in use |
| `AcceptedFieldsWritten` | `ParserNodeProofs` | an accepted tree has unwritten pointers in three places only |
| `TextsInSourceOrder` | `ParserOrderProofs` | the finished tree, read from left to right, spells the texts gone past, each once and in the order of the file |
| `OrderInvariant` | `ParserOrderProofs` | at every moment the texts below a node fill an interval of the tokens, and the intervals of its fields follow each other |
| `RanksInvariant` | `ParserOrderProofs` | every pointer leads to a node of higher rank: there is no cycle, the root reaches every node |
| `OperatorsClimb` | `ParserOrderProofs` | where the operators of each statement stay up, and no parenthesis is gone past, they nest as their precedences ask, comparisons among themselves |
| `CompilerDefined` | `CompilerProofs` | on any file with a token, `main()` and its walks read nothing freed and free nothing twice; unwritten words are read only where the tree has one: a pointer or a type where it is not `Linked`, an `isConst` of `x = e;` |
| `PrintedFromCleanPrefix` | `CompilerProofs` | what is printed comes from the tokens gone past, among which there is no `T_ERR`; of those behind them nothing is said |
| `TextsPrintedInOrder` | `CompilerProofs` | what is printed, so far and at the end, is a selection of the texts of the file, in its order |
| `NothingIsLost` | `CompilerProofs` | when `main()` is done, a string or a node it has not freed is one the two walks do not reach by design |
| `HeadersFit` | `SdsProofs` | after any calls, the header of an sds is of the right type and tells the truth |
| `StringsTerminated` | `SdsProofs` | the text of an sds ends in its terminator, within the block |
| `SdsImplementsStrings` | `SdsProofs` | every operation on one sds implements the one on the abstract string |
| `ListsInvariant` | `SdsProofs` | what a call on many strings has returned agrees with the string, in every round of the loops that use it |
| `ListsSound` | `SdsProofs` | header and terminator are right under the calls on many strings too |
| `ListsImplementStrings` | `SdsProofs` | under those calls too the string changes as the abstract one does, or not at all |
| `NumbersRead` | `SdsProofs` | every long long of any width is written in decimal, and its buffer holds it |
| `JoinsRestore` | `SdsProofs` | for any text, separator and first size of the array: room for every piece, no piece holds the separator, `sdsjoinsds` restores the text |
| `ArgumentsRead` | `SdsProofs` | `sdssplitargs` reads back any bytes `sdscatrepr` quotes, as one argument, and finds the words of any line without quotes |
| `ProbesVisitEverySlot` | `HashMapProofs` | for any hash and size the quadratic probe visits each slot exactly once |
| `MapInvariant` | `HashMapProofs` | (\*) the inductive invariant of the hash map |
| `ProbesAlwaysEnd` | `HashMapProofs` | (\*) an index always has an empty slot, its counters count |
| `IndexMatches` | `HashMapProofs` | (\*) slots in use and entries correspond one to one, and every key is found |
| `KeysHaveOneOwner` | `HashMapProofs` | (\*) every copied key has one owner; the strings of an arena do not overlap |
| `MapImplemented` | `HashMapProofs` | (\*) after any calls every lookup gives what a map would give |
| `OneOrder` | `LogProofs` | with a lock, two events come in one order in all sinks |
| `OneTime` | `LogProofs` | with a lock, an event has one time in all the sinks it reaches |
| `EveryEventDelivered` | `LogProofs` | a returned call has reached the sinks of its level once each, and no other; the table is not overrun |
| `LockExcludes` | `LogProofs` | with a lock, one thread at a time is in the loop over the sinks |

The only assumptions on constants are `InputsAssumption` in `Lexer` and `Parser` and
`FilesAssumption` in `Compiler` (inputs are sequences of bytes, of token types),
`LogAssumption` (levels are numbers, no thread is called `NoThread`), and in `Sds`
`LimitAssumption`, `SizesAssumption` and `TextsAssumption` (each type of header holds more
than the one before it, the last one twice the longest text and what is preallocated
for it, texts are sequences of bytes), in `SdsLists` `ListsAssumption` (the array has a
first slot, lines and separators are bytes) and `LongLongAssumption` (a long long is in two's
complement, and has fewer digits than `SDS_LLSTR_SIZE` leaves beside a sign and a
terminator), and in `HashMap` `ConstantsAssumption` (hashes are
numbers, keys have a size, a bucket has 4 or 8 slots) and `ArenaAssumption` of
`StringArena` (the limits of a block are numbers). Three theorems
of the lexer have a hypothesis of their own, `ClosedFile` of every input: without it they
are false, as the run `lexer_pair_at_end` shows. `OperatorsClimb` has the hypothesis
`StaysUp` of the tokens; without it, it is false (`parser_falling_chains`). Those marked (\*) have the
hypothesis `KeysKept`: the map has no string keys, or the run leaves out the calls of
`stbds_hmput_key` that find their key in its second loop. Without it they are false, as
the run `hash_map_update` shows.

*Lexer.* `TypeOK` is not inductive: that `off - 1` is a byte of the file in `pair`
needs to be known there. `LexerInv` adds what each loop knows of the bytes between
`org` and `off` (`LoopInv`). Over it, `NoRescan` is a property of one step. For
the owners, the invariant `OwnInv` adds that every string in a token begins
before a frontier (the current lexeme), so that a new string differs from all of
them; it holds as long as the file is a text file, and the file never changes.

For the spans, `SpanInv` says that every token ends before the same frontier. For the
lexemes, `LexemeInv` says that the bytes read since `org` are those of the loop `lex()` is
in, so that the byte that ends the loop ends the lexeme `Tokenizer` would cut. That proof
did not go through at first for a reason in the model: two guards of the `CASE` in
`TokensOf` of `Tokenizer` overlapped, and which one counted was left open; they are
disjoint now. `KeptInv` is what is left of ownership on a file that is no text file:
strings may be lost, but those that tokens own are there, each is owned once, and every
identifier has one.

*Parser.* `TypeOK` alone does not say that the frame in which `new_tree` is built
holds its operand: `ParserInv` adds it (`WellFormed`: one node and a real operator
in `nth_right` and `nth_deep`, two nodes in `trail`). Each action is then shown to
write a typed node, to push typed frames and to stay in the array; sets of frames
and nodes only grow with the heap.

*Calls.* `CallsInv` says of every frame, not only of the top one, that the frame
above a place that awaits an expression is a function of an expression, and that
its depth plus what it may still add before a token is consumed (`Reserve`) is
within the bound. `StepShape` reduces the actions to three shapes (go on, call,
return) with what they do to labels and to `pos`; the induction is over these. The bound
is one of C: `build_block`, `build_block_statement`, `build_entire_expression`,
`build_atom` and `build_small_atom` are five calls before any token is consumed.

*Nodes.* Both properties say that a map is one-to-one and onto a set: from the pointers
in use to the nodes but the root, from the nodes in use to the texts gone past. Lemma
`Transfer` reduces a step to the owners it moves and the at most two it makes; that it
drops none is not a fact of the properties themselves. So `NodesInv` adds `FramesInv`,
which says of every waiting function what it has yet to write, and that those fields are
still `Wild`, and `Apart`: no function above it gets to its node. With it a memmove
(`parse.c:147`, `161`, `269`) moves every pointer of the node to its copy, and the old
contents are overwritten before anyone reads them.

*Fields.* `FilledInv` says of every pointer that nobody has written that it is one of the
three which `FieldsWritten` names, or that a function on the stack has it yet to write
(`Due`), or that the parse has failed (`Fails`). It needs `LevelInv`: the functions of a
statement have nobody above them but the loop of a block or of a `for`, which return
false when they do; the functions of an expression never fail (`ExpressionsAlwaysSucceed`).
A copy made by a `memmove` takes over the fields of a node that no function is in the
middle of.

*Order.* An order of texts in a finished tree is no invariant; `OrderInv` says that there
are two numberings `lo` and `hi` of the nodes such that the texts below a node lie in the
interval between its two numbers and the intervals of its fields follow each other. The
interval of a node whose function has not returned is open to the right, and there is at
most one such chain (`FrameOrder` places the nodes that only locals point to). An operator that is rotated
by its precedence moves a whole interval, which is why the order survives. `RanksInv`
gives each node a rank that grows along every pointer, so that a tree has no cycle
and, with `OwnedOnce`, hangs from its root. `Leaves` is a recursive function over the
nodes; what it computes is shown for the nodes of highest rank first (an induction over
how far a rank is from the highest), and for the root last. `SourceOrder` is stated as two facts: the
leaves ascend strictly, and they are the texts gone past.

*Precedence.* What makes a chain of operators nest is not in the tree alone: a call of
`build_nth_entire_expression` for the operators that bind tighter than `p` may only leave
its loop when no operator follows, since its caller does not look at the next token again.
So `ClimbInv` says of every such function on the stack what the operators up to the next
semicolon are (`Expects`: all bind tighter than `p`, or all do once one of them has) and how
tight what it has built so far binds (`Settled`), and of the innermost one that the next
operator does not bind tighter than its node (`Facing`). `StaysUp` of the tokens is what
starts `Expects` at each operator. An operator node keeps its operands because no function
has them for its node any more: that the right operand is nobody's node is a fact of
`OrderInv`, that a held operand is below no operator one of `OwnedOnce`. The proof
needed a model in which the precedence of a node is one number: the guards of the `CASE`
in `Rank` overlapped for nodes that are no operators, and are disjoint now. `StaysUp` is a
predicate on token arrays since then (it counts a prefix `*` as the operator it looks like).

*Driver.* `CompilerInv` takes the invariants of the lexer and of the parser through the
phases of `main()`, by instances of their proof modules: `lex()` leaves strings as
`KeptInv` has them, `build_block()` starts on the types of those tokens, `NodesInv` and
`ShapeInv` (the fields each type of node has) hold of the tree it leaves. For the walks,
`Walking` says that what is to be visited or freed is pairwise different and not freed
yet, and that each such node but the root has a parent which has been entered. A child of
the node entered next is therefore new: its one parent (`OneParent`, from `OwnedOnce`) was
not entered before. `NothingUndefined` keeps its three exceptions, all real: a file without
tokens, the accepted trees with pointers or types nobody wrote (`parse.c:176`, section 3),
and the `isConst` of `x = e;` (`parse.c:394`).
For `PrintedInOrder`, `PrintInv` keeps the intervals of `OrderInv` and says that what
has been printed lies before everything still to be visited, and that those follow each
other (`Follows`). For `NothingLost`, `Walking` also says that of a node which was entered
every child that the walk follows is freed or waits (`Closed`). When nothing waits, the nodes
freed are those with no block, `if` or `for` above them; the recursive function of that
property is unique because of the ranks. `StringsInv` pairs the strings still alive with
the tokens whose turn is still to come.

*Strings.* `HeaderFits` and `Terminated` are inductive only together, and with `TypeOK`:
that an append stays in the block follows from the header, that the header may grow from
the length of the text. Each call is shown to keep the three and to change the content as
`Strings` says, so the refinement is complete: `Strings` states no fairness.
`ListsSound` and `ListsImplementStrings` say the same of `LSpec`, with the calls `SdsLists`
adds: the string they split or read stays, and the copies of the pieces `sdsjoinsds` and
`sdscatrepr` append (`JoinCopies`) are appends of `Strings` one after the other.

What those calls compute is proved by induction over sets of numbers (`Induction`), with
`Recursion` for the existence of each recursive function. `NumberRead`: what is written of `v`
is what is written of `v \div 10` and one digit more, and it is read likewise (`Tens` counts
the digits). `JoinRestores`:
`SplitLemma` carries the pieces found so far, where they lie, and that the separator begins at
no place passed by, from round to round of `sdssplitlen`. The loops that append need an
invariant between calls: `Laid` says that the items not appended yet lie end to end in
the rest of the text they are to make, `Laying` that the string is what comes before.
`ArgsRead`: on a line without quotes `WordState` says which words the loop of `sdssplitargs` has
taken and where they lie (`Offsets`), that they are all of those before the byte it is at, and
that the one being read begins where the last gap ends; on a quoted text `ReadTo` says
that the items read so far give the bytes that were quoted (`ReprShape`: as it is, with a
backslash, in hexadecimal). A line is what C sees of a string, up to its first NUL;
that no item has a NUL is part of `ReadTo`. `ArgsRead` is exact about two bytes: `\v` and `\f`
are skipped between arguments, where `isspace` decides, and kept inside them.

*Hash map.* A probe goes from bucket to bucket in steps of growing length. Two of its
first `slots` places are equal only if two triangular numbers differ by a multiple of a
power of two, and then the numbers are equal (induction over the powers); so the probe
visits every slot once, whatever the hash. `Linked` and `Reached` say that slots in use
and entries correspond, and that no empty slot is on the way of a probe to a slot in use:
a tombstone keeps that true, a rebuilt index makes it true again, which is shown over the
rounds of the loop that rebuilds. `Sound` says that the counters count and stay within
their limits, whose sum is less than `slots`; so there is an empty slot, and with it an
end to each loop. `MapInv` adds the owners of the keys and the abstract map. In the arena
the unused part of the first block lies before all strings in it (`ArenaFine`), so a new
one overlaps none. The induction is over numbers, as a set with a least element
(`LeastNatural`): the provers need no operator as a parameter for that.

*Log.* None of the three properties is inductive: each depends on what the threads in
the middle of a call have written. `LogInv` adds `Held` (the lock and the loop), `Numbered`
(no two events, finished or not, have one number), `Reached` (an event is in exactly
those sinks that want it and that its thread has passed) and `Timed` (with a lock, what has
been written of an event under way is the last of its sink and has the time `tm` still
holds). So a new entry comes after every entry of another event in its sink, and after
`Timed` no other thread is between the first writing and the last; the order and the
time follow. The lock is needed for the two of them alone: `Delivered` holds without it.

## 5. What is only model-checked

* Liveness: `Terminates`, `Ends`, `CallsReturn`; fairness is out of the prover's reach.
* `CutsLexemes` has a liveness half (`lex()` cuts until the file is cut); the theorem is
  its safety half.
* `SentenceAccepted`: it speaks of the sentences of `MCParser`, a finite set; on all token
  arrays it is false (section 3). `Climbs` is false there too, and proved for those that
  satisfy `StaysUp`.
* `RECURSIVE` operators are out of reach too, and with them the trees of `TreeSet`
  (`RedBlack`, `InOrder`, `NodesOwned`) and the pages of `Pages` (`IsSequence`,
  `PagesInUse`).

## 6. Plan

1. `IsSequence` of the deque for every page width, with `Pages` rewritten over folds.
2. `pqu.h` (heap order) and `ust.h` (buckets, rehash) as further structures.

## 7. Not modelled, and why

* LLVM trials: straight-line calls into a library with constant arguments.
* `env_args.cpp`: tables for LLVM's option parser.
* `vec.h`, `lst.h`, `str.h`, `pqu.h`, `ust.h`: templates no code of kapuc calls; `que.h`
  and `stk.h` only rename what `deq.h` does.
* `sdscatvprintf`: a loop around `vsnprintf`; the formatting is the C library's.
* Hash functions, seeds and statistics of `stb_ds.h`; the unit tests in the headers.
* Sizes of integers where no instance reaches them: `pos` is an `unsigned int` and would
  wrap after 2^32 tokens.
* Failing mallocs of the compiler (the code tests none), of `stb_ds.h` and of `ctl`.
* Callbacks of the logger that log themselves, and configuration while threads log.
