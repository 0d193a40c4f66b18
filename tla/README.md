# Verification of vm_test: the machine, its programs and its compiler

vm_test is a compiler for a small Go-like language (`src/compiler`) and the
virtual machine its programs run on (`src/vm`), both in C, with the
instruction set and the tables they share in `src/shared`.  This directory
holds TLA+ models of it, the TLC runs that check them on small instances and
the TLAPS proofs of what holds for every instance.

## The system

| component | source | state | operations |
|---|---|---|---|
| instruction set, shared tables | `shared/vm_cmd_list.h`, `vm_config.h`, `parser_func_tokens.h` | none | opcodes, sizes, pointer tags, built-in functions and their parameters |
| virtual machine | `vm/vm_exe.c` | `mem_heap`, `sp`, `hp`, `ip`, `vars_base`, `recurs_cnt`, `by_step`, `line_num` | one handler per instruction, the check of the stack, the dumps |
| fixed-point arithmetic | `shared/fptc.h` (third-party) | none | 24.8 multiplication, division, conversion |
| loader and screen | `vm/main.c` | arrays read from the `.sb` file, curses windows | reads the image, calls `Run` |
| line reader | `compiler/parser.c` | the word being read, the statement machine's step | feeds characters, stops at errors |
| statement machine | `compiler/parser_gen.c` | the stack of open blocks, the current routine | declarations, assignments, IF / ELSE / WHILE / BREAK / GOTO, FUNC / RETURN, PRINT |
| registries | `compiler/parser_reg.c` | labels, variables, routines, constants, heap offsets and maxima | register, look up, forget at the end of a block |
| expression compiler | `compiler/parse_exp.c`, `vm_funcs.c` | the operand being built (constant or code) | precedence levels, folding, calls of functions |
| code generator | `compiler/vm_code.c` | code of the routines and of the main part | append instructions, note unresolved jumps |
| linker | `compiler/main.c` | the patched image | patch jumps, place routines before the main part, write the `.sb` file |
| growing array | `shared/vector.c` | capacity, elements | grow in chunks of 100 |

They interact in two places.  The compiler calls its parts one inside the
other for every character of the source; they share `parse_result_t`.  The
machine and the compiler never run together: the image is all that passes
between them, and the machine trusts everything in it.  What is hard is
therefore not concurrency (there is none, but for the user at the keyboard) but
long sequences of legal steps: calls, declarations, stores and returns that
share one array with no checks but one comparison after each instruction;
branches that must leave the operand stack level; blocks whose variables give
their place to the next block; jumps that are resolved much later.

What makes each component correct:

- machine: a return restores exactly what the call saved; operand pushes and
  pops stay in the array and its pads; a program on too small a stack is
  stopped before it shows anything wrong; every program comes to a verdict;
- statement machine and registries: variables that live together have disjoint
  places below the heap maximum, every jump lands on an instruction of its
  block, blocks close in order;
- expression compiler: the code leaves one number more on the stack and it is
  the value of the expression, folded or not;
- linker: every jump, call and entry is counted from the same place;
- all together: line by line, the machine does what the source says.

## Modules

| module | what it is |
|---|---|
| `VmCmd` | the instruction set, the pointer tags and the built-in functions, as the compiler and the machine share them |
| `VmExe` | the machine: `Run`, one action per instruction (or family of instructions with one shape) |
| `CallStack` | what calls and returns promise, without a machine |
| `VmCalls` | the machine with the history of its calls, the refinement of `CallStack` and the invariant behind it |
| `VmPrograms` | programs as the compiler writes them, with what they should show |
| `Blocks` | the compiler's statements, registries and code, one line of source at a time |
| `Linker` | `Blocks`, the end of the source, the image |
| `Outline` | blocks, scopes, routines and variables of a source, read off its lines by counting braces |
| `Nesting` | what an image must have to do with the outline of its source |
| `Scopes` | what the registry of variables promises, without names, blocks or code |
| `Expr` | the expression compiler, from tokens to code |
| `SourceRuns` | what a source does when it runs, one step a line, said of the source alone |
| `Toolchain` | compiler, loader and machine in one specification, with the history that relates them to `SourceRuns` |
| `MCNesting`, `MCExpr`, `MCToolchain` | instances of the compiler's modules for TLC |
| `MCVmCompiled`, `MCVmSequences`, `MCVmEnds`, `MCVmDocs` | instances of the machine for TLC |
| `VmCalls_proofs`, `Scopes_proofs` | the theorems about the machine, its calls and `Scopes` |
| `Blocks_proofs`, `Statements_proofs`, `Lines_proofs` | what each function of the compiler, and each line of a source, does to the compiler's record |
| `Places_proofs`, `Nesting_proofs` | what the registry of variables shows to `Scopes` and where the labels of open blocks stand; the theorems about the compiler |
| `Image_proofs` | what each line writes to the code, the chart of all lines, and the theorem about the image |

`Linker` extends `Blocks`, `Nesting` extends `Linker` and takes `Outline` and
`Scopes` by INSTANCE, `Toolchain` extends `Nesting` and takes `VmExe` and
`SourceRuns` by INSTANCE; `MCExpr` extends `Expr` and `VmExe`.  `Expr` is apart
from `Blocks`: its operators are recursive, and what statements need of an
expression is whether it is folded, what it pushes, and its error.

### VmExe: state and actions

`mem`, `sp`, `hp`, `ip`, `vars_base`, `recurs_cnt`, `by_step` and `line_num` are
the variables of the same names in `vm_exe.c`; `running` and `ret` are the loop
of `Run` and its result; `out` is what the program did to screen and ports.
`prog`, `print_stat` and `junk` do not change: the program, the `-s` switch,
and the byte that uninitialised memory holds.  They are variables so that one
run checks a set of programs.

Every action is one whole turn of the loop of `Run`: `Decode` is the loop's
condition, the question to the user while `by_step` is set, and the fetch;
then the handler; then `EndOfCycle`, which is the check `hp >= sp || sp >=
stack_size` (it has the last word on the result), the clamps that `dump_stack`
and `dump_vars` apply to `sp` and `hp` when they run, and the advance of `ip`.

Choices made in translating:

- A program is a function from offsets to decoded instructions.  A fetch from
  the middle of an instruction is not decoded but ends the model with
  `wild_fetch`; so does a write outside `heap[]` (the array and both its pads)
  with `wild_write`.  After either, C promises nothing.
- The pads and the array are bytes: numbers, addresses and pointers are spelled
  as the code spells them, byte order included, because the linkage of calls,
  inline pointers and partial copies depend on it.
- Uninitialised memory holds the constant byte `junk`, one of `Junk`; so does a
  read outside the array.
- A handler's reads come before its writes.  In C they alternate byte by byte,
  which differs only when the source and the target of one instruction overlap.
- Opcodes above the last listed one are as those that are listed and have no
  handler: `UnknownInstr`.
- `RAND`, `INKEY`, `IN` and the screen's size return any value of a small set.
- The text of a number, the escapes in strings, the cursor's place and the
  windows are left out; an event of `out` holds the values shown.
- Arithmetic is over the integers and is cut to 32 bits when the result is
  pushed (`NumBytes`), as the C operations on `fpt` and `fptd` are.

### VmCalls

`frames` records what each call saved, `levels` where `sp` stood at the first
statement of each activation, and `sound` whether the program has kept three
rules: a store does not change the linkage bytes of a running call, a
declaration does not put `hp` below the activation's base, and what a call saves
fits in 16 bits.  The machine does not check these rules; the compiler's
programs keep them (`CompiledKeepRules`), and `ImplementsCallStack` says what
the machine owes a program that does.

### Blocks, Linker

`result` is `parse_result_t`, a record that every operator takes and returns, as
every C function gets `result`: the stack of open blocks (`block_vect`), labels
with the places that jump to them, live variables with their offsets, routines,
the heap registers and what was set aside of them, and the code of the routines
(`obj[TRUE]`) and of the main part (`obj[FALSE]`).  `source` is the input: a
sequence of lines, chosen line by line from one of the `Families` (kinds of
statements, names and expressions that may stand together, and how many lines).
What counts down a list (parameters, the parts of PRINT, the variables of a block
that closes) is a recursive function, as the C loop counts, so that the proofs can follow it.
There is one action per kind of line, and each is the whole of `ParseLine` for
it, the `DBG` at its beginning included; the first error ends the source.
`Linker` adds `image`, which `EndOfFile` makes as `main.c` does.

Choices made in translating:

- A line is a statement, not characters.  The expressions are those the
  statements tell apart: a number (folded), a call of `INKEY` (not folded), an
  array of bytes, an array of numbers, a variable, a call of a routine without
  parameters.
- Pointers into vectors are indices.  The pointers that open blocks keep to
  their labels also carry the number of chunks the vector had (`Pnt`): when
  `realloc` has moved the vector since (`Dangling`), what is done through them is
  done to freed memory and the compilation is `lost`.
- What `IF` reads when no block is open (`parser_gen.c:604`) is memory: a crash
  when no block was ever opened, and either answer (`junk`) after that.
- An opcode whose operand is not written is an instruction one byte long.  A
  patch that falls on no jump is noted in `image.stray`.
- A second `FUNC` of a routine reads its name as a parameter, as the code does;
  it is left out where one of the parameters is no longer a variable.

The two modules were compared with the compiler itself on about 1,360 random
sources of up to 18 lines: they accept the same lines and give the same bytes.

### Outline, Nesting, Scopes

The properties are not stated over the compiler's stacks but over a second
reading of `source`: `Level` counts braces, `EndLine` and `Opener` match them,
`Routine` and `Loops` say where a line is, `JumpsMeant` where its jumps should
lead and `Need` how much heap lives at the worst line.  `DBG` instructions tie
the image to the lines.  `Complete` is the premise: an image was written, the
braces are in order and closed (`Orderly` names what the compiler's grammar
excludes), labels in use are defined once in the routine that jumps to them, no
condition has more branches than `LINKS_BY_LABEL_MAX`, and an array without a
size has an array on its right side.  Each exclusion is a place where the
compiler accepts what it does not compile rightly; the findings below are these.

`Scopes` has two areas, the main part's and the running routine's, with the
places of the variables that live in each, one behind the other.  A declaration
adds a place, a closing block takes some of the last ones, a routine begins with
its parameters in an empty area and ends with it.  `ImplementsScopes` maps
`vars_vect`, `heap_pnt`, `heap_memory_max` and their `_back` copies to it: every line
of an orderly source is one of these steps or changes none of it.

### Expr

A line is a sequence of tokens; a number, a character and a declared constant
are one token each, and so is a name with its variable or function.  The parser
state is the line that is left, the code so far, the error, `enable_code_gen` and
the `expr_info_t` of the moment.  `register_expr`, `expPartParse`, `ParseFunc` and
`parse_func_params` call each other as the functions of `parse_exp.c` and
`vm_funcs.c` do, so operators apply from left to right, and the compiler first
tries to compute the whole expression (`calc_comptime`) and goes back to compile
it when it cannot.

- The type of a fresh `expr_info_t` is not initialised: it is one of
  `UnsetTypes`, the same for a whole line.
- Dividing by a constant zero ends the compiler (`SIGFPE`).
- Values are small, so that nothing is cut to 32 bits before it is pushed.

Expr was compared with the compiler on about 2,200 random lines: the same ones
are accepted and give the same bytes.

### SourceRuns, Toolchain

A state of `SourceRuns` is the line each activation is at, with the values of the
variables that live there, and what was printed.  A step is a line: it goes
where the braces, the jumps, the calls and the returns of the source lead, and
stores at most into the variable the line names; every other variable of every
activation keeps its value.  Nothing is said of a variable declared without
a value, nor of the result of a routine that ends without `RETURN`.

`Toolchain` lets `Linker` compile a source, loads the image as `vm/main.c` does and
runs it on `VmExe`.  Whenever the machine is about to execute a `DBG` or the `END`,
`Note` puts into the history variable `run` the line each activation is at and what memory holds
at the places of the variables that live there.  `ImplementsSource` says that this history is
a behaviour of `SourceRuns`.  It is checked of whole sources (`Complete`) that do
not jump into the scope of a variable (`NoJumpIntoScope`), and that have no call
in a condition or a printed part, no variable declared from itself, and no
comment behind a brace (`PlainLine`).  The first and the last of these are sources
the compiler accepts and compiles wrongly; the others are what `SourceRuns` says
nothing of.

## Runs

| run | instance | what it shows |
|---|---|---|
| `vm_compiled` | nine compiled programs (recursion, loops, strings, arrays, pointers, blocks), ten stack sizes each, two kinds of junk, with and without `-s` | the programs keep the rules; what is shown is a beginning of the right output and all of it at `ec_end`; every statement leaves the stack level; calls and returns are `CallStack`'s |
| `vm_sequences` | 36 x 36 x 2 routines of two instructions and a return, called from a short main part; stack of 28 bytes | types; `LinkInv`; `CallStack`; nothing but stores, PRINT and two-operand instructions on an empty stack writes outside the array |
| `vm_ends` | compiled and broken programs | each comes to its verdict |
| `vm_curs`, `vm_assign` | one program each | two places where the machine does not do what the repository says (below) |
| `source` | every source of 7 lines of IF, WHILE, BREAK and braces with ELSE and ELSE IF; of 5 lines of 2 labels, GOTO, WHILE, 2 routines, calls, RETURN, assignments; of 4 lines with BRKPNT and STOP in a routine; of 6 lines of declarations (2 names, numbers and arrays), blocks and a routine; a label takes 2 jumps (110,902 states) | references in the compiler's vectors are sound; orderly sources compile; every jump leads where the braces and labels say; routines stay whole and calls lead to the routine they name; variables that live together are disjoint; the image asks for exactly the heap needed; the registry implements `Scopes` |
| `expr` | some 1,600 expressions of up to three operators, with brackets on either side and signs in the middle, as a statement and as an argument; every built-in function but CURS; every line of up to four of nine tokens that is accepted and that `Careful` does not leave out; with both readings of the uninitialised type (68,227 states) | a well-formed expression is accepted and the machine computes its value from the code, unless a part of it is folded too late; the code of those lines leaves one number, whatever the line is; each function pops what was pushed for it |
| `toolchain` | every source of eight families of 4 to 6 lines: routines with parameters and results, recursion, branches, loops, jumps, PRINT (158,736 states) | compiled, loaded and run, it does line by line what the source says; no line leaves anything on the stack; it ends at its end or because its calls go too deep |
| `source_comments`, `source_auto`, `source_grown`, `expr_folding` | short sources, but 53 lines for `source_grown` | four places where the compiler does not do what the repository says (below) |

Bounds of the compiler's runs.  Seven lines are enough for an IF with an ELSE IF
and an ELSE in a loop, or a loop in a branch in a loop; six for a declaration
before, in and after a nested block; five for two routines and a call.  With
`LINKS_BY_LABEL_MAX` 2 (20 in the source) a second BREAK of a loop reaches the
limit.  `VECTOR_STEP_SIZE` is the source's 100: only `source_grown` has as many
labels.  Variables, labels and routines are symmetric.  A source may stop at any
line, so deadlock is not checked there.  A source whose braces are out of order
stays so: it is not extended beyond four lines.

`expr` takes leaves of every kind (numbers, variables, elements with a known and
an unknown index, a function) under each operator, and two kinds of leaf and
three operators at the second level, where the order of evaluation and the
switch from computing to compiling are decided.  `GoesOn` and `Bare` are for a
right part that does not end the expression: in `a-(b-c)-d` the last operator takes
all before it, in `a - -b-c` the right part that begins with a sign takes the rest
(`parse_exp.c:293`).  The lines of four tokens are
for what the grammar does not describe.  `Careful` leaves out those the compiler
accepts and compiles wrongly: an empty bracket, an index behind what is no array,
two constants next to each other, and a signed index; `AcceptedBalances` fails on
them, and says nothing of them.  Parameters that are pointers
are given arrays: the compiler also takes a number's variable, of which it pushes four
bytes where the function pops three.

In `toolchain` the families keep sources small: each has the statements whose
interplay it is about.  `StackSizeMin` is 48, so that a recursive routine fills
the stack after a few calls; a key is 0 or 1, for a condition that fails or
holds; at most `OutMax` (2) lines are printed; PRINT has two parts, which is also
the limit (`FUNC_MAX_PARAMS`, 5 in the source).

Bounds of the machine's runs.  `StackSizeMin` is 2 or 28 where the source has 200, so that small
programs reach the limit of the stack; the rule that computes the size from
`heap_min_size` is the source's.  The spare bytes of `vm_compiled` (0 to 40)
take each program from a stack its first call overflows to one it never fills.
In `vm_sequences` a wrong program may print for ever, or drop its variables at
every call and recurse for ever: states with more than 2 events or 4 open
calls are not extended.  Four calls are deeper than the array has room for
unless a program lowers `hp`.

Fairness.  `vm_ends` assumes weak fairness of `Step`: the loop of `Run` never
waits except for a key at a break point or in `INKEY`, and the user presses one.

### Where code and documentation differ

- `CURS` (`vm_curs`): the compiler takes one parameter, the machine pops two,
  README.md documents two; every program that calls it underflows its stack;
- assignment of a byte array to an array of numbers (`vm_assign`): the two high
  bytes of the last element keep their old values, so that -1 overwritten with 2
  is -254;
- a comment behind the brace of a branch (`source_comments`): counts as an ELSE;
  the condition stays open and every later brace closes the wrong block.
- `var x[]=5` (`source_auto`): the array gets no place; the instruction behind the
  number copies to an array at offset 0, whatever is there, from a pointer it pops
  where the number was pushed; closing the block gives back a byte too many;
- the 101st label (`source_grown`): the vector of labels moves, and the loops still open
  place theirs in freed memory;
- `putn(2-3)` (`expr_folding`): both constants are pushed before they are folded; 3 is
  printed and 2 stays on the stack.

Also met: `PUTI` shows the integer part divided by 256; `IF` as the first block of a
source crashes the compiler (`parser_gen.c:604`), and so does `a=1/0`; `a=()` is
accepted and pushes nothing; PRINT drops the types of the parts after the fifth
and leaves them on the stack; a label defined twice is reported and the image is
written all the same (`parser.c:68`); a condition with more branches than
`LINKS_BY_LABEL_MAX` compiles to a jump without an operand, because the error is
overwritten (`parser_gen.c:564`); element access to arrays of numbers compiles but
has no handler (`vm_ends` has the program, with verdict `ec_inval_code`);
`src/snake_game.ss` no longer compiles.

## Proofs

The machine's theorems hold for every set of programs, `STACK_SIZE_MIN`, content of
uninitialised memory and behaviour of keyboard and screen that `VmAssumption`
allows: the programs are well-typed images, whatever their instructions do, and
`STACK_SIZE_MIN` is at least 2.  The compiler's hold for every source of any number of
lines from any families, every limit (`LINKS_BY_LABEL_MAX`, `VECTOR_STEP_SIZE`,
`FUNC_MAX_PARAMS`), size of arrays and behaviour of `realloc` that `BlocksAssumption`
allows.

### The machine

`VmCalls_proofs` proves `TypeCorrect`, `Spec => []TypeOK`: the array keeps its
extent, its cells hold bytes, and a machine whose loop goes on has met no error.
The argument is one lemma per family of actions over two facts: a write of
bytes gives a memory of bytes (`WriteMem`), and the end of the cycle keeps a
memory only when its extent is the array's (`CycleTypes`).

It proves `LinksHold`, `CSpec => []LinkInv`, and
`MachineImplementsCallStack`, `CSpec => ImplementsCallStack`.  That the bytes of
each linkage spell its caller's registers (`LinkBytes`) is not inductive by
itself: a call writes at `hp` and a return reads below `vars_base`, so one must
know that `hp` and `vars_base` lie above every linkage, and a return to an outer
activation needs the same of that activation.  `IInv` is therefore `TypeOK`, the
type of the history and `LinkInv`, which joins to `LinkBytes` where the running
activation lies (`Registers`) and that the callers' activations lie one above the
other (`Nesting`).  The steps are of three kinds:

- `StepWork`: an instruction that is neither a call nor a return leaves the
  activation alone; unless it stores through an operand it changes no byte up to
  `hp` (`Keeps`), because what it pushes lies above an `sp` that the check at
  the end of the cycle found above `hp` - the check comes after the write, and
  `EndFacts` is what it is still good for.  For the instructions that do store,
  the first rule of `sound` takes the place of that fact (`WorkLink`);
- `CallFacts`, `CallLink`: a call writes the four bytes of the new linkage at
  `hp`, above all others, and 16 bits are enough for them by the third rule;
- `ReturnFacts`, `ReturnLink`: the result's slot and the pushed result lie above
  the linkage, which is read back by `AddrRoundTrip`.

A step that is not sound or after which the machine has stopped owes nothing
(`DeadEnds`, `RefinesNext`).

`PadsHold`, `CSpec => PadsSuffice`, uses the same invariant for the writes
themselves: from `0 <= hp < sp < StackSize` every push, call and return stays
inside the array and its pads (`Inside`, `PushInside`), one action at a time.

### The compiler

`Scopes_proofs` proves that the registry's promise is kept for any number of
declarations, blocks and routines: `LivePlacesApart`, `Spec => []PlacesApart`, and
`LivePlacesCovered`, `Spec => []PlacesCovered`.  That places are apart is not
inductive: the next place begins at `pnt`, which must be known to lie behind all
the others.  `IInv` says that each area is laid out without gaps from 0 to `pnt`
and within `most` (`AreaInv`, `Laid`).  `LaidAppend` and `LaidPrefix` are the facts about sequences behind a
declaration and behind a block that closes; a prefix of a layout without gaps ends where the
first place that goes began, which is why a block can hand back the bytes of its
variables and nothing else.

`Nesting_proofs` proves that the compiler keeps that promise, and three results besides.

`CompilerTyped`, `LSpec => []TypeOK`: for every source, the rejected ones included.  `TypeOK`
is not inductive: a jump that `Linker` patches lies in the code because the label
that notes it was given a place before code that only grows, and a label is
reached from the block that holds it.  `Sound` says it of the record: its
form (`Result`), and that the blocks' labels and routines (`BlockRefs`), the labels' patch places
(`LabelRefs`), the instructions' places (`CodeRefs`) and the area being compiled
(`RoutineRefs`) refer to what exists.  The lemmas follow the code: one per function of
`vm_code.c` and `parser_reg.c` in `Blocks_proofs`, of `parser_gen.c` in
`Statements_proofs`, one per kind of line in `Lines_proofs` (`StatementSound`).

`CompilerImplementsScopes`, `LSpec /\ []SizesGiven => ImplementsScopes`: each line of a source in
order is a step of `Scopes` or leaves the registry as it was.  `SizesGiven` excludes a
declaration with empty brackets and a right side that is no array: there the step is not one of `Scopes`
(the finding of `source_auto`).  `CompilerPlacesApart` carries the result of
`Scopes_proofs` over to the compiler: for such a source, at every line, variables that live together have disjoint
places below the maximum the compiler keeps.

A brace gives back the variables of the block on top of the compiler's stack.  That this
is the block the source closes is what has to be known, and it takes an invariant that relates the
stack to the source, `LayoutInv`.  Besides `Sound` it says:

- `OutlineInv`: of the source alone, each level that is open has a line that opened it
  (`Level` is a fold over the lines; what is used of it is that one line more
  adds what that line counts, `LevelGrows`);
- `Placed`, for a source in order that the compiler took so far: the stack
  holds one block for each open level of the source, from the line that opened it last
  (`Tops`), of the kind that line opens, with the block of the condition below that of a branch
  (`Orders`, `Turns`); and seen through `ImplementsScopes` each area is laid out from 0 to its register, and each
  variable lies in a block that is open (`LaidOut`, `VarsIn`).

The lemma `...Obeys` of each kind of line says what the line does to both; `OneLineMore` says
which lines may follow in order, and `LayoutStep` puts them together.  With `Placed`, a line's
effect on the areas (`Places_proofs`) is a declaration, a block that closes, a routine that begins
or ends, or nothing: `ScopeStepImplements`.  Counting loops are followed by induction over
the naturals stated for sets (`Induction`, `UpTo`), from the library's least elements,
because the library's induction takes an operator.

`OrderlyAccepted`, `LSpec => [](SizesGiven /\ FewLabels(result) => OrderAccepted)`: braces in order
are accepted.  BLOCK_END gives the label of the block's end its place, and
refuses when that label already has one, belongs to another routine, or cannot be reached through
the pointer the block holds; IF asks whether the condition's branch before it has such a label.  So
the lines in between must have left it as it was, and `AcceptInv` adds to `LayoutInv`:

- `LabelsWait`: in the open blocks, each branch and each loop has the label of its end, each such label
  waits (`Waits`: it is nameless, without a place, of the routine being compiled), and no two blocks
  share one (`LabelsIn`).  A closing brace gives its place to one label, and a named
  label is none of them; that they are all different is what the others need to go on waiting (`LabelsOn`);
- the pointers to these labels were taken when the label was the last one (`Points`), so that within the first
  chunk of the vector none of them dangles (`OneChunk`, `NotDangling`).

`...Carries` and `...Holds` (`Places_proofs`) follow the functions, `...Retains` the kinds of lines,
beside `...Obeys`.  Two hypotheses bound the theorem, and both are where the code does otherwise: `SizesGiven` as
above, and `FewLabels` - the vector of labels holds at most `VECTOR_STEP_SIZE` labels, or `realloc` extends it in
place.  With more labels and a vector that moves, a loop's brace writes through a pointer into
freed memory (the finding of `source_grown`).

`Image_proofs` proves `RoutinesStayWhole`, `LSpec => [](SizesGiven /\ CodeFits => RoutinesWhole)`: in a
complete image each line's code is in the routine the source has the line in, and each call
leads to the routine it names.  The property reads the image alone - the marks of lines (DBG), the RETs, the
targets of calls - and the source's text; that it holds must be known of the compiler's
two parts of the code while they are written, line by line.  The invariant `ImageInv` adds to `LayoutInv`:

- `Charted`: there is a chart of what was compiled so far (`Chart`).  It says where in the routines' part
  each routine begins (`start`), which routine each line is in (`home`), where the line's mark is
  (`at`) and which FUNC each routine is (`fun`).  Routines begin one behind the other, each RET is the last
  instruction of one routine that is done and of nothing else (`Bounds`, `ReturnsAt`); each line has its one mark, in the
  part of its routine and inside it (`Located`, `Marked`, `Within`); each call is behind its line's mark and before the next line's
  of its part (`Called`); the routines are the FUNCs in order (`Rolls`), and the routine of a
  line is the one the braces of the source say (`Rooms`);
- the image, once written, is `Image` of a result without errors, with END behind the main part.

The lemmas are in the order of the code.  First, what each function writes: every function of the code generator
adds, to the current part only, operations that are neither a mark nor a RET (`Writes`, one lemma
`...Writes` per function), but for the line's mark and the end of a routine (`Finishes`).  So each
kind of line does one of four things: writes behind its mark, writes as a label without one, ends its routine or enters
a new one (`...Records`, `StatementRecords`, `Reports`).  Each of the four extends the chart (`ChartGrows`).  The routine
of a line is a matter of braces, and that the compiler is in a routine exactly when a FUNC's brace is open is taken from
`LayoutInv`, which is why `SizesGiven` is among the hypotheses.  Then the image: patching jumps moves no instruction
(`PatchedCopies`), the routines' part is copied before the main part (`ImageCopies`), and a rising sequence has its m-th
value at rank m (`RankRising`), which is how the m-th RET is routine m's.  `CodeFits` says that the code is shorter than 65536
bytes: the header keeps its sizes in 16 bits, and a longer program's entry point is not where its main part is.

TLC checked each of these invariants but the last on the instance of the run `source` before it was proved, that of
the labels with `VECTOR_STEP_SIZE = 2` too, where the vector moves and `OrderAccepted` without `FewLabels` fails.

### Only model-checked

`ReachesVerdict` (liveness is beyond the prover); what given
programs do (`CompiledKeepRules`, `RightOrStopped`, `StatementBalance`,
`EndsEmpty`); what the image does (`JumpsLand`, `PlacesDisjoint`, `HeapExact`: they
read jumps, places and sizes off the operands of the image, of which the proved
invariant says only what a mark and a call hold);
`ImplementsSource`, `LinesBalance`, `EndsWell`; expressions (`Expr` has recursive operators, which the
prover does not take, and what they compute is an induction over the expression).

## Not modelled

- Of the compiler's statements: CHAR, strings, CONST, stores to elements and through
  pointers, pointers as parameters of a routine, the templates by which a statement is matched
  character by character.
- Reading characters and words, finding names, the listing, the bytes of the
  constant block (its size is).
- Pointers to routines and variables across a growth of their vectors, and an
  allocation that fails.
- `vm/main.c` but for reading the image and calling `Run`: curses, the switch, a file
  that is too short.
- The part of `fptc.h` that neither program uses, formatting and logging.

## Plan

Done: the machine with its proofs, `Blocks`, `Linker`, `Nesting`, `Expr`,
`Toolchain`, `Scopes`; the proofs that the compiler is sound, implements `Scopes`, accepts
braces in order and keeps routines whole.

1. Proofs: what else the image holds, from the chart: jumps (`JumpsLand`), places (`PlacesDisjoint`).
2. `Blocks`: stores to elements, pointers as parameters, CONST and CHAR; then
   arrays in the families of `Toolchain`.
