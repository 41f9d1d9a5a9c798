# Verification of the C- compiler and its operating system

The repository holds a compiler for C- (`src/`, `include/`), a small operating
system written in C- (`tests/SO/PC4/SO.cm`) and a tool that lays the operating
system and the compiled programs out in one instruction memory
(`utils/relocate.c`). They meet in the FPGA processor they are compiled for,
which is not in the repository. This directory models the parts whose
correctness rests on state and order: the kernel with its context switch, the
symbol table and the semantic pass, the code of statements and expressions, the
register allocator, the calling convention, the selection and encoding of
instructions, the scanner's stack of lexemes and the ROM builder.

Paths below are relative to the repository.

## Inventory

| Component | State | Operations | What is hard | What makes it correct |
|---|---|---|---|---|
| Kernel, `tests/SO/PC4/SO.cm` | `STATE_PROCESS`, `PROCESS_QUEUE`, `PROC_PC_SALVO`, `FIRST_EXECUTION_PROC`, three counters, locals of the loops | shell, `preemp_choice`, `run_preemptive_mode`, `run_non_preemptive_mode` | timer and HALT at any user instruction; tables, counters and queue that must agree over a long session | each program keeps its own machine; queue, states and counter agree; everyone ready runs; the mode ends |
| Context-switch intrinsics, `src/assembler.c` 573-647 | registers, save area at word 467 of each partition, parameter stack at 499 | `os_save_context`, `os_restore_context`, `os_set_*` | the restore changes its own base half-way | the area restored from is the right one |
| Register allocator, `src/reg.c` | `register_list`, `total_reg`, `total_reg_in_use` | `check_registers`, `add_temp_register`, `discard_register` | 22 registers, never given back | an operand is still in its register when it is used |
| Expression code, `src/codeGen.c` 527-873 | `num_reg`, `vector_idx`, locals of recursive calls | one function per kind of node | values held across recursive generation and across calls | operands intact |
| Frames and calls, `src/memory.c`, `src/assembler.c` 216-534, 788-888 | `memory_vector` at compile time; `$fp`, `$sp`, `$ra`, `$pilha` and memory at run time | ALLOC, ARG, FUN, PARAM, CALL, RET, END, LOAD, STORE | sizes known at compile time drive pointers at run time, recursion, arguments pending across calls | variables, arguments and results are where the code looks for them |
| Statement code, `src/codeGen.c` 355-525, 875-971 | labels, `func_name` | if, while, functions, declarations, return | labels taken before and after nested ones, order of functions | a run does what the source says |
| ROM builder, `utils/relocate.c`, `include/memory_layout.h` | found files, counters of the loops, the image | scan, sort, write, fill | order of `readdir`, missing files, lengths at the limit | each program at the address the kernel jumps to |
| Instruction selection, labels and binary, `src/assembler.c`, `src/label.c`, `src/binario.c` | table of labels, `assembly_instructions` | `generate_assembly`, `add_label`, `get_label_address`, encoders | registers with a purpose shared by sequences, forward references, fields narrower than what is put into them | the processor does what the intermediate code says |
| Symbol table and semantics, `src/tab.c`, `src/semantic.c` | hash table | insert, five searches, validate | scopes and shadowing, searches before and after the table is complete | exactly the legal programs pass, and a name means the same to every pass |
| Lexer, parser, tree, `src/lexer.l`, `src/parser.y`, `src/tree.c` | `lexeme_stack`, nodes | push, pop, `add_child`, `add_sibling`, recovery from syntax errors | a text is popped before or after the next token has pushed its own; texts left behind by an error; depth of the stack; empty children | every name gets to its own node; a child is where the code generator looks for it |
| Driver and listings, `src/main.c`, `src/funcoes_assembly.c` | options | phases in order | nothing concurrent or stateful | records of instructions only |

How they interact: the parser's tree goes through the semantic pass to
`codeGen.c`, which asks `reg.c` for registers and appends to
`intermediate_code`; `assembler.c` turns that into machine instructions, keeping
frame layouts in `memory.c`; `binario.c` encodes them. `relocate.c`
concatenates the binaries. At run time the kernel's calls of `os_save_context`
and the rest are the instruction sequences of `assembler.c`, and user
programs and kernel share registers and memory through the two bases `$s0`
(data) and `$s1` (code).

`PROJECT.json` lists under `hazards` what in this code is hard to test, each
with its line and the properties that would notice it going wrong.

## Modules

| Module | Role |
|---|---|
| `Contexts` | saving and restoring a context, as one step on groups of registers |
| `Kernel` | the operating system, the intrinsics and the processor in user mode |
| `Multiprog` | abstract specification: every program has its own machine, slices come in rounds |
| `KernelProps` | invariants, the refinement mapping onto `Multiprog`, liveness |
| `KernelProofs` | TLAPS proofs: invariants, and `Kernel` implements `Multiprog` |
| `RegAlloc` | `reg.c` as actions |
| `ExprCode` | code generation for expressions over `RegAlloc`, and execution of the code |
| `ExprProofs` | TLAPS proofs |
| `Frames` | frame layout and execution of the calling convention, for arbitrary programs |
| `Activations` | abstract specification: what calls, returns and variables mean |
| `FramesProofs` | TLAPS proofs: frames and linkage; `Frames` implements `Activations` |
| `IntermediateCode` | the instructions `codeGen.c` makes, one operator for each place that makes one |
| `MemoryTable` | the table of frames of `memory.c` |
| `Assembler` | `generate_assembly`: the processor's instructions for one of the intermediate code |
| `Words` | the processor's words and arithmetic |
| `MachineCode` | labels, bit fields and the processor that executes the words; composes `Assembler`, `MemoryTable` and `Words` |
| `ThreeAddress` | abstract specification: what the intermediate code means |
| `SymbolTable` | the operations of `tab.c` |
| `Semantic` | the traversals of the semantic pass and of the code generator, over a program chosen node by node |
| `SemanticProps` | what a program means by the scope rules, and the properties |
| `SemanticProofs` | TLAPS proofs |
| `Statements` | tree, code, labels and execution of statements, beside their source |
| `StatementsProofs`, `StatementsRunProofs` | TLAPS proofs: the labels; a run follows the source; types |
| `Lexemes` | scanner and parser around the stack of lexemes |
| `LexemesProofs` | TLAPS proofs |
| `RomImage` | the ROM builder |
| `RomProofs` | TLAPS proofs |
| `MC*` and `*.cfg` | instances for TLC |

A definition marked *Variant* in a comment is a faulty form of the one that
follows it. It is no part of a specification: with the variant in place of
the definition a property fails, which shows that the property can.

### Kernel

`pc` names the point in `SO.cm` where the kernel stands, or `user`/`npm_user`
for the processor running a program. An action is the code between two points
at which the registers or a save area change: `PickProcess` (193-205),
`SaveKernel`, `SwitchFirst` or `SwitchAgain` with `RestoreProgram`, `JumpTo`,
then, after the interrupt, `SaveProgram`, `RestoreKernel`, `TimerTaken` or
`HaltTaken`, `Advance`. Non-preemptive mode shares `JumpTo` and `SaveProgram`.
Reads of the switches (`input()`) are choices from `Inputs`, one value beyond
each clamp.

Registers are grouped by how `assembler.c` saves them: 0..22 (`t`), 23 = `$s0`,
24 = `$s1`, 25 = `$k0` which is skipped, 26..31 (`hi`). `Contexts!RestoreContext`
follows the order of the loads: after register 23 the base is the new `$s0`. That the
instructions emitted do in 31 steps what `Contexts` says in one is checked by
`MachineCode` (`SwitchesAsKernel`).

What is taken from outside the repository: interrupts come in user mode only;
there are two types, 1 (timer) and 2 (HALT), as
`tests/SO/instructions/get_interr_type.cm` says; a program does not write
`$s0`, `$s1`, `$k0` (the compiler emits no such instruction for it) nor its own save
area; both bases apply to its accesses; a program stays in the code of its slot. A timer left armed when
non-preemptive mode starts is not modelled: whether HALT disarms it is not
visible in the source.

`Multiprog` says what a program may notice: nothing. Its machine (registers,
bases, program counter) is set up by `Start`, changed by `Step` only, and
untouched between `Suspend` and `Resume`; in a round every unfinished program
gets at most one slice. `KernelProps!IsolatedPrograms` maps the kernel onto it:
a program's machine is in the registers while it runs and in its save area and
`PROC_PC_SALVO` otherwise.

### Register allocator and expressions

`RegAlloc` has the array, the time stamp and the count of `reg.c`.
`check_registers(r)` is true of the register handed out. `ExprCode` executes
what `codeGen.c` emits as it emits it, since an expression is straight-line
code; the C locals `reg1`, `vector_idx` and the records kept by the recursive
functions are the stack `operands`. A value is the time stamp of its
allocation, so "the register still holds the value" is an equation. A call overwrites an arbitrary set
of registers, because no code of `assembler.c` saves any.

### Frames

`Frames` keeps both times of the calling convention together: `block` and
`parametros` are what the compiler's tables hold at the current instruction,
`fp`, `sp` and `memory` what the program does. Sizes come from
`insert_function` and `insert_variable`: parameters, six words of linkage, locals.
The layouts and the functions each function may call are a record, `program`, chosen
at the start from `Programs`; within it a program is arbitrary: it computes, reads, writes, jumps inside the function, calls and returns in any
order. `Activations` says what that means without addresses; the mapping reads
each activation's variables out of `memory` at its frame pointer.

Programs are taken to follow these rules: functions are defined before they
are called, or call themselves, and main is last; a function of type int
returns a value; indices stay in the array; the number of arguments is
right; main has no parameters and its frame fits below the save area (`ProgramsAssumption`);
the stack stays below the save area (the guard
`sp' < INIT_CONTEXT_SWITCH`, which also bounds the run: the code has no such
test); and arguments wait across a call only if its callee makes none. What
happens otherwise is a hazard in `PROJECT.json`. In the passing runs only leaf functions
declare variables in blocks, for a reason given under the disagreements below.

### Machine code

`MachineCode` takes a program in intermediate code, does what `assembly` and `binary`
do with it (`Assembly`, `Image`: an instruction at a time, with the table of frames
growing as it goes) and then executes the words: opcodes, functions, fields, numbers
of registers, offsets and addresses are the real ones, so that a field that is too narrow,
a label off by one or a register used for two things shows. Only the word is
narrower, `WORD` = 18 bits instead of 32: more than the 16 of an
immediate, which is what the code of constants distinguishes, and few enough for
TLC's integers to multiply.

`ThreeAddress` says what each instruction of the intermediate code means, on temporaries,
named variables, pending arguments and devices. `DoesWhatCodeSays` is the refinement:
the machine is looked at where the code of an instruction begins (the history
`before`; `calls` remembers the frames of the open calls), and between two such
places one step of `ThreeAddress` has happened. A variable is seen once its
declaration has been passed. Declarations, and RET and END of main, have no effect
and are skipped on both sides (`Silent`, `Place`).

A kernel program has save areas at several bases. `SwitchesAsKernel` compares each
intrinsic with the operators of `Contexts` that `Kernel` is made of, on all 32
registers, and says that no other instruction touches bases, `$k0` or a save area.
The program jumped to by `os_jump_to` is one step that overwrites every register it may.

The programs (`MCMachineCode`) are built with `IntermediateCode`, in families, each for a part of
the translation: `OneOperator` (every operator on the edges of a word, with the
result in an operand's register or not), `Constants` (around 16 bits), `TwoAccesses` (every
pair of accesses to scalars and arrays, global, of main, and of another
function's name), `IfElse`, `While`, `Devices`, `CallsWithArray`, `Recursion`
(through an array parameter, and with a result), `PendingCall` (a call while arguments
wait), `Kernel` (three slices of two programs, and non-preemptive mode).
What they leave out is a case the code translates wrongly, listed as hazard or below: a call with
arguments pending whose callee makes calls of its own; a declaration in a
block of a function other than main before a call; a name declared twice in a
function; `show_lcd(0)`; a function after main. The result of EQ on operands of different sign is left open: the
code compares their exclusive or with 1, and whether that comparison has a
sign is the processor's matter.

### Symbol table and semantic analysis

All searches skip the items of other names, so a bucket is modelled as one
chain per name, in order of insertion; a search returns a place in the chain or
0. The lines of an item are numbers of nodes.
`Semantic` chooses a program as it is traversed: functions, parameters, declarations
(in any place of a body, as blocks have no scope of their own), uses, calls with arguments,
and assignments of calls. Each node is one action with everything its visit
does: for a call all arguments, with the second visit that a complex argument
(`VisitArguments`) gives its siblings. After an error the traversal goes on, up to
`MaxErrors`. `FinishAnalysis` is the test of main and of the number of errors; then
the same nodes are passed again, with the searches that the code generator makes
of the complete table.

`SemanticProps` never looks at the table to say what a program means: `Legal` and
`Visible` are about the sequence of nodes. The scope of a function is its name in
the code, so `Names` excludes "global".

### Statements

The parser's stack is `open`, the statements begun and not complete. Beside the
tree that `add_child` and `add_sibling` make, each list keeps its `source`. The
recursion of `create_intermediate_code` is the stack `work` of lists
still to generate and instructions still to add, which may hold labels taken
earlier. Expressions are one instruction. An instruction of the intermediate
code becomes several of the assembly, all in order, so positions in the
intermediate code stand for addresses; labels are no-ops (`binario.c:224`).
In a run every condition may come out either way; `rest` is what the source has left.
`label_vector` is the set of the labels with their addresses: `get_label_address` takes
the first of a name, which is the one with the lowest address, since labels are added in
the order of the code.

### Lexemes

The scanner pushes the text of every name and number on `lexeme_stack`; the parser
pops at reductions. `symbols` is the parser's stack, with one entry for each rule that is
open, under a name that spells what has been shifted of it (`int_fun_id(params` is a function
up to a parameter); an entry's `held` are the tokens whose text is still to be popped. When a
reduction comes relative to the next token (`lookahead`) is decided by the tables bison
makes of `parser.y`: a token is read only in states that need one, and states with a
default reduction make it before they find an error. `yyerror` cuts the stack back to
a rule with `error`, `Skip` drops tokens up to the one that follows it; neither gives
back the texts of what is dropped. `wrong` collects the tokens of the tree that got the
text of another one. Operators are one token and so are relational ones; `void`, `else`, `while` and
`return`, which have no text and behave like others that are there, are left out.

### RomImage

An instruction is the file it comes from and its line. `qsort` leaves the files in any
arrangement in which none comes before the one ahead of it, as it is not stable. The table
`g_file_order` and the normalisation of names are the fields `order` and `tier`
of an entry. The builder scans, sorts, writes and fills; it fails
when a file cannot be opened, is too long, or there are too many.

## Runs

| Run | Shows | Bounds |
|---|---|---|
| `kernel` | seven invariants and the refinement | 2 simple programs + the complex one, 2 values, 2 code offsets: both modes, repeated identifiers, all interleavings |
| `kernel_liveness` | `EveryReadyRuns`, `ModeEnds` | 3 simple programs, so that "the next one" and "the first one" differ |
| `expressions` | the allocator and the operands | 3 registers, 9 allocations (three turns of the ring), 4 operands |
| `frames` | linkage, frames and arguments: an array passed by main, a leaf with a block, pending arguments; recursion | 2 programs, of 3 functions and of one that calls itself with 2 parameters; partition of 64 words: 31 below the save area |
| `semantic` | six properties of the analysis and of the searches after it | names main, f, x and a built-in, `Interchangeable` f and x; 5 nodes, 2 arguments, 6 of both together: two functions, two declarations of a name in different scopes and a use or a call |
| `statements` | code against source | 2 functions, 4 statements: a loop around an if with both branches, returns anywhere |
| `machine_code` | the words do what the intermediate code says, and the intrinsics what `Contexts` says | the families above; 18-bit words, frames up to word 60, 4 arguments, bases 0, 500 and 1000, two words from a device, two from a program |
| `lexemes` | every name gets its own text; what is left behind; what overflows | 4 places as in the code, 9 tokens, 2 syntax errors; from the start of a program and from that of a body |
| `rom` | the image | 2 simple slots of 2 words, 6 directory entries, lengths below, at and above a slot |

The bounds are enough for the cases the code distinguishes: every clamp is hit on
both sides, a queue wraps with one, two and three entries, a register is
discarded more than once, a function is called from two places and from
itself, every branch of the ROM builder is taken, constants and words lie on
both sides of 16 bits, and four indices nested fill `lexeme_stack`. `CHECK_DEADLOCK FALSE` is
set for `expressions`, which stops at its bound `MaxUses`, for `semantic` and
`rom`, which end, and for `lexemes`, where the input ends, the parser gives up or the
stack is full. `MachineCode` has no such line: HALT is a step that changes nothing.

Fairness: `FairSpec` has weak fairness of the kernel's own steps (the
processor executes the next instruction) and of the timer, which
`run_preemptive_mode` arms before every slice. Nothing is assumed of the user at the
switches nor of programs. `ModeEnds` has a premise of its own, strong fairness of
each program's HALT: a program that is run again and again finishes; without it the
mode need not end. In `Statements` the processor does not stop
(`WF_vars(Run)`); no condition is assumed ever to change, since
`JumpsLeadSomewhere` only asks that a run comes to its next statement or condition.

### Disagreements between the code and its documents

Three runs state what a comment or a test says, and TLC shows an execution
against it.

* `expressions_calls` (`OperandsSurviveCalls`): a register that holds the left
  operand is overwritten by a call in the right operand, as in
  `return n * fatorial(n - 1)` of `tests/fpga/teste_11_recursao.cm`.
* `frames_parameters` (`InOwnPartition`): the parameter stack starts at the
  partition's last word and grows upwards, so that the second pending argument is in the
  next program's partition, and what that program keeps in its first word is lost.
* `statements_empty` (`FollowsSource`): `if (c) { } else { s }` runs `s` when
  `c` holds, because the empty branch takes no place among the children.

More were met on the way and are no runs; the passing properties are
stated, or their programs chosen, so as to leave exactly these cases out.

* `codeGen.c:482` says the scope of the variable is determined, but ALLOC takes that of the
  first symbol of the name, so a global declared after a function with a local of that name
  is allocated in that function's frame. `AllocatedWhereDeclared` is what is left.
* `memory.c:339` says the stack pointer points to the last element. In a function other
  than main that declares in a block it does not before the declaration, and a
  call there loses its arguments: `StackPointerAtLast` fails when function 2 of `MCFrames!Passing`,
  which calls function 1, has a nested word as well.
* `semantic.c:196` calls a name a simple argument, but `g(z + 1, v)` with an array `v` is
  refused and `h(v, z + 1)` is not: `LegalIsAccepted` fails without its last premise,
  `ArrayAfterExpression`.
* `relocate.c:33` calls `order` a position in the tier, but with an earlier
  simple program missing the later ones move to lower slots: `SlotsInOrder` speaks of
  the rank among the programs found.
* `lexer.l:17` gives `lexeme_stack` four places, which nothing tests: `a[b[c[d[e]]]]` writes a fifth,
  and so do names left behind by repeated syntax errors. `OverflowIsNesting` and `TextsAwaited`
  say that there is no other way.
* `lexer.l:41` looks for the end of a comment a pair of characters at a time after each
  `*`: a comment that ends in `**/` goes on to the end of the next one.
* `codeGen.c:763` takes the argument of `set_interr_timer` for a number: with a variable the
  timer is set to 0. `show_lcd(0)` is translated as the form for registers. No program of the
  repository has either.
* `assembler.c:68` tests equality by comparing an exclusive or with 1, which is right for
  operands of different sign only if `slti` has none; the processor is not here to say.

## Proofs

All theorems are checked by TLAPS for every value of the constants that
satisfies the named assumptions. Every invariant used in a proof is a conjunction of
named parts, with a lemma for each action and each part that it can disturb.

* `KernelProofs`. Assumptions: `NSimple \in 1..10`, offsets inside a slot, the
  special words distinct from values. The invariants checked by TLC are not
  inductive one by one: `OneRunning` needs that queue entries are loaded programs, that
  needs the count and the queue to agree, and the context properties need to know which
  area is current at each `pc`. The inductive invariant is their conjunction with the facts
  about `pc` that tie them together; there is one step per action, and each
  theorem (`TypeCorrect`, `AddressingCorrect`, `ContextsOwned`, `ActiveCounted`,
  `OneAtATime`, `QueueCorrect`, `ChoiceEnds`) follows from it. `ChoiceEnds`
  counts: fewer than `NSimple` programs are loaded while the loop runs, so one is left.
  In the same module `Refinement` proves `Spec => IsolatedPrograms`: initial states map to
  initial states and each action of the kernel to one of `Multiprog` or to a
  stutter, using the inductive invariant.
* `ExprProofs`. `CountExact`, `ReuseIsOldest` and `OperandsKept`, for every
  number of registers. The strengthening says that time stamps in use are
  distinct and are the latest ones, so that the oldest is
  exactly `MAX_REG` behind. `ExprTyped` needs it too: a search of the full table finds
  the oldest, so the -1 of a failed search never becomes a register.
* `FramesProofs`. `FramesTyped`, `StackPointerCorrect` and `LinkageCorrect`, for any set of
  programs, any sizes and any depth of recursion. `FrameInv` adds to the three invariants what they
  need of each other: frames follow each other without a gap and `$sp` is at the end of the last
  one (`Shaped`), each frame holds its caller's frame pointer and return address where its layout says
  (`Linked`), and arguments wait across a call only while the function called makes none
  (`Waiting`). A store into a frame leaves the linkage alone because offsets stay among the
  variables. Premise: `NestedInLeaves`, functions that declare in blocks call
  none. It is no convenience: without it `StackPointerAtLast` is false (below). `MCFrames` has it
  as an assumption, so that TLC confirms it of the programs of the run.
  In the same module `FramesImplementActivations` proves `CallsAndReturns` under the same premise: each
  action does to the words of memory what `Activations` does to variables, pending
  arguments and results. The heart of it is that a frame's variables are read off
  addresses that no other frame shares.
* `RomProofs`. `RomTyped`, `SlotsCorrect`, `ProgramsApart` and `OffsetsCorrect`, for any
  directory, any order of `readdir`, any lengths and any slots. The properties speak of a finished image
  only; `RomInv` says for each phase how far the image has come: what has been
  scanned (`Scanning`), that the table is in order (`Arranged`), the slots written so
  far (`WritingSimple`, `WritingComplex`) and, at the end, `Complete`.
* `StatementsProofs`. `JumpsHaveOneLabel`, for any functions, any nesting. `LabelInv` looks at the
  `Text` of a program: the code so far and the instructions that
  the stack of work is sure to add. Over this text, which a step only extends, no label is set
  twice (`Once`), every jump has its label (`Resolved`), labels are numbered
  below `num_label` (`Numbered`), and while a list is generated the label of its function's end is
  still to come. The property itself says nothing before the program is complete.
* `StatementsRunProofs`. `RunsFollowSource`: the code of a program of any size does what its source
  says. This is the correctness of the translation of statements, in four parts.
  (1) The parser's trees match the source (`ParserInv`); trees of any depth are compared
  by a closed set of pairs (`Matches`), so no induction on trees is needed. (2) Every stack of work the
  generator has had has a *place*, the address its code starts at (`Map`); each step
  adds a place, and what it emits is what `Fits` at the old one (`CodePlaced`). (3) A stack *follows* as
  the source that is left when a run comes to its code (`Follows`); this again is a set closed under
  one step, so that a loop may lead back to itself. (4) In a run, `pc` is at a place whose
  stack follows as `rest` (`PlaceInv`), or at one of the few points between two places: an entry,
  a jump after a return, a branch after its condition, the condition of a loop. Each instruction
  executed goes from one such point to the next (`RunCases`), and addresses are
  those of the labels because of `LabelInv`. Premise: `EmptyThen = FALSE`; with `TRUE` the
  property is false (`statements_empty`), and `ParserInv` is what fails.
  In the same module `StatementsTyped`, without the premise. What is hard in it is the bound on
  `num_label`, `MaxFunctions + 2 * MaxStatements`, a sum over trees. The statements of a list are counted
  without recursion, again by a closed set of pairs (`AtMost`), those of the open ones
  and of the functions from there (`FramesAtMost`, `FunctionsAtMost`): together at most
  `statements` (`ParserCount`). While code is generated, `num_label` and what the
  stack of work can still take (`StackNeeds`) stay within the bound (`CodeTyped`). That `pc` never
  leaves the code needs that the code ends with an `END` (`Ended`) and that the address of a
  label is one of the code, which `LabelInv` (for jumps) and `CodePlaced` (for functions) give.
* `SemanticProofs`. `OnlyLegalIsAccepted`, `EveryLegalIsAccepted`, `LinesOfUses`, `SemanticTyped`,
  `CallsMeanTheSame` and `MemoryWhereDeclared`, for programs of any length, any names and any number
  of arguments. What ties the table to the nodes is `Accepted`: while there is no error, the chain of a
  name holds one item for each declaration of it, in the order of the program (`Stands`), so that
  a search finds what `Visible` says, and what was traversed is legal. `Refused` is the converse: an
  error means a broken rule or an array after an expression. That at most one local declaration of a name
  is visible needs `ScopesNest`, that a function is traversed once, from its node on;
  `LinesFit` has the lines of each item. These are the invariant of the analysis (`Analysed`).
  For the code generator `Generated` adds that `func_name` is the last function passed
  (`LastFunction`) and that each search of the complete table, where later declarations have joined
  the chains, still finds the item the analysis found (`CodeFits`). A visit of the arguments of a
  call changes errors and lines argument by argument: as the visit is a recursive function,
  whose values no step can compute, facts are carried along it by the well-order of the numbers
  (`Through`).
* `LexemesProofs`. `TextsAreOwn`, `TextsAwaited` and `OverflowIsNesting`, for inputs of any length
  with any number of errors. The three speak of states without a token read ahead, where nothing is
  left of what makes the stack hard: a rule may pop after the next token has pushed.
  `LexInv` speaks of all states. The stack of the parser is `Proper`: which rules are open within
  which, how many texts each awaits, where each began; so outside expressions nothing is awaited but by
  the innermost rule (`NoneBelow`). `lexeme_stack` is what errors left, then the texts awaited, then
  that of the token read (`Matched`). There is one exception (`Astray`): a rule that popped with a
  name or a number read has taken that token's text for its own. Then its new form takes no such token
  (`AfterShift`), so that an error follows, and the error is recovered no later than
  where the rule began, so that its tokens go (`Recovered`). Awaited texts are those of each rule, one
  after the other, by `FlattenSeq`, whose recursive function is unrolled with `Joins`; `AwaitedFront`
  and `AwaitedAppend` are what the proof uses of it. For `OverflowIsNesting` they are counted
  (`FewAwaited`), with the premise `LEXEMES # 2`: `int a[5 x` puts three texts on the stack, which
  would fill two places without an index; the code has four.

Only model-checked:

* the liveness properties and fairness (`EveryReadyRuns`, `ModeEnds`, `JumpsLeadSomewhere`): out of the
  prover's reach;
* `MachineCode`, whose words are computed with the `Bitwise` module, which no theorem may
  rest on.

## Not modelled

* The driver (options, files, a fixed sequence of phases) and the listings of
  `funcoes_assembly.c`, `binario.c`, `tab.c` and `tree.c`: printing.
* The tables bison and flex generate; comments and the truncation of long names.
* The limit `MAX_INSTRUCTION` on the intermediate code: ten thousand instructions.
* The refusal of intrinsics with the wrong number of arguments, which ends the compiler.
* What nothing calls: the variable cache of `reg.c`, `clamp_prog_num` and `get_quantum_time`
  of `SO.cm`, `remove_symbol` and `create_node` of the compiler.
* What only the processor knows: timing, whether HALT disarms the timer, what is kept at
  `os_save_return` (`MachineCode` records that it was told).

## Plan

1. Done: `Kernel` with its abstraction and proofs, `RegAlloc` and `ExprCode`
   with proofs, `Frames` with `Activations`, `SymbolTable` and `Semantic`,
   `Statements`, `RomImage`, `Lexemes`; `IntermediateCode`, `Assembler`, `MemoryTable`
   and `Words`, composed in `MachineCode` under `ThreeAddress`; `Contexts`, shared by `Kernel` and
   `MachineCode`.
2. Done: proofs of `Kernel`, `ExprCode`, `Frames`, `RomImage`, `Statements`,
   `Semantic` and `Lexemes`.
3. The limit `MAX_INSTRUCTION`, with a capacity as a constant.
