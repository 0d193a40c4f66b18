------------------------------ MODULE Toolchain ------------------------------
(***************************************************************************)
(* Compiler and machine together: a source is compiled line by line, its   *)
(* image is written, loaded (vm/main.c) and run.  The history variables    *)
(* note, whenever the machine is about to begin a line, at which lines of  *)
(* the source the activations are and what the variables there hold, so    *)
(* that the machine can be compared with what SourceRuns says the source   *)
(* means.                                                                  *)
(***************************************************************************)
EXTENDS Nesting

CONSTANTS StackSizeMin, Junk, KeyCodes   \* as in VmExe

VARIABLES
  prog, print_stat, junk, mem, sp, hp, ip, vars_base, recurs_cnt, by_step, line_num, out,
  running, ret,   \* the machine's
  bases,          \* vars_base of each activation
  run             \* the lines the activations are at, and what was printed

M == INSTANCE VmExe WITH Programs <- {}, ScreenValues <- {}
S == INSTANCE SourceRuns WITH One <- FptOne, KeyValues <- {M!i2fpt(k) : k \in KeyCodes}

machine == <<prog, print_stat, junk, mem, sp, hp, ip, vars_base, recurs_cnt, by_step,
             line_num, out, running, ret>>
history == <<bases, run>>
tvars   == <<lvars, machine, history>>

NoProgram == [size |-> 0]

-----------------------------------------------------------------------------
(* The .sb file, read back: the machine's program.  The sources have no      *)
(* arrays, so there is no constant block.                                    *)
Loaded ==
  [code          |-> [a \in {c.at : c \in Range(image.code)} |->
                        (CHOOSE c \in Range(image.code) : c.at = a).instr],
   entry         |-> image.entry_point,
   size          |-> image.size,
   heap_min_size |-> image.heap_min_size,
   const         |-> <<>>]

(* main reads the three parts of the file and calls Run, which sets up its   *)
(* array and registers.                                                      *)
Load ==
  /\ image # NoImage
  /\ prog = NoProgram
  /\ prog' = Loaded
  /\ print_stat' \in BOOLEAN
  /\ junk' \in Junk
  /\ mem' = [a \in (M!MemAddr)' |-> IF a < 0 THEN 0 ELSE junk']
  /\ sp' = (M!StackSize)' - 1
  /\ ip' = prog'.entry
  /\ by_step' = TRUE
  /\ running' = TRUE
  /\ UNCHANGED <<lvars, hp, vars_base, recurs_cnt, line_num, out, ret, history>>

-----------------------------------------------------------------------------
(* History.                                                                  *)

(* The machine is about to begin a line, or to end.                          *)
AtLine   == running /\ ip \in DOMAIN prog.code /\ prog.code[ip].op \in {"DBG", "END"}
LineHere == IF prog.code[ip].op = "END" THEN S!TheEnd ELSE prog.code[ip].arg

(* What memory holds at the places of the variables that live at line k.     *)
ValuesAt(k, base) ==
  LET vars   == Variables
      places == Places
      here   == Routine(k)
      Place(x) == places[CHOOSE n \in DOMAIN vars : vars[n].name = x /\ vars[n].routine = here
                                                  /\ S!LivesAt(vars[n], k)].instr
  IN  [x \in S!LiveNames(k) |->
         M!BytesNum(M!Read(mem, Place(x).arg + (IF Place(x).mod THEN base ELSE 0), FptBytes))]

Activations ==
  LET lines == Append([n \in 1..recurs_cnt |-> run.at[n].line], LineHere)
  IN  [n \in 1..(recurs_cnt + 1) |->
         [line |-> lines[n], env |-> ValuesAt(lines[n], bases'[n])]]

Shown == [n \in DOMAIN out |-> [i \in DOMAIN out[n].args |-> out[n].args[i][1]]]

Note ==
  IF AtLine
  THEN /\ bases' = Append(SubSeq(bases, 1, recurs_cnt), vars_base)
       /\ run' = [at |-> Activations, shown |-> Shown]
  ELSE UNCHANGED history

Execute == M!Step /\ Note /\ UNCHANGED lvars

-----------------------------------------------------------------------------
TInit ==
  /\ LInit
  /\ prog = NoProgram /\ print_stat = FALSE /\ junk = 0 /\ mem = <<>>
  /\ sp = 0 /\ hp = 0 /\ ip = 0 /\ vars_base = 0 /\ recurs_cnt = 0
  /\ by_step = FALSE /\ line_num = -1 /\ out = <<>> /\ running = FALSE /\ ret = "ec_ok"
  /\ bases = <<>> /\ run = S!NotRunning

TNext ==
  \/ LNext /\ UNCHANGED <<machine, history>>
  \/ Load
  \/ Execute

TSpec == TInit /\ [][TNext]_tvars

-----------------------------------------------------------------------------
(* Properties.                                                               *)

(* The compiled program does what the source says, line by line: control     *)
(* goes where the blocks, jumps, calls and returns of the source lead,       *)
(* variables keep the values they were given through whatever happens in     *)
(* other blocks and routines, routines get their arguments and callers their *)
(* results, and what is printed is what was to be (compiler/, vm_exe.c:Run). *)
ImplementsSource == S!Spec

(* No line leaves anything on the operand stack (vm_code.c's pushes, the     *)
(* machine's pops), in the main part or in a routine.                        *)
LinesBalance == AtLine => sp = M!StackSize - 1

(* A compiled program stops at the end of its source, or because its calls   *)
(* go too deep for the stack: it never meets an instruction the machine does *)
(* not have, leaves the code, or writes outside the array (vm_exe.c:1006).   *)
EndsWell ==
  prog # NoProgram /\ ~running =>
    \/ ret = "ec_end" /\ run.at # <<>> /\ recurs_cnt = 0
    \/ ret = "ec_stack_corrupted" /\ recurs_cnt > 0
=============================================================================
