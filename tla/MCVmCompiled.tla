---------------------------- MODULE MCVmCompiled ----------------------------
(***************************************************************************)
(* Compiled programs on the machine, each with stacks of several sizes:    *)
(* from too small for its first call to ample.                             *)
(***************************************************************************)
EXTENDS VmCalls, VmPrograms

(* A program that also declares n bytes it does not use, and what it shows. *)
Case(p, n, shows) == [code |-> p.code, entry |-> p.entry, size |-> p.size, const |-> p.const,
                      heap_min_size |-> p.heap_min_size + n, shows |-> shows]

Extra    == {0, 2, 3, 5, 8, 12, 17, 23, 30, 40}
Compiled == {<<Pow, PowShows>>, <<Loop, LoopShows>>, <<Text, TextShows>>, <<Nest, NestShows>>,
             <<Arrays, ArraysShows>>, <<Control, ControlShows>>, <<Blocks, BlocksShows>>,
             <<Indexed, IndexedShows>>, <<Moves, MovesShows>>}

MCPrograms == {Case(c[1], n, c[2]) : c \in Compiled, n \in Extra}
MCJunk     == {0, 255}
MCKeys     == {-1, 65}
MCScreen   == {24}

-----------------------------------------------------------------------------
(* Compiled programs keep the rules: no store of theirs reaches the linkage *)
(* bytes of a caller, and none declares a variable below its activation's   *)
(* base (vm_exe.c:559-622).                                                 *)
CompiledKeepRules == sound

(* The size of the stack decides whether a program gets to its end, never   *)
(* what it shows: at any moment the output is the beginning of the expected *)
(* one, at the end all of it, and the only other verdict is                 *)
(* ec_stack_corrupted (vm_exe.c:1006-1010).                                 *)
RightOrStopped ==
  /\ IsPrefix(out, prog.shows)
  /\ ~running => \/ ret = "ec_end" /\ out = prog.shows
                 \/ ret = "ec_stack_corrupted"

(* Every statement leaves the operand stack as it found it: in each          *)
(* activation sp is the same at every DBG, whichever way the branches, the   *)
(* loops and the calls between them went (vm_code.c's pushes and pops).      *)
StatementBalance ==
  Fetches /\ I.op = "DBG" /\ Inner(levels) # <<>> => Inner(levels) = <<sp>>

(* A program that ends has given back every activation: the stack is empty   *)
(* and no call is open.                                                      *)
EndsEmpty == ret = "ec_end" => sp = StackSize - 1 /\ recurs_cnt = 0 /\ vars_base = 0
=============================================================================
