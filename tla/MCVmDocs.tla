------------------------------ MODULE MCVmDocs ------------------------------
(***************************************************************************)
(* What the documentation says of a built-in function or an instruction,   *)
(* against what the machine does with the program the compiler makes.      *)
(***************************************************************************)
EXTENDS VmExe, VmPrograms

(* Each program with room to spare, and with spare bytes of its own.        *)
Roomy(programs) ==
  {[code |-> p.code, entry |-> p.entry, size |-> p.size, const |-> p.const,
    heap_min_size |-> p.heap_min_size + n] : p \in programs, n \in 20..40}

CursorProgram  == Roomy({Cursor})
AssignProgram  == Roomy({Assign})
MCJunk         == {0, 255}
MCKeys         == {65}
MCScreen       == {24}

-----------------------------------------------------------------------------
(* README.md:62 "CURS - Set cursor position. Params: x, y": a program that   *)
(* calls CURS moves the cursor and goes on.  The compiler accepts one        *)
(* parameter, the machine pops two (vm_exe.c:449-454).                       *)
CursSetsPosition == ~running => ret = "ec_end"

(* vm_exe.c:754 "3. Copy": after a=c the array shows the numbers of c.  The  *)
(* machine leaves the high bytes of the last element as they were            *)
(* (vm_exe.c:771-788).                                                       *)
AssignmentCopies == ret = "ec_end" => out = <<Event("PRINT", <<<<i2fpt(1), i2fpt(2)>>>>)>>
=============================================================================
